---------------------------- MODULE ServerLifecycle ----------------------------
(***************************************************************************)
(* The life of http-server and of grpc-server, which differ in how they    *)
(* listen and how they stop: start-up, the goroutine that serves, the      *)
(* signal, the graceful shutdown of production, and the exit.  A request   *)
(* is a handler goroutine; what it does is CrudService's subject.  Each    *)
(* request leaves one batch of ended spans in the exporter's queue.        *)
(***************************************************************************)
EXTENDS Naturals

CONSTANTS Requests

VARIABLES
    kind,        \* "http" or "grpc"
    production,  \* ENV is "production"
    telemetryOK, \* the trace exporter can be built from the configuration
    main,        \* where main is
    server,      \* the serving goroutine: "none", "starting", "serving"; then its call has
                 \* "returned" as it should, "failed", or was "refused" by a stopped server
    stopping,    \* Shutdown or GracefulStop has been called
    cancelled,   \* globalCtx is done
    handler,     \* each request: "new", "connected", "running", "answered" or "killed"
    spans,       \* its spans: "none", "queued", "exported" or "lost"
    report,      \* what main logged of the shutdown: "none", "proper" or "failed"
    exitCode     \* 2 is a panic; 9 while the process lives

fixed == <<kind, production, telemetryOK>>
vars == <<fixed, main, server, stopping, cancelled, handler, spans, report, exitCode>>

Alive == main # "exited"
Running == {r \in Requests : handler[r] = "running"}

Init ==
    /\ kind \in {"http", "grpc"}
    /\ production \in BOOLEAN
    /\ telemetryOK \in BOOLEAN
    /\ main = "config"
    /\ server = "none"
    /\ stopping = FALSE /\ cancelled = FALSE
    /\ handler = [r \in Requests |-> "new"]
    /\ spans = [r \in Requests |-> "none"]
    /\ report = "none"
    /\ exitCode = 9

\* The process ends, with every goroutine, wherever it is.
Exit(code) ==
    /\ main' = "exited"
    /\ exitCode' = code
    /\ handler' = [r \in Requests |-> IF handler[r] = "running" THEN "killed" ELSE handler[r]]
    /\ spans' = [r \in Requests |-> IF spans[r] = "queued" THEN "lost" ELSE spans[r]]
    /\ UNCHANGED <<fixed, server, stopping, cancelled, report>>

---------------------------------------------------------------------------
(* Start-up                                                                *)

\* config.Instance: os.Exit(1) when a required variable is missing.
ConfigFails ==
    /\ main = "config"
    /\ Exit(1)

Configure ==
    /\ main = "config"
    /\ main' = "telemetry"
    /\ UNCHANGED <<fixed, server, stopping, cancelled, handler, spans, report, exitCode>>

\* telemetry.Instance: its error is ignored; without an exporter shutdownFunc is
\* nil, and main defers a call of it all the same.
InitTelemetry ==
    /\ main = "telemetry"
    /\ main' = "database"
    /\ UNCHANGED <<fixed, server, stopping, cancelled, handler, spans, report, exitCode>>

\* database.Instance: the ping fails, or is given up after 5 s or on a signal.
DatabaseFails ==
    /\ main = "database"
    /\ Exit(1)

DatabaseConnects ==
    /\ main = "database"
    /\ ~cancelled
    /\ main' = "listen"
    /\ UNCHANGED <<fixed, server, stopping, cancelled, handler, spans, report, exitCode>>

\* grpc-server listens before it starts the goroutine.
ListenFails ==
    /\ main = "listen"
    /\ kind = "grpc"
    /\ Exit(1)

StartServer ==
    /\ main = "listen"
    /\ server' = "starting"
    /\ main' = "wait"
    /\ UNCHANGED <<fixed, stopping, cancelled, handler, spans, report, exitCode>>

---------------------------------------------------------------------------
(* The serving goroutine                                                   *)

\* ListenAndServe or Serve gets to its accept loop.
Serving ==
    /\ Alive
    /\ server = "starting"
    /\ ~stopping
    /\ server' = "serving"
    /\ UNCHANGED <<fixed, main, stopping, cancelled, handler, spans, report, exitCode>>

\* http-server's goroutine cannot listen, which it may find out when a shutdown has
\* already begun, or the accept loop of either breaks before the server is
\* stopped; the call returns with the error.
ServeFails ==
    /\ Alive
    /\ \/ server = "starting" /\ kind = "http"
       \/ server = "serving" /\ ~stopping
    /\ server' = "failed"
    /\ UNCHANGED <<fixed, main, stopping, cancelled, handler, spans, report, exitCode>>

\* Serve is called on a gRPC server that has been stopped: an error of its own.
ServeRefused ==
    /\ Alive
    /\ server = "starting" /\ kind = "grpc" /\ stopping
    /\ server' = "refused"
    /\ UNCHANGED <<fixed, main, stopping, cancelled, handler, spans, report, exitCode>>

\* Once the server is being stopped ListenAndServe returns ErrServerClosed, which
\* is no error, and Serve returns nil.
ServeReturns ==
    /\ Alive
    /\ stopping
    /\ \/ server = "serving"
       \/ server = "starting" /\ kind = "http"
    /\ server' = "returned"
    /\ UNCHANGED <<fixed, main, stopping, cancelled, handler, spans, report, exitCode>>

\* Mutant of ServeExits: http.ErrServerClosed is not told from other errors.
ServeExitsAlways ==
    /\ Alive
    /\ server \in {"failed", "refused"} \/ (server = "returned" /\ kind = "http")
    /\ Exit(1)

\* The goroutine logs the error and ends the process, whatever main has done since
\* the call returned.
ServeExits ==
    /\ Alive
    /\ server \in {"failed", "refused"}
    /\ Exit(1)

\* The accept loop takes a connection; the listener is closed as soon as the
\* server is stopping.
Connect(r) ==
    /\ Alive
    /\ server = "serving" /\ ~stopping
    /\ handler[r] = "new"
    /\ handler' = [handler EXCEPT ![r] = "connected"]
    /\ UNCHANGED <<fixed, main, server, stopping, cancelled, spans, report, exitCode>>

\* Mutant of Accept: a shutdown that is over has not closed the connections.
AcceptAlways(r) ==
    /\ Alive
    /\ handler[r] = "connected"
    /\ handler' = [handler EXCEPT ![r] = "running"]
    /\ UNCHANGED <<fixed, main, server, stopping, cancelled, spans, report, exitCode>>

\* A request arrives on its connection, which it may still do while the server is
\* being stopped: connections are closed once they are idle, and all of them
\* are when Shutdown or GracefulStop succeeds.
Accept(r) ==
    /\ Alive
    /\ report # "proper"
    /\ handler[r] = "connected"
    /\ handler' = [handler EXCEPT ![r] = "running"]
    /\ UNCHANGED <<fixed, main, server, stopping, cancelled, spans, report, exitCode>>

\* The handler returns and its spans end.
Return(r) ==
    /\ Alive
    /\ handler[r] = "running"
    /\ handler' = [handler EXCEPT ![r] = "answered"]
    /\ spans' = [spans EXCEPT ![r] = IF telemetryOK THEN "queued" ELSE "none"]
    /\ UNCHANGED <<fixed, main, server, stopping, cancelled, report, exitCode>>

\* An RPC's handler panics: the interceptor panics again and nothing recovers,
\* so the process dies.  net/http recovers.
PanicInRPC(r) ==
    /\ Alive
    /\ kind = "grpc"
    /\ handler[r] = "running"
    /\ Exit(2)

\* The span processor sends what is queued, now and then.
Export(r) ==
    /\ Alive
    /\ spans[r] = "queued"
    /\ spans' = [spans EXCEPT ![r] = "exported"]
    /\ UNCHANGED <<fixed, main, server, stopping, cancelled, handler, report, exitCode>>

---------------------------------------------------------------------------
(* The signal and the shutdown                                             *)

Signal ==
    /\ Alive
    /\ ~cancelled
    /\ cancelled' = TRUE
    /\ UNCHANGED <<fixed, main, server, stopping, handler, spans, report, exitCode>>

\* Outside production: os.Exit(0), without the deferred calls.
ExitAtOnce ==
    /\ main = "wait"
    /\ cancelled
    /\ ~production
    /\ Exit(0)

BeginShutdown ==
    /\ main = "wait"
    /\ cancelled
    /\ production
    /\ main' = "shutdown"
    /\ stopping' = TRUE
    /\ UNCHANGED <<fixed, server, cancelled, handler, spans, report, exitCode>>

\* Mutant of ShutdownReturns: main does not wait for Shutdown to return.
ShutdownUnawaited ==
    /\ main = "shutdown"
    /\ report' = "proper"
    /\ main' = "deferred"
    /\ UNCHANGED <<fixed, server, stopping, cancelled, handler, spans, exitCode>>

\* Shutdown and GracefulStop return when no handler is running.
ShutdownReturns ==
    /\ main = "shutdown"
    /\ Running = {}
    /\ report' = "proper"
    /\ main' = "deferred"
    /\ UNCHANGED <<fixed, server, stopping, cancelled, handler, spans, exitCode>>

\* Mutant of ShutdownDeadline: server.Shutdown(context.Background()).
NoDeadline == FALSE /\ UNCHANGED vars

\* http-server gives Shutdown 10 s; GracefulStop has no deadline.
ShutdownDeadline ==
    /\ main = "shutdown"
    /\ kind = "http"
    /\ Running # {}
    /\ report' = "failed"
    /\ main' = "deferred"
    /\ UNCHANGED <<fixed, server, stopping, cancelled, handler, spans, exitCode>>

\* The deferred shutdown(): a nil one panics.  The other is tp.Shutdown with
\* globalCtx, which is done by now, so it returns without waiting for the queue.
MainReturns ==
    /\ main = "deferred"
    /\ Exit(IF telemetryOK THEN 0 ELSE 2)

---------------------------------------------------------------------------

Main ==
    \/ ConfigFails \/ Configure \/ InitTelemetry \/ DatabaseFails \/ DatabaseConnects \/ ListenFails \/ StartServer
    \/ ExitAtOnce \/ BeginShutdown \/ ShutdownReturns \/ ShutdownDeadline \/ MainReturns
Server == Serving \/ ServeRefused \/ ServeReturns \/ ServeExits

Next ==
    \/ Main \/ Server \/ ServeFails \/ Signal
    \/ \E r \in Requests : Connect(r) \/ Accept(r) \/ Return(r) \/ PanicInRPC(r) \/ Export(r)

Spec == Init /\ [][Next]_vars

\* main goes on whenever it can, and so does the serving goroutine, whose accept
\* loop need not break.  Nothing is assumed of requests, of their handlers, which
\* may wait for MongoDB for ever, or of the exporter.
FairSpec == Spec /\ WF_vars(Main) /\ WF_vars(Server)

---------------------------------------------------------------------------
(* Properties                                                              *)

TypeOK ==
    /\ kind \in {"http", "grpc"} /\ production \in BOOLEAN /\ telemetryOK \in BOOLEAN
    /\ main \in {"config", "telemetry", "database", "listen", "wait", "shutdown", "deferred", "exited"}
    /\ server \in {"none", "starting", "serving", "returned", "failed", "refused"}
    /\ stopping \in BOOLEAN /\ cancelled \in BOOLEAN
    /\ handler \in [Requests -> {"new", "connected", "running", "answered", "killed"}]
    /\ spans \in [Requests -> {"none", "queued", "exported", "lost"}]
    /\ report \in {"none", "proper", "failed"}
    /\ exitCode \in {0, 1, 2, 9} /\ (exitCode = 9 <=> Alive)

\* When "Server exited properly" or "gRPC server exited cleanly" is logged, every
\* request that was accepted has been answered, and none comes later.
ProperExit == report = "proper" => \A r \in Requests : handler[r] \in {"new", "connected", "answered"}

\* In production the process ends under a running request for three reasons
\* only: an HTTP handler that outlasts the deadline of the shutdown, a panic in
\* an RPC, and an accept loop that broke, be it noticed before the shutdown or
\* during it; never because the serving goroutine took a shutdown for an error,
\* and never because a gRPC server was stopped before it served.
NoKillInProduction ==
    production /\ (\E r \in Requests : handler[r] = "killed") =>
        \/ kind = "http" /\ report = "failed"
        \/ kind = "grpc" /\ report = "none" /\ exitCode = 2
        \/ exitCode = 1 /\ server = "failed"

\* In production the exit code 0 means that the shutdown was reported; 1 that the
\* process did not start, that the server failed of itself, or that a gRPC server
\* in production was stopped before it served, and never that a server that was
\* serving has been stopped; 2 that there is no telemetry to shut down or that an
\* RPC panicked.
ExitCodes ==
    /\ exitCode = 0 /\ production => report # "none"
    /\ exitCode = 1 => \/ server \in {"none", "failed"}
                       \/ server = "refused" /\ kind = "grpc" /\ production /\ cancelled
    /\ exitCode = 2 => \/ ~telemetryOK
                       \/ kind = "grpc" /\ \E r \in Requests : handler[r] = "killed"

\* After a signal http-server ends, even under handlers that never return;
\* grpc-server ends unless some handler never returns.
Stops ==
    /\ cancelled /\ kind = "http" ~> ~Alive
    /\ []<>(cancelled /\ Running = {}) => <>~Alive

\* main.go:162 "For production/staging: use graceful shutdown": a shutdown that
\* was reported proper, of a server without an error, ends the process normally.
GracefulExit ==
    exitCode # 9 /\ report = "proper" /\ server \notin {"failed", "refused"} => exitCode = 0
===============================================================================
