------------------------------- MODULE Tracing -------------------------------
(***************************************************************************)
(* Trace context across processes: a client, the front server it calls and *)
(* the server behind /external, each with telemetry on or off, and the     *)
(* spans each of them hands to its batch exporter.  A request is a stack   *)
(* of frames, one for each function that starts a span; frames of one      *)
(* process end in LIFO order, while a caller may give up on another        *)
(* process and a server may start late.  A trace has the number of the     *)
(* frame that began it; 0 is no trace (X-Trace-ID is then all zeros).      *)
(***************************************************************************)
EXTENDS Naturals, Sequences, FiniteSets

CONSTANTS
    Requests,
    MaxQueue     \* spans a batch processor keeps for its exporter: 2048 by default

ASSUME TracingAssumption == MaxQueue \in Nat \ {0}

Processes == {"client", "front", "back"}
Stranger == 99   \* the trace id an outside caller gives

VARIABLES
    on,        \* the processes whose telemetry.Instance succeeded
    alive,     \* the processes that run
    path,      \* what each request asks for
    stranger,  \* the requests of an outside caller without OpenTelemetry
    frames,    \* the frames of each request, the outermost first
    queue,     \* spans that have ended and wait in their process
    exported,  \* spans the trace backend has
    lost       \* spans that ended and will never be exported

vars == <<on, alive, path, stranger, frames, queue, exported, lost>>

---------------------------------------------------------------------------
(* The functions that start spans                                          *)

Frame(kind, process) == [kind |-> kind, process |-> process]

Paths == {"/products", "/external", "/health", "/unknown", "GetAll"}

\* The chain of calls for a path; GetAll is the RPC of grpc-client.
Chain(p) ==
    CASE p = "/products" ->
            <<Frame("main", "client"), Frame("do", "client"),
              Frame("middleware", "front"), Frame("handler", "front"), Frame("service", "front")>>
      [] p = "/external" ->
            <<Frame("main", "client"), Frame("do", "client"),
              Frame("middleware", "front"), Frame("handler", "front"), Frame("do", "front"),
              Frame("middleware", "back"), Frame("handler", "back"), Frame("service", "back")>>
      [] p = "/health" ->
            <<Frame("main", "client"), Frame("do", "client"),
              Frame("middleware", "front"), Frame("handler", "front"), Frame("health", "front")>>
      [] p = "/unknown" ->
            <<Frame("main", "client"), Frame("do", "client"), Frame("middleware", "front")>>
      [] p = "GetAll" ->
            <<Frame("rpc", "client"), Frame("interceptor", "front"),
              Frame("rpcHandler", "front"), Frame("service", "front")>>

\* An outside caller has no frames of its own in the trace.
Todo(r) == IF r \in stranger THEN SubSeq(Chain(path[r]), 3, Len(Chain(path[r]))) ELSE Chain(path[r])

---------------------------------------------------------------------------
(* Propagation                                                             *)

\* A span context as headers, metadata and Go contexts carry it.
None == [trace |-> 0, span |-> 0]
Own(r, i) == [trace |-> frames[r][i].trace, span |-> IF frames[r][i].trace = 0 THEN 0 ELSE i]

\* Without telemetry the propagator is a no-op in both directions.
Extract(process, carrier) == IF process \in on THEN carrier ELSE None

\* Mutant of Incoming: the middleware does not inject its span into the
\* request's headers, and handlers extract what the client sent.
IncomingAsSent(r, i) ==
    IF i = 1 \/ i - 1 > Len(frames[r]) THEN None
    ELSE IF frames[r][i - 1].kind = "middleware"
         THEN IF i > 2 THEN Own(r, i - 2) ELSE None
         ELSE Own(r, i - 1)

\* The traceparent a frame finds in the header or metadata it extracts from.
\* TraceMiddleware puts its own span there before the handler runs, Do and
\* grpc-client put theirs into what they send.  Without telemetry a client's
\* Inject puts nothing there, and a middleware's leaves what only its own
\* process reads, with an Extract that is a no-op too.
Incoming(r, i) ==
    IF i = 1 \/ i - 1 > Len(frames[r]) THEN None
    ELSE Own(r, i - 1)

\* The span context in the context a frame starts its span with.  HTTP handlers
\* extract from the header once more; the others are given a context, the
\* health service the one from before its handler's span.
Parent(r, i, f) ==
    CASE f.kind \in {"middleware", "interceptor", "handler"} -> Extract(f.process, Incoming(r, i))
      [] f.kind \in {"do", "service", "rpcHandler"} -> Own(r, i - 1)
      [] f.kind = "health" -> Own(r, i - 2)
      [] OTHER -> None

---------------------------------------------------------------------------
(* Frames                                                                  *)

Local(r, i) == i > 1 /\ Todo(r)[i - 1].process = Todo(r)[i].process

\* The next frame of a request starts its span; a server starts on what its
\* caller sent, whether or not the caller still waits.
Start(r) ==
    LET i == Len(frames[r]) + 1
        f == Todo(r)[i]
        parent == Parent(r, i, f)
    IN /\ i <= Len(Todo(r))
       /\ f.process \in alive
       /\ Local(r, i) => frames[r][i - 1].status = "open"
       /\ frames' = [frames EXCEPT ![r] = Append(@,
              [kind |-> f.kind, process |-> f.process, status |-> "open", answer |-> <<>>, parent |-> parent.span,
               trace |-> IF f.process \notin on THEN 0 ELSE IF parent = None THEN i ELSE parent.trace])]
       /\ UNCHANGED <<on, alive, path, stranger, queue, exported, lost>>

\* A frame returns after those it called in its process.
Innermost(r, i) == frames[r][i].status = "open" /\ (i < Len(frames[r]) /\ Local(r, i + 1) => frames[r][i + 1].status # "open")

\* Mutant of Ended: the middleware's deferred function does not end its span.
EndedByHandlers(kind) == kind \notin {"do", "middleware"}

\* Every span is ended by its function but that of Do.
Ended(kind) == kind # "do"

\* span.End: the batch processor drops a span when its queue is full; a span
\* of a process without telemetry is none.
End(r, i) ==
    LET p == frames[r][i].process
        kept == IF frames[r][i].trace # 0 THEN {<<r, i>>} ELSE {}
    IN IF Cardinality(queue[p] \cup kept) <= MaxQueue
       THEN queue' = [queue EXCEPT ![p] = @ \cup kept] /\ lost' = lost
       ELSE queue' = queue /\ lost' = lost \cup kept

\* Mutant of TraceId: the request's own X-Trace-ID is handed back.
TraceIdOfCaller(r, i) == IF i = 1 THEN Stranger ELSE frames[r][i - 1].trace

\* What the middleware puts in X-Trace-ID before it calls the handler, and the
\* interceptor in the trailer after it.
TraceId(r, i) == frames[r][i].trace

\* The answers a caller can have when it returns: its callee's X-Trace-ID if
\* that is done, or an error.  A gRPC trailer and an HTTP header come the same.
AnswersFor(r, i) ==
    {<<>>} \cup (IF /\ frames[r][i].kind \in {"do", "rpc"} /\ i < Len(frames[r])
                      /\ frames[r][i + 1].status \in {"ended", "unended"}
                   THEN {<<TraceId(r, i + 1)>>} ELSE {})

Return(r, i) ==
    /\ Innermost(r, i)
    /\ \E answer \in AnswersFor(r, i) :
          frames' = [frames EXCEPT ![r][i].answer = answer,
                                   ![r][i].status = IF Ended(frames[r][i].kind) THEN "ended" ELSE "unended"]
    /\ IF Ended(frames[r][i].kind) THEN End(r, i) ELSE UNCHANGED <<queue, lost>>
    /\ UNCHANGED <<on, alive, path, stranger, exported>>

\* An HTTP handler panics: its own defer ends its span, the middleware
\* re-raises and does not, net/http closes the connection.
Panic(r, i) ==
    /\ frames[r][i].kind = "handler" /\ Innermost(r, i)
    /\ frames' = [frames EXCEPT ![r][i].status = "ended", ![r][i - 1].status = "panicked"]
    /\ End(r, i)
    /\ UNCHANGED <<on, alive, path, stranger, exported>>

---------------------------------------------------------------------------
(* Processes                                                               *)

\* The exporter sends what is queued, and drops it if the backend refuses.
Export(p) ==
    /\ p \in alive /\ queue[p] # {}
    /\ queue' = [queue EXCEPT ![p] = {}]
    /\ \/ exported' = exported \cup queue[p] /\ lost' = lost
       \/ exported' = exported /\ lost' = lost \cup queue[p]
    /\ UNCHANGED <<on, alive, path, stranger, frames>>

\* A process ends with what is open and what is queued in it.
Exit(p) ==
    /\ p \in alive
    /\ alive' = alive \ {p}
    /\ frames' = [r \in Requests |-> [i \in DOMAIN frames[r] |->
                     IF frames[r][i].process = p /\ frames[r][i].status = "open"
                     THEN [frames[r][i] EXCEPT !.status = "killed"] ELSE frames[r][i]]]
    /\ lost' = lost \cup queue[p]
    /\ queue' = [queue EXCEPT ![p] = {}]
    /\ UNCHANGED <<on, path, stranger, exported>>

\* main ignores the error of telemetry.Instance.
Init ==
    /\ on \in SUBSET Processes
    /\ alive = Processes
    /\ path \in [Requests -> Paths]
    /\ stranger \in SUBSET {r \in Requests : path[r] # "GetAll"}
    /\ frames = [r \in Requests |-> <<>>]
    /\ queue = [p \in Processes |-> {}]
    /\ exported = {} /\ lost = {}

Next ==
    \/ \E r \in Requests :
          Start(r) \/ \E i \in DOMAIN frames[r] : Return(r, i) \/ Panic(r, i)
    \/ \E p \in Processes : Export(p) \/ Exit(p)

Spec == Init /\ [][Next]_vars

---------------------------------------------------------------------------
(* Properties                                                              *)

Spans == UNION {{<<r, i>> : i \in DOMAIN frames[r]} : r \in Requests}
Live(r, i) == frames[r][i].process \in on

\* LOGGING.md's "trace_id stays the same throughout a request", and more: the
\* spans of a request are one trace whose tree is that of the calls, however
\* the calls interleave, time out or outlive their callers, as far as every
\* process on the way has telemetry.  Only the health service's span is beside
\* that of the handler that called it.
OneTrace ==
    \A r \in Requests : \A i, j \in DOMAIN frames[r] :
        i <= j /\ (\A k \in i .. j : Live(r, k)) =>
            /\ frames[r][i].trace = frames[r][j].trace
            /\ i = j - 1 => frames[r][j].parent = IF frames[r][j].kind = "health" THEN i - 1 ELSE i

\* The trace id a caller gets back names the trace in which the server's spans
\* are found, and that is the caller's own if both of them have telemetry; it
\* is all zeros only if the server has none.
TraceIdAnswered ==
    \A r \in Requests : \A i \in DOMAIN frames[r] :
        frames[r][i].answer # <<>> =>
            /\ frames[r][i].answer = <<frames[r][i + 1].trace>>
            /\ Live(r, i + 1) <=> frames[r][i].answer # <<0>>
            /\ Live(r, i) /\ Live(r, i + 1) => frames[r][i].answer = <<frames[r][i].trace>>

\* Since Do's span is never ended, the trace of a request reaches the backend
\* in pieces even if nothing fails: one, and one more for each call through Do
\* between live processes.  Nothing else tears it.
TornAtDoOnly ==
    \A s \in exported :
        LET f == frames[s[1]]
            torn == f[s[2]].parent # 0 /\ <<s[1], f[s[2]].parent>> \notin exported
            above == f[f[s[2]].parent]
        IN torn => \/ above.kind = "do"
                   \/ above.status \in {"open", "panicked", "killed"}
                   \/ <<s[1], f[s[2]].parent>> \in lost \cup queue[above.process]
=============================================================================
