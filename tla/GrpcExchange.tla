------------------------------ MODULE GrpcExchange ------------------------------
(***************************************************************************)
(* RPCs from grpc-client to the grpc-servers it balances over: the call    *)
(* with its 3 s deadline, UnaryTracingInterceptor around the handler, and  *)
(* gRPC between them.  The question is what the record, the span and the   *)
(* trailer say of an RPC, and what they are worth when the deadline, a     *)
(* panic or the death of the server comes between any two steps.           *)
(***************************************************************************)
EXTENDS Naturals

CONSTANTS
    Rpcs,     \* the RPCs made
    Servers   \* the servers the target resolves to

VARIABLES
    up,       \* the servers that are alive
    at,       \* the server an RPC is sent to
    client,   \* the caller: "idle", "calling" or "done"
    code,     \* the code the caller gets and logs
    trailer,  \* the trace id the caller finds in the trailer
    server,   \* the RPC at its server: "none", "handler", "handled", "sent", "panicked" or "lost"
    done,     \* the error of the handler's context once it is done
    span,     \* the interceptor's span: "none", "open" or "ended"
    status,   \* its status
    logged,   \* the code in the "incoming::response" record
    wire      \* what the server sends: code, trace id, and whether it is too long

vars == <<up, at, client, code, trailer, server, done, span, status, logged, wire>>

None == "none"
Unsent == [code |-> None, trace |-> None, long |-> FALSE]

Init ==
    /\ up = Servers
    /\ at \in [Rpcs -> Servers]
    /\ client = [r \in Rpcs |-> "idle"]
    /\ code = [r \in Rpcs |-> None] /\ trailer = [r \in Rpcs |-> None]
    /\ server = [r \in Rpcs |-> None]
    /\ done = [r \in Rpcs |-> None]
    /\ span = [r \in Rpcs |-> None] /\ status = [r \in Rpcs |-> None]
    /\ logged = [r \in Rpcs |-> None]
    /\ wire = [r \in Rpcs |-> Unsent]

clientVars == <<client, code, trailer>>
serverVars == <<server, span, status, logged, wire>>

---------------------------------------------------------------------------
(* The caller                                                              *)

\* Injects the trace context into the metadata and calls.
Call(r) ==
    /\ client[r] = "idle"
    /\ client' = [client EXCEPT ![r] = "calling"]
    /\ UNCHANGED <<up, at, code, trailer, done, serverVars>>

\* The caller returns with a code, and the trace id of the trailer, if any.
Returns(r, c, trace) ==
    /\ client[r] = "calling"
    /\ client' = [client EXCEPT ![r] = "done"]
    /\ code' = [code EXCEPT ![r] = c]
    /\ trailer' = [trailer EXCEPT ![r] = trace]

\* Mutant of Deadline: context.WithCancel.
NoDeadline == FALSE

\* context.WithTimeout(globalCtx, 3*time.Second): a call has a deadline, which its
\* metadata take to the server.
Deadline == TRUE

\* The call returns at its deadline, without waiting for its server.
Expire(r) ==
    /\ Deadline
    /\ Returns(r, "DeadlineExceeded", None)
    /\ UNCHANGED <<up, at, done, serverVars>>

\* The signal cancels globalCtx, or the server resets a stream whose time is over.
Cancel(r) ==
    /\ Returns(r, "Canceled", None)
    /\ UNCHANGED <<up, at, done, serverVars>>

\* The server's answer.  A message longer than the 4 MiB a client takes is an
\* error of the client's own, and the trailer is read or not by then.
Receive(r) ==
    /\ server[r] = "sent"
    /\ IF wire[r].long
       THEN \E trace \in {None, wire[r].trace} : Returns(r, "ResourceExhausted", trace)
       ELSE Returns(r, wire[r].code, wire[r].trace)
    /\ UNCHANGED <<up, at, done, serverVars>>

\* The connection is lost, with its server or without, an answer on its way
\* included.
LoseConnection(r) ==
    /\ Returns(r, "Unavailable", None)
    /\ UNCHANGED <<up, at, done, serverVars>>

---------------------------------------------------------------------------
(* The interceptor                                                         *)

\* The metadata is read and the span started, under the caller's trace.
Arrive(r) ==
    /\ client[r] # "idle" /\ server[r] = None /\ at[r] \in up
    /\ server' = [server EXCEPT ![r] = "handler"]
    /\ span' = [span EXCEPT ![r] = "open"]
    /\ UNCHANGED <<up, at, clientVars, done, status, logged, wire>>

\* The context of a handler ends by the server's own timer, which is set to the
\* time left in the call's metadata and also cancels the stream, or because the
\* caller has reset the stream or lost the connection.
ContextDone(r) ==
    /\ server[r] = "handler" /\ done[r] = None
    /\ Deadline \/ client[r] = "done"
    /\ \E error \in {"DeadlineExceeded", "Canceled"} : done' = [done EXCEPT ![r] = error]
    /\ UNCHANGED <<up, at, clientVars, serverVars>>

\* What a handler may return: an error of the driver or the service, which is
\* no gRPC status, or one that wraps the error of a context that is done.
Outcomes(r) == {"OK", "error"} \cup (IF done[r] = None THEN {} ELSE {"context error"})

\* status.FromError knows none of these errors.
LoggedCode(outcome) == IF outcome = "OK" THEN "OK" ELSE "Unknown"

\* gRPC does know the errors of a context.
WireCode(r, outcome) ==
    CASE outcome = "OK" -> "OK"
      [] outcome = "error" -> "Unknown"
      [] OTHER -> done[r]

\* Mutant of Trailer: the trailer is set on success alone.
TrailerOnSuccess(r, outcome) == IF outcome = "OK" THEN r ELSE None

\* grpc.SetTrailer, before the response is logged and whatever the outcome;
\* an RPC names its own trace.
Trailer(r, outcome) == r

\* Mutant of Handled: span.End is called on success alone.
HandledEndOnSuccess(r) ==
    /\ server[r] = "handler"
    /\ \E outcome \in Outcomes(r) :
          /\ status' = [status EXCEPT ![r] = IF outcome = "OK" THEN "Ok" ELSE "Error"]
          /\ logged' = [logged EXCEPT ![r] = LoggedCode(outcome)]
          /\ \E long \in {FALSE, outcome = "OK"} :
                wire' = [wire EXCEPT ![r] = [code |-> WireCode(r, outcome),
                                             trace |-> Trailer(r, outcome), long |-> long]]
          /\ span' = [span EXCEPT ![r] = IF outcome = "OK" THEN "ended" ELSE "open"]
    /\ server' = [server EXCEPT ![r] = "handled"]
    /\ UNCHANGED <<up, at, clientVars, done>>

\* The handler has returned: status of the span, trailer, record, and End.
Handled(r) ==
    /\ server[r] = "handler"
    /\ \E outcome \in Outcomes(r) :
          /\ status' = [status EXCEPT ![r] = IF outcome = "OK" THEN "Ok" ELSE "Error"]
          /\ logged' = [logged EXCEPT ![r] = LoggedCode(outcome)]
          /\ \E long \in {FALSE, outcome = "OK"} :
                wire' = [wire EXCEPT ![r] = [code |-> WireCode(r, outcome),
                                             trace |-> Trailer(r, outcome), long |-> long]]
    /\ span' = [span EXCEPT ![r] = "ended"]
    /\ server' = [server EXCEPT ![r] = "handled"]
    /\ UNCHANGED <<up, at, clientVars, done>>

\* gRPC writes the response.
Send(r) ==
    /\ server[r] = "handled"
    /\ server' = [server EXCEPT ![r] = "sent"]
    /\ UNCHANGED <<up, at, clientVars, done, span, status, logged, wire>>

\* What is left of the RPCs of a server that dies.
Lost(s, last) ==
    [q \in Rpcs |-> IF at[q] = s /\ server[q] \in {"handler", "handled"}
                    THEN IF q \in last THEN "panicked" ELSE "lost" ELSE server[q]]

\* The deferred function records the panic and panics again: span.End is not
\* reached, nothing above recovers, and the process ends.
Panic(r) ==
    /\ server[r] = "handler"
    /\ up' = up \ {at[r]}
    /\ server' = Lost(at[r], {r})
    /\ status' = [status EXCEPT ![r] = "Error"]
    /\ UNCHANGED <<at, clientVars, done, span, logged, wire>>

\* Any other end of the process: a kill, or the exit after a signal.
Die(s) ==
    /\ s \in up
    /\ up' = up \ {s}
    /\ server' = Lost(s, {})
    /\ UNCHANGED <<at, clientVars, done, span, status, logged, wire>>

---------------------------------------------------------------------------
Next ==
    \/ \E r \in Rpcs :
          \/ Call(r) \/ Expire(r) \/ Cancel(r) \/ Receive(r) \/ LoseConnection(r)
          \/ Arrive(r) \/ ContextDone(r) \/ Handled(r) \/ Send(r) \/ Panic(r)
    \/ \E s \in Servers : Die(s)

\* Timers fire, the caller's and the server's, and a handler returns once its
\* context is done, because it passes it to the driver.  Nothing else is assumed:
\* MongoDB may hold a command for ever, and no answer need arrive.
Spec ==
    /\ Init /\ [][Next]_vars
    /\ \A r \in Rpcs : /\ WF_vars(Expire(r)) /\ WF_vars(ContextDone(r))
                       /\ WF_vars(done[r] # None /\ Handled(r))

---------------------------------------------------------------------------
(* Properties                                                              *)

Codes == {"OK", "Unknown", "DeadlineExceeded", "Canceled", "ResourceExhausted", "Unavailable"}

\* The values of the variables, and that a server does no work once dead.
TypeOK ==
    /\ up \subseteq Servers /\ at \in [Rpcs -> Servers]
    /\ client \in [Rpcs -> {"idle", "calling", "done"}]
    /\ code \in [Rpcs -> Codes \cup {None}] /\ trailer \in [Rpcs -> Rpcs \cup {None}]
    /\ server \in [Rpcs -> {None, "handler", "handled", "sent", "panicked", "lost"}]
    /\ done \in [Rpcs -> {None, "DeadlineExceeded", "Canceled"}] /\ span \in [Rpcs -> {None, "open", "ended"}]
    /\ status \in [Rpcs -> {None, "Ok", "Error"}] /\ logged \in [Rpcs -> {None, "OK", "Unknown"}]
    /\ wire \in [Rpcs -> [code : Codes \cup {None}, trace : Rpcs \cup {None}, long : BOOLEAN]]
    /\ \A r \in Rpcs : server[r] \in {"handler", "handled"} => at[r] \in up

\* What the two records of an RPC say, the caller's and the server's: they
\* agree unless one of the two saw the end of the call alone.  In particular
\* OK at the caller is OK at the server, while the converse fails only for a
\* call given up, a lost server or an answer too long for the client.  Both
\* have the trace id of this RPC: the trailer brings it with everything that is
\* the server's answer, errors included.
RecordsAgree ==
    \A r \in Rpcs :
        client[r] = "done" =>
            /\ code[r] # logged[r] =>
                  code[r] \in {"DeadlineExceeded", "Canceled", "Unavailable", "ResourceExhausted"}
            /\ trailer[r] \in {r, None}
            /\ code[r] \in {"OK", "Unknown"} => trailer[r] = r

\* A server's OK, in the record and the span, is never an error on the wire,
\* and the "Unknown" it logs is what it sends, except for a context that was
\* done: that one is logged as Unknown and sent as its error.  Only the panic
\* of its own RPC or the end of the process leaves a span open.
ServerRecordTrue ==
    \A r \in Rpcs :
        /\ server[r] = "sent" =>
              /\ (logged[r] = "OK") = (wire[r].code = "OK")
              /\ (status[r] = "Ok") = (wire[r].code = "OK")
              /\ logged[r] # wire[r].code => wire[r].code = done[r]
        /\ span[r] = "open" => server[r] \in {"handler", "panicked", "lost"}

\* An RPC occupies neither side for ever, even if MongoDB never answers: the
\* deadline of the call ends it at the caller, and through its metadata and the
\* context of the handler, or by the reset of the stream, at the server as well.
RpcEnds ==
    \A r \in Rpcs :
        /\ client[r] = "calling" ~> client[r] = "done"
        /\ server[r] = "handler" ~> server[r] # "handler"
=============================================================================
