----------------------------- MODULE HttpExchange -----------------------------
(***************************************************************************)
(* One request to http-server: TraceMiddleware around the routed handler,  *)
(* the ResponseWriter between the handler and net/http, and HTTPClient     *)
(* under the /external handler.  The question is whether what the log and  *)
(* the span say of an exchange is what the client got, and whether the     *)
(* handler gets what the client sent.  Bodies are lengths.  What handlers  *)
(* answer on behalf of the product service is CrudService's subject; here  *)
(* it is any answer the handler has code for.                              *)
(***************************************************************************)
EXTENDS Naturals, Sequences

CONSTANTS
    MaxBodyLogged,  \* 1 << 20 in the code
    MaxLength       \* a bound on the lengths of bodies, beyond MaxBodyLogged

ASSUME ExchangeAssumption ==
    /\ MaxBodyLogged \in Nat \ {0}
    /\ MaxLength \in Nat /\ MaxLength > MaxBodyLogged

VARIABLES
    pc,         \* "idle", "handle", "done" or "panicked"
    req,        \* what the client sent
    readable,   \* how much of the request's body the handler can read
    calls,      \* the calls the handler still makes on its ResponseWriter
    statusCode, size, buf,  \* the ResponseWriter; buf by its length
    wire,       \* what net/http has sent: the status, 0 for none, and bytes
    spanStatus, \* the status of the middleware's span
    logged,     \* the "incoming::response" record: status and body length
    cause       \* why the handler answers as it does

vars == <<pc, req, readable, calls, statusCode, size, buf, wire, spanStatus, logged, cause>>

Lengths == 0 .. MaxLength
Smaller(m, n) == IF m < n THEN m ELSE n

---------------------------------------------------------------------------
(* What handlers write                                                     *)

WriteHeader(code) == [op |-> "header", code |-> code, len |-> 0]
Write(n) == [op |-> "write", code |-> 0, len |-> n]
HttpError(code) == <<WriteHeader(code), Write(1)>>
Json(n) == <<WriteHeader(200), Write(n)>>

\* Encode of a price that has no JSON text: the error is ignored.
Unencodable == <<WriteHeader(200)>>

Does(why, script) == [why |-> why, script |-> script]
Answers == {Does("ok", Json(n)) : n \in Lengths \ {0}}

\* Mutant of Refusals: the handler returns without http.Error.
SilentRefusals(codes) == {Does("error", <<>>)}
Refusals(codes) == {Does("error", HttpError(code)) : code \in codes}

\* A body is a JSON value and whatever follows it; value is its length, 0 if it is
\* no JSON, and fits says that its types are those of model.Product: a stock of
\* 1.5 or a name of 7 does not.  Decode reads one value and fails if the value is
\* no JSON, is cut, or does not fit.
Decodes == req.value # 0 /\ req.value <= readable /\ req.fits

Product ==
    CASE req.method = "GET" -> Answers \cup {Does("unencodable", Unencodable)} \cup Refusals({400, 404})
      [] req.method = "POST" -> IF Decodes THEN Answers \cup Refusals({400})
                                           ELSE {Does("undecodable", HttpError(400))}
      [] req.method = "PUT" -> Refusals({400}) \cup     \* no id
                               IF Decodes THEN Answers \cup Refusals({500})
                                          ELSE {Does("undecodable", HttpError(400))}
      [] req.method = "DELETE" -> Answers \cup Refusals({400, 500})
      [] OTHER -> Refusals({405})

\* What may come of HTTPClient.Do: the transport fails or times out, reading
\* the body fails, or the upstream answers, with any status.
Upstream == [answered : {TRUE}, json : BOOLEAN, len : Lengths] \cup {[answered |-> FALSE]}

\* Do returns no error.  The body must be JSON or empty: assignRawBody, the
\* fallback, knows *string and *[]byte and is given an *interface{}.
Do(u) == u.answered /\ (u.json \/ u.len = 0)

\* The upstream's status is not looked at, and an error is not reported: the
\* handler returns and net/http answers for it.
Fetch ==
    {IF Do(u) THEN Does("ok", <<WriteHeader(200), Write(u.len)>>) ELSE Does("fetch failed", <<>>) :
        u \in Upstream}

\* A ping that fails or takes 2 s: DOWN is written as 500, and then as 200.
Check == Answers \cup {Does("down", <<WriteHeader(500), WriteHeader(200), Write(n)>>) : n \in Lengths \ {0}}

GetOnly(behaviour) == IF req.method = "GET" THEN behaviour ELSE Refusals({405})

\* http-server's routes.
Behaviours ==
    CASE req.route = "/" -> {Does("ok", <<Write(1)>>)}
      [] req.route = "/products" -> Answers \cup {Does("unencodable", Unencodable)} \cup Refusals({500})
      [] req.route = "/product" -> Product
      [] req.route = "/external" -> GetOnly(Fetch)
      [] req.route = "/healthz" -> GetOnly(Check)
      [] OTHER -> Refusals({404})

---------------------------------------------------------------------------
(* The middleware before the handler                                       *)

Requests ==
    {r \in [route : {"/", "/products", "/product", "/external", "/healthz", "unknown"},
            method : {"GET", "POST", "PUT", "DELETE", "PATCH"},
            length : Lengths, value : Lengths, fits : BOOLEAN] :
        /\ r.value <= r.length
        /\ r.value = 0 => ~r.fits
        /\ r.method \in {"GET", "DELETE"} => r.length = 0}

\* Mutant of CaptureBody: the body is read and not put back.
CaptureAndForget(n) == 0

\* CaptureBody replaces the body by the part of it that was read.
CaptureBody(n) == Smaller(n, MaxBodyLogged)

\* The middleware starts its span, logs the request, which captures its body,
\* and wraps the writer.
Receive ==
    /\ pc = "idle"
    /\ pc' = "route"
    /\ req' \in Requests
    /\ readable' = CaptureBody(req'.length)
    /\ statusCode' = 200 /\ size' = 0 /\ buf' = 0
    /\ UNCHANGED <<calls, wire, spanStatus, logged, cause>>

Route ==
    /\ pc = "route"
    /\ pc' = "handle"
    /\ \E b \in Behaviours : cause' = b.why /\ calls' = b.script
    /\ UNCHANGED <<req, readable, statusCode, size, buf, wire, spanStatus, logged>>

---------------------------------------------------------------------------
(* The ResponseWriter over net/http's                                      *)

\* Mutant of HandlerWriteHeader: the embedded WriteHeader alone.
HeaderUnrecorded ==
    /\ pc = "handle"
    /\ calls # <<>> /\ Head(calls).op = "header"
    /\ wire' = IF wire.status = 0 THEN [wire EXCEPT !.status = Head(calls).code] ELSE wire
    /\ calls' = Tail(calls)
    /\ UNCHANGED <<pc, req, readable, statusCode, size, buf, spanStatus, logged, cause>>

\* WriteHeader: net/http ignores every call but the first, the wrapper records
\* the last.
HandlerWriteHeader ==
    /\ pc = "handle"
    /\ calls # <<>> /\ Head(calls).op = "header"
    /\ statusCode' = Head(calls).code
    /\ wire' = IF wire.status = 0 THEN [wire EXCEPT !.status = Head(calls).code] ELSE wire
    /\ calls' = Tail(calls)
    /\ UNCHANGED <<pc, req, readable, size, buf, spanStatus, logged, cause>>

\* Mutant of HandlerWrite: what was asked for is counted, not what was written.
WriteAllCounted ==
    /\ pc = "handle"
    /\ calls # <<>> /\ Head(calls).op = "write"
    /\ LET len == Head(calls).len IN
       /\ \E n \in 0 .. len :
             wire' = [status |-> IF wire.status = 0 THEN 200 ELSE wire.status, bytes |-> wire.bytes + n]
       /\ size' = size + len
       /\ buf' = buf + Smaller(len, MaxBodyLogged - buf)
    /\ calls' = Tail(calls)
    /\ UNCHANGED <<pc, req, readable, statusCode, spanStatus, logged, cause>>

\* Write: implies the status 200; fewer bytes than given are written once the
\* client is gone or WriteTimeout has passed.  The copy for the log is made of
\* all that was given, up to MaxBodyLogged.
HandlerWrite ==
    /\ pc = "handle"
    /\ calls # <<>> /\ Head(calls).op = "write"
    /\ LET len == Head(calls).len IN
       /\ \E n \in 0 .. len :
             /\ wire' = [status |-> IF wire.status = 0 THEN 200 ELSE wire.status, bytes |-> wire.bytes + n]
             /\ size' = size + n
       /\ buf' = buf + Smaller(len, MaxBodyLogged - buf)
    /\ calls' = Tail(calls)
    /\ UNCHANGED <<pc, req, readable, statusCode, spanStatus, logged, cause>>

---------------------------------------------------------------------------
(* The middleware after the handler                                        *)

\* The handler returns, which ends its span; the span's status and the log come
\* from the wrapper.  net/http sends 200 if nobody has written anything.
Finish ==
    /\ pc = "handle"
    /\ calls = <<>>
    /\ spanStatus' = IF statusCode >= 400 THEN "Error" ELSE "Ok"
    /\ logged' = [status |-> statusCode, body |-> buf]
    /\ wire' = IF wire.status = 0 THEN [wire EXCEPT !.status = 200] ELSE wire
    /\ pc' = "done"
    /\ UNCHANGED <<req, readable, calls, statusCode, size, buf, cause>>

\* The handler panics: its deferred span.End runs, the middleware's does not
\* because the deferred function panics again before it.  net/http recovers and
\* closes the connection; no response is logged.
Panic ==
    /\ pc = "handle"
    /\ spanStatus' = "Error"
    /\ pc' = "panicked"
    /\ UNCHANGED <<req, readable, calls, statusCode, size, buf, wire, logged, cause>>

---------------------------------------------------------------------------

NoRequest == [route |-> "none", method |-> "none", length |-> 0, value |-> 0, fits |-> FALSE]
NoLog == [status |-> 0, body |-> 0]

Init ==
    /\ pc = "idle" /\ req = NoRequest /\ readable = 0 /\ calls = <<>>
    /\ statusCode = 0 /\ size = 0 /\ buf = 0
    /\ wire = [status |-> 0, bytes |-> 0]
    /\ spanStatus = "Unset" /\ logged = NoLog /\ cause = "none"

Next == Receive \/ Route \/ HandlerWriteHeader \/ HandlerWrite \/ Finish \/ Panic

Spec == Init /\ [][Next]_vars

---------------------------------------------------------------------------
(* Properties                                                              *)

\* The log and the span report the status the client received, except for the
\* health check of a MongoDB that is down.
StatusAgrees ==
    pc = "done" =>
        \/ cause = "down"
        \/ /\ logged.status = wire.status
           /\ spanStatus = "Error" <=> wire.status >= 400

\* tracer.go:22 "ResponseWriter captures status": whatever the handler does, the
\* status in the log is the one that was sent.
StatusCaptured == pc = "done" => logged.status = wire.status

\* The wrapper counts what was really written, and the log has everything that
\* was written, up to its limit.
BodyAccounted ==
    pc \in {"handle", "done"} =>
        /\ size = wire.bytes
        /\ pc = "done" => logged.body >= Smaller(wire.bytes, MaxBodyLogged)

\* A handler answers 200 with an empty body for one of three reasons: a price
\* without JSON text, a failed fetch, or a fetch of an empty body.
BlankSuccess ==
    pc = "done" /\ wire.status = 200 /\ logged.body = 0 =>
        cause \in {"unencodable", "fetch failed"} \/ req.route = "/external"

\* A product in JSON is refused as an invalid payload only when it is longer than
\* what CaptureBody keeps, although nothing documents such a limit; any shorter
\* body that is refused so is no JSON or not a product.
RefusedOnlyIfLong ==
    cause = "undecodable" => ~req.fits \/ req.value > MaxBodyLogged

===============================================================================
