------------------------------- MODULE HttpClient -------------------------------
(***************************************************************************)
(* HTTPClient, the library both http-client and the /external handler call *)
(* through: one call of a verb, from the merging of its options to what    *)
(* the caller gets, against an upstream that reads, answers early or late, *)
(* or not at all.  Bodies are lengths, header values are named for where   *)
(* they come from, and time is a clock that stops at the call's deadline.  *)
(***************************************************************************)
EXTENDS Naturals, FiniteSetsExt

CONSTANTS
    Keys,           \* the headers a caller may set
    MaxBodyLogged,  \* 1 << 20 in the code
    MaxLength,      \* a bound on the length of request bodies
    Limits          \* the timeouts tried; 0 is none

VARIABLES
    pc,        \* "idle", "sending", "reading" or "done"
    client,    \* the HTTPClient: default headers and timeout
    opts,      \* the merged options
    kind,      \* what the caller gave for the result
    logged,    \* the headers in the "outgoing::request" record
    header,    \* the headers of the request
    received,  \* how much of the body the upstream has got
    early,     \* the upstream answered before it had the whole body
    answer,    \* the upstream's answer
    bodyOpen,  \* the answer's body is not closed yet
    clock,     \* ticks since client.Do
    result,    \* what the caller finds in the result
    err        \* where Do failed, or "none"

vars == <<pc, client, opts, kind, logged, header, received, early, answer, bodyOpen, clock, result, err>>

Empty == [k \in {} |-> ""]
One(key, value) == [k \in {key} |-> value]
Maps(value) == UNION {[K -> {value}] : K \in SUBSET Keys}

\* A map over another: where both have a key, the first one's value counts.
Over(f, g) == [k \in DOMAIN f \cup DOMAIN g |-> IF k \in DOMAIN f THEN f[k] ELSE g[k]]

---------------------------------------------------------------------------
(* The options                                                             *)

NoBody == [kind |-> "nil", length |-> 0]

\* A body of a length, or one whose encoding fails: an io.Reader that returns
\* an error, a value json.Marshal refuses.
Bodies == {NoBody, [kind |-> "unencodable", length |-> 0]} \cup [kind : {"bytes"}, length : {0, 1, MaxBodyLogged, MaxLength}]

Base(method, url, body) == [method |-> method, url |-> url, body |-> body, headers |-> Empty, query |-> FALSE, timeout |-> 0, ctx |-> 0]

\* The verbs' own options, before the caller's; a bad URL cannot be parsed.
Verbs == {Base(m, u, NoBody) : m \in {"GET", "DELETE"}, u \in {"good", "bad"}} \cup
         {Base("POST", "good", b) : b \in Bodies}    \* PUT and PATCH likewise

Unset(o, field) ==
    CASE field \in {"method", "url"} -> o[field] = ""
      [] field = "body" -> o.body = NoBody
      [] OTHER -> o[field] = 0

\* mergeOptions: what the caller sets replaces what the verb does, a header or
\* a query parameter at a time.  ctx is the deadline of the caller's context.
Merge(base, o) ==
    [f \in DOMAIN base |->
        CASE f = "headers" -> Over(o.headers, base.headers)
          [] f = "query" -> base.query \/ o.query
          [] OTHER -> IF Unset(o, f) THEN base[f] ELSE o[f]]

Overrides == [method : {""}, url : {""}, body : {NoBody, [kind |-> "bytes", length |-> MaxLength]},
              headers : Maps("user"), query : BOOLEAN, timeout : Limits, ctx : Limits]

---------------------------------------------------------------------------
(* The request                                                             *)

\* Mutant of SetHeaders: the defaults are set last.
SetHeadersDefaultsLast(h, headers, body) == Over(client.headers, Over(headers, h))

\* setHeaders, which Do calls twice.
SetHeaders(h, headers, body) ==
    LET defaulted == Over(client.headers, h)
    IN Over(Over(headers, defaulted), IF body # NoBody THEN One("Content-Type", "json") ELSE Empty)

\* The headers when the request is logged: those of the propagator, the
\* defaults and the trace id.
Traced(o) == SetHeaders(One("Traceparent", "span"), One("X-Trace-Id", "span"), o.body)

Logged(o) == Traced(o)
Sent(o) == SetHeaders(Traced(o), o.headers, o.body)

\* CaptureBody, for the record, leaves no more than this of the body ...
Readable == IF opts.body.length < MaxBodyLogged THEN opts.body.length ELSE MaxBodyLogged

\* Mutant of ContentLength: it follows the body that was put back.
LengthCaptured == Readable

\* ... but not the request's ContentLength, which NewRequest took from it.
ContentLength == opts.body.length

\* What Do refuses before it sends anything: buildURL parses the URL only to
\* add a query, NewRequest parses every one.
Refusal(o) ==
    IF o.url = "bad" /\ o.query THEN "url"
    ELSE IF o.body.kind = "unencodable" THEN "encode"
    ELSE IF o.url = "bad" THEN "request" ELSE "none"

ResultKinds == {"nil", "Response", "text", "other"}   \* text: *string, *[]byte
Untouched == [data |-> "none", status |-> 0]

\* Do with the merged options, up to client.Do.
Begin(o, k) ==
    /\ pc = "idle"
    /\ opts' = o /\ kind' = k
    /\ err' = Refusal(o)
    /\ IF Refusal(o) = "none"
       THEN pc' = "sending" /\ logged' = Logged(o) /\ header' = Sent(o)
       ELSE pc' = "done" /\ UNCHANGED <<logged, header>>
    /\ UNCHANGED <<client, received, early, answer, bodyOpen, clock, result>>

\* A bound: headers and timeouts are not tried together.
Apart(headers, limits) == headers = Empty \/ limits = {0}

\* Any call of any caller.
Start ==
    /\ pc = "idle"
    /\ \E v \in Verbs, o \in Overrides, k \in ResultKinds :
          /\ Apart(Over(o.headers, client.headers), {client.timeout, o.timeout, o.ctx})
          /\ Begin(Merge(v, o), k)

---------------------------------------------------------------------------
(* The exchange                                                            *)

\* The first of the client's timeout, the caller's context and opts.Timeout;
\* each of them covers the reading of the body too.  0 is no limit.
Limit ==
    LET limits == {client.timeout, opts.ctx, opts.timeout} \ {0} IN IF limits = {} THEN 0 ELSE Min(limits)

Transfer ==
    /\ pc = "sending" /\ received < Readable
    /\ received' = received + 1
    /\ UNCHANGED <<pc, client, opts, kind, logged, header, early, answer, bodyOpen, clock, result, err>>

Fail(where) ==
    /\ pc' = "done" /\ err' = where /\ bodyOpen' = FALSE
    /\ UNCHANGED <<client, opts, kind, logged, header, received, early, answer, clock, result>>

\* The connection breaks, the transport finds fewer bytes than ContentLength,
\* or the time is over.
Break == pc = "sending" /\ Fail("execute")

Answers == [status : {200, 404, 500}, body : {"empty", "text", "json", "unfit"}]

\* The upstream may answer ahead of a body it has not got whole.  The transport
\* takes the answer if it has not failed yet.
Answer ==
    /\ pc = "sending"
    /\ answer' \in Answers
    /\ early' = (received < ContentLength)
    /\ pc' = "reading" /\ bodyOpen' = TRUE
    /\ UNCHANGED <<client, opts, kind, logged, header, received, clock, result, err>>

Cut == pc = "reading" /\ Fail("read")

\* json.Unmarshal and, when it fails, assignRawBody, which knows *string and
\* *[]byte.  For a Response it is given an *interface{}.  "unfit" is JSON of
\* another type than the result's.
Parsed ==
    IF answer.body = "empty" \/ kind = "nil" THEN "none"
    ELSE IF answer.body = "json" \/ (answer.body = "unfit" /\ kind = "Response") THEN "data"
    ELSE IF kind = "text" THEN "raw" ELSE "error"

\* The body has been read.  A Response is filled only if all went well; a
\* result of another type may be left with a part of the data.
Parse ==
    /\ pc = "reading"
    /\ pc' = "done" /\ bodyOpen' = FALSE
    /\ err' = IF Parsed = "error" THEN "parse" ELSE "none"
    /\ result' \in
         IF Parsed = "error" THEN {Untouched} \cup (IF kind = "other" THEN {[Untouched EXCEPT !.data = "partial"]} ELSE {})
         ELSE IF kind = "Response" THEN {[data |-> Parsed, status |-> answer.status]}
         ELSE {[Untouched EXCEPT !.data = Parsed]}
    /\ UNCHANGED <<client, opts, kind, logged, header, received, early, answer, clock>>

\* Time passes unless the call's time is over, when the call fails at once.
\* Without a limit the clock is of no use.
Tick ==
    /\ pc \in {"sending", "reading"}
    /\ clock < Limit
    /\ clock' = clock + 1
    /\ UNCHANGED <<pc, client, opts, kind, logged, header, received, early, answer, bodyOpen, result, err>>

\* Mutant of Expire: the reading of the body has no deadline.
ExpireSending == Limit > 0 /\ clock = Limit /\ Break

Expire == Limit > 0 /\ clock = Limit /\ (Break \/ Cut)

Init ==
    /\ pc = "idle" /\ kind = "nil" /\ err = "none"
    /\ client \in [headers : Maps("default"), timeout : Limits]
    /\ opts = Base("", "", NoBody)
    /\ logged = Empty /\ header = Empty
    /\ received = 0 /\ early = FALSE /\ bodyOpen = FALSE /\ clock = 0
    /\ answer = [status |-> 0, body |-> "empty"]
    /\ result = Untouched

Next == Start \/ Transfer \/ Break \/ Answer \/ Cut \/ Parse \/ Tick

\* The timers of the runtime fire; the network owes nothing.
Spec == Init /\ [][Next]_vars /\ WF_vars(Tick) /\ WF_vars(Expire)

---------------------------------------------------------------------------
(* Properties                                                              *)

\* What the two calls of setHeaders come to: a header of the call goes before a
\* default of the client, and a default before what Do computes, the trace id
\* included: a client with a default X-Trace-ID sends that one.  The record is
\* made between the two calls: it has every header that is sent, with its
\* value, but for the caller's own and a default for the trace id.
HeaderPrecedence ==
    pc \in {"sending", "reading"} =>
        \A k \in Keys \cup {"Traceparent", "X-Trace-Id", "Content-Type"} :
            LET callers == DOMAIN opts.headers
                defaults == DOMAIN client.headers
                computed == {"Traceparent", "X-Trace-Id"} \cup (IF opts.body # NoBody THEN {"Content-Type"} ELSE {})
            IN IF k \in callers \cup defaults \cup computed
               THEN /\ k \in DOMAIN header
                    /\ header[k] = IF k \in callers THEN "user" ELSE IF k \in defaults THEN "default"
                                   ELSE IF k = "Content-Type" THEN "json" ELSE "span"
                    /\ k \in callers \/ (k = "X-Trace-Id" /\ k \in defaults)
                          \/ (k \in DOMAIN logged /\ logged[k] = header[k])
               ELSE k \notin DOMAIN header

\* What the caller is left with is what happened.  A body cut for the log is
\* never taken for the whole one: if the call succeeds, the upstream got all of
\* it or answered ahead of it.  A Response is filled by a success, and all zero
\* after an error, also if the upstream did answer.  The answer's body is
\* closed on every way out.
OutcomeTrue ==
    pc = "done" =>
        /\ err = "none" => received = opts.body.length \/ early
        /\ kind = "Response" => result = Untouched \/ (err = "none" /\ result.status = answer.status)
        /\ ~bodyOpen

\* A call with any of the three timeouts ends, in whatever state its upstream is.
Ends ==
    pc # "idle" /\ (\E limit \in {client.timeout, opts.ctx, opts.timeout} : limit > 0)
        ~> pc = "done"
=============================================================================
