-------------------------- MODULE HttpExchangeProofs --------------------------
(***************************************************************************)
(* Proofs about HttpExchange for any capture limit and any body lengths.   *)
(***************************************************************************)
EXTENDS HttpExchange, TLAPS

Codes == {200, 400, 404, 405, 500}
Statuses == Codes \cup {0}
Causes == {"none", "ok", "unencodable", "error", "undecodable", "fetch failed", "down"}

\* What handlers write, but for the health check of a MongoDB that is down: at
\* most one status, then at most one body.
OneWrite == {<<>>} \cup {<<Write(n)>> : n \in Nat}
OneStatus == {<<WriteHeader(200)>>} \cup {<<WriteHeader(c), Write(n)>> : c \in Codes, n \in Nat}
TwoStatuses == {<<WriteHeader(500), WriteHeader(200), Write(n)>> : n \in Nat}

\* A body that is not empty is still to be written.
Pending(s) == s # <<>> /\ s[Len(s)].op = "write" /\ s[Len(s)].len > 0

TypeOK ==
    /\ pc \in {"idle", "route", "handle", "done", "panicked"}
    /\ req \in Requests \cup {NoRequest}
    /\ readable \in Nat /\ size \in Nat /\ buf \in 0 .. MaxBodyLogged
    /\ calls \in OneWrite \cup OneStatus \cup TwoStatuses
    /\ statusCode \in Statuses
    /\ wire \in [status : Statuses, bytes : Nat]
    /\ spanStatus \in {"Unset", "Ok", "Error"}
    /\ logged \in [status : Statuses, body : 0 .. MaxBodyLogged]
    /\ cause \in Causes

\* Before the handler nothing is sent; the body it reads is cut at the limit.
StartInv ==
    /\ pc \in {"idle", "route"} =>
          wire = [status |-> 0, bytes |-> 0] /\ size = 0 /\ buf = 0 /\ cause = "none"
    /\ pc = "route" => statusCode = 200
    /\ pc # "idle" => req \in Requests /\ readable = CaptureBody(req.length)
    /\ cause = "undecodable" => ~Decodes

\* Of a handler that writes one status, the wrapper and net/http have heard the
\* same: nothing yet, or that status.
StatusInv ==
    pc = "handle" /\ cause # "down" =>
        \/ wire.status = 0 /\ statusCode = 200 /\ calls \in OneWrite \cup OneStatus
        \/ wire.status # 0 /\ wire.status = statusCode /\ calls \in OneWrite

\* The wrapper counts what net/http wrote, and its copy has all of it that fits.
BodyInv ==
    pc = "handle" => size = wire.bytes /\ buf >= Smaller(wire.bytes, MaxBodyLogged)

\* A handler that does not fail silently has written something or is going to.
BlankInv ==
    pc = "handle" /\ cause \notin {"unencodable", "fetch failed"} /\ req.route # "/external" =>
        buf > 0 \/ Pending(calls)

Inv ==
    /\ TypeOK /\ StartInv /\ StatusInv /\ BodyInv /\ BlankInv
    /\ StatusAgrees /\ BodyAccounted /\ BlankSuccess

---------------------------------------------------------------------------
(* Lemmas about what handlers write                                        *)

\* The calls of a handler, one after the other.
LEMMA OneCall ==
    ASSUME NEW x
    PROVE  <<x>> # <<>> /\ Head(<<x>>) = x /\ Tail(<<x>>) = <<>>
  OBVIOUS

LEMMA TwoCalls ==
    ASSUME NEW x, NEW y
    PROVE  <<x, y>> # <<>> /\ Head(<<x, y>>) = x /\ Tail(<<x, y>>) = <<y>>
  OBVIOUS

LEMMA ThreeCalls ==
    ASSUME NEW x, NEW y, NEW z
    PROVE  <<x, y, z>> # <<>> /\ Head(<<x, y, z>>) = x /\ Tail(<<x, y, z>>) = <<y, z>>
  OBVIOUS


LEMMA CallFields ==
    ASSUME NEW c, NEW n
    PROVE  /\ WriteHeader(c).op = "header" /\ WriteHeader(c).code = c
           /\ Write(n).op = "write" /\ Write(n).len = n
  BY DEF WriteHeader, Write

\* Whether a body is pending, by the form of what remains.
LEMMA NonePending ==
    ASSUME NEW s, NEW c, s = <<>> \/ s = <<WriteHeader(c)>>
    PROVE  ~Pending(s)
  BY DEF Pending, WriteHeader

LEMMA WritePending ==
    ASSUME NEW s, NEW n \in Nat, s = <<Write(n)>>
    PROVE  Pending(s) <=> n > 0
  BY DEF Pending, Write

LEMMA StatusPending ==
    ASSUME NEW s, NEW c, NEW n \in Nat, s = <<WriteHeader(c), Write(n)>>
    PROVE  Pending(s) <=> n > 0
  BY DEF Pending, WriteHeader, Write

LEMMA StatusesPending ==
    ASSUME NEW s, NEW n \in Nat, s = <<WriteHeader(500), WriteHeader(200), Write(n)>>
    PROVE  Pending(s) <=> n > 0
  BY DEF Pending, WriteHeader, Write

\* How the scripts of the handlers go on after a status.
LEMMA HeaderFirst ==
    ASSUME NEW s \in OneWrite \cup OneStatus \cup TwoStatuses, s # <<>>, Head(s).op = "header"
    PROVE  /\ Head(s).code \in Codes
           /\ s \in OneStatus => Tail(s) \in OneWrite
           /\ s \in TwoStatuses => Tail(s) \in OneStatus
           /\ s \notin OneWrite
           /\ Pending(s) => Pending(Tail(s))
<1>1. ASSUME s \in OneWrite PROVE FALSE
  <2>1. PICK n \in Nat : s = <<Write(n)>>
    BY <1>1 DEF OneWrite
  <2> QED
    BY <2>1, OneCall DEF Write
<1>2. CASE s = <<WriteHeader(200)>>
  <2>1. Head(s) = WriteHeader(200) /\ Tail(s) = <<>>
    BY <1>2, OneCall
  <2>2. ~Pending(s)
    BY <1>2, NonePending
  <2>3. s \notin TwoStatuses
    BY <1>2 DEF TwoStatuses
  <2>4. Head(s).code \in Codes
    BY <2>1, CallFields DEF Codes
  <2>5. Tail(s) \in OneWrite
    BY <2>1 DEF OneWrite
  <2> QED
    BY <1>1, <2>2, <2>3, <2>4, <2>5
<1>3. ASSUME NEW n \in Nat, NEW c \in Codes, s = <<WriteHeader(c), Write(n)>>
      PROVE  Head(s) = WriteHeader(c) /\ Tail(s) = <<Write(n)>> /\ s \notin TwoStatuses
  BY <1>3, TwoCalls DEF TwoStatuses
<1>4. ASSUME NEW n \in Nat, s = <<WriteHeader(500), WriteHeader(200), Write(n)>>
      PROVE  /\ Head(s) = WriteHeader(500) /\ Tail(s) = <<WriteHeader(200), Write(n)>>
             /\ s \notin OneStatus
  BY <1>4, ThreeCalls DEF OneStatus
<1>5. CASE s \in {<<WriteHeader(c), Write(n)>> : c \in Codes, n \in Nat}
  <2>1. PICK n \in Nat, c \in Codes : s = <<WriteHeader(c), Write(n)>>
    BY <1>5
  <2>2. Head(s) = WriteHeader(c) /\ Tail(s) = <<Write(n)>> /\ s \notin TwoStatuses
    BY <1>3, <2>1
  <2>3. Pending(s) <=> n > 0
    BY <2>1, StatusPending
  <2>4. Pending(Tail(s)) <=> n > 0
    BY <2>2, WritePending
  <2>5. Head(s).code \in Codes
    BY <2>2, CallFields
  <2>6. Tail(s) \in OneWrite
    BY <2>2 DEF OneWrite
  <2> QED
    BY <1>1, <2>2, <2>3, <2>4, <2>5, <2>6
<1>6. CASE s \in TwoStatuses
  <2>1. PICK n \in Nat : s = <<WriteHeader(500), WriteHeader(200), Write(n)>>
    BY <1>6 DEF TwoStatuses
  <2>2. <<WriteHeader(200), Write(n)>> \in OneStatus
    BY DEF OneStatus, Codes
  <2>3. /\ Head(s) = WriteHeader(500) /\ Tail(s) = <<WriteHeader(200), Write(n)>>
        /\ s \notin OneStatus
    BY <1>4, <2>1
  <2>4. Pending(s) <=> n > 0
    BY <2>1, StatusesPending
  <2>5. Pending(Tail(s)) <=> n > 0
    <3>1. Pending(<<WriteHeader(200), Write(n)>>) <=> n > 0
      BY StatusPending
    <3> QED
      BY <2>3, <3>1
  <2>6. Head(s).code \in Codes
    BY <2>3, CallFields DEF Codes
  <2> QED
    BY <1>1, <2>2, <2>3, <2>4, <2>5, <2>6
<1> QED
  BY <1>1, <1>2, <1>5, <1>6 DEF OneStatus

\* A body is what a handler writes last.
LEMMA WriteFirst ==
    ASSUME NEW s \in OneWrite \cup OneStatus \cup TwoStatuses, s # <<>>, Head(s).op = "write"
    PROVE  /\ s \in OneWrite /\ Tail(s) = <<>> /\ Head(s).len \in Nat
           /\ Pending(s) <=> Head(s).len > 0
<1>1. ASSUME NEW c, NEW n, s = <<WriteHeader(c), Write(n)>> PROVE FALSE
  BY <1>1, TwoCalls DEF WriteHeader
<1>2. ASSUME NEW c, NEW d, NEW n, s = <<WriteHeader(c), WriteHeader(d), Write(n)>> PROVE FALSE
  BY <1>2, ThreeCalls DEF WriteHeader
<1>3. ASSUME s = <<WriteHeader(200)>> PROVE FALSE
  BY <1>3, OneCall DEF WriteHeader
<1>4. s \in OneWrite
  BY <1>1, <1>2, <1>3 DEF OneStatus, TwoStatuses
<1>5. PICK n \in Nat : s = <<Write(n)>>
  BY <1>4 DEF OneWrite
<1>6. Head(s) = Write(n) /\ Tail(s) = <<>>
  BY <1>5, OneCall
<1>7. Pending(s) <=> n > 0
  BY <1>5, WritePending
<1> QED
  BY <1>4, <1>6, <1>7, CallFields

\* What the handlers of all routes can be about to write.
LEMMA BehaviourShape ==
    ASSUME req \in Requests, NEW b \in Behaviours
    PROVE  /\ b.why \in Causes \ {"none"}
           /\ b.why # "down" => b.script \in OneWrite \cup OneStatus
           /\ b.why = "down" => b.script \in TwoStatuses
           /\ b.why \notin {"unencodable", "fetch failed"} /\ req.route # "/external" =>
                 Pending(b.script)
           /\ b.why = "undecodable" => ~Decodes
<1> DEFINE Shape(x) == /\ x.why \in Causes \ {"none"}
                       /\ x.why # "down" => x.script \in OneWrite \cup OneStatus
                       /\ x.why = "down" => x.script \in TwoStatuses
                       /\ x.why = "undecodable" => ~Decodes
           Loud(x) == x.why \notin {"unencodable", "fetch failed"} => Pending(x.script)
<1>1. ASSUME NEW x \in Answers PROVE Shape(x) /\ Loud(x)
  <2>1. PICK n \in Nat \ {0} : x = Does("ok", <<WriteHeader(200), Write(n)>>)
    BY <1>1, ExchangeAssumption DEF Answers, Json, Lengths
  <2>2. x.why = "ok" /\ x.script = <<WriteHeader(200), Write(n)>>
    BY <2>1 DEF Does
  <2>3. Pending(x.script)
    BY <2>2, StatusPending
  <2> QED
    BY <2>2, <2>3 DEF Causes, OneStatus, Codes
<1>2. ASSUME NEW why \in {"error", "undecodable"}, NEW c \in Codes,
             why = "undecodable" => ~Decodes,
             NEW x, x = Does(why, HttpError(c))
      PROVE  Shape(x) /\ Loud(x)
  <2>1. x.why = why /\ x.script = <<WriteHeader(c), Write(1)>>
    BY <1>2 DEF Does, HttpError
  <2>2. Pending(x.script)
    BY <2>1, StatusPending
  <2>3. x.script \in OneStatus
    BY <2>1 DEF OneStatus
  <2> QED
    BY <1>2, <2>1, <2>2, <2>3 DEF Causes
<1>3. ASSUME NEW codes \in SUBSET Codes, NEW x \in Refusals(codes) PROVE Shape(x) /\ Loud(x)
  <2>1. PICK c \in codes : x = Does("error", HttpError(c))
    BY <1>3 DEF Refusals
  <2> HIDE DEF Shape, Loud
  <2> QED
    BY <1>2, <2>1
<1>4. ASSUME NEW x, x = Does("unencodable", Unencodable) PROVE Shape(x) /\ Loud(x)
  <2>1. x.why = "unencodable" /\ x.script = <<WriteHeader(200)>>
    BY <1>4 DEF Does, Unencodable
  <2> QED
    BY <2>1 DEF Causes, OneStatus
<1>5. ASSUME NEW x \in Product PROVE Shape(x) /\ Loud(x)
  <2>1. \/ x \in Answers
        \/ x = Does("unencodable", Unencodable)
        \/ x \in Refusals({400}) \/ x \in Refusals({400, 404}) \/ x \in Refusals({500})
        \/ x \in Refusals({400, 500}) \/ x \in Refusals({405})
        \/ ~Decodes /\ x = Does("undecodable", HttpError(400))
    BY <1>5 DEF Product
  <2>2. {400} \in SUBSET Codes /\ {400, 404} \in SUBSET Codes /\ {500} \in SUBSET Codes
        /\ {400, 500} \in SUBSET Codes /\ {405} \in SUBSET Codes
    BY DEF Codes
  <2> HIDE DEF Shape, Loud
  <2>3. CASE x \in Answers
    BY <1>1, <2>3
  <2>4. CASE x = Does("unencodable", Unencodable)
    BY <1>4, <2>4
  <2>5. CASE ~Decodes /\ x = Does("undecodable", HttpError(400))
    BY <1>2, <2>5 DEF Codes
  <2> QED
    BY <1>3, <2>1, <2>2, <2>3, <2>4, <2>5
<1>6. ASSUME NEW x \in Fetch PROVE Shape(x)
  <2>1. PICK u \in Upstream :
           x = IF Do(u) THEN Does("ok", <<WriteHeader(200), Write(u.len)>>)
                        ELSE Does("fetch failed", <<>>)
    BY <1>6 DEF Fetch
  <2>2. CASE Do(u)
    <3>1. u.len \in Nat
      <4>1. u # [answered |-> FALSE]
        BY <2>2 DEF Do
      <4>2. u.len \in Lengths
        BY <4>1 DEF Upstream
      <4> QED
        BY <4>2, ExchangeAssumption DEF Lengths
    <3>2. x.why = "ok" /\ x.script = <<WriteHeader(200), Write(u.len)>>
      BY <2>1, <2>2 DEF Does
    <3> QED
      BY <3>1, <3>2 DEF Causes, OneStatus, Codes
  <2>3. CASE ~Do(u)
    <3>1. x.why = "fetch failed" /\ x.script = <<>>
      BY <2>1, <2>3 DEF Does
    <3> QED
      BY <3>1 DEF Causes, OneWrite
  <2> QED
    BY <2>2, <2>3
<1>7. ASSUME NEW x \in Check PROVE Shape(x) /\ Loud(x)
  <2>1. CASE x \in Answers
    BY <1>1, <2>1
  <2>2. CASE x \in {Does("down", <<WriteHeader(500), WriteHeader(200), Write(n)>>) : n \in Lengths \ {0}}
    <3>1. PICK n \in Nat \ {0} :
             x = Does("down", <<WriteHeader(500), WriteHeader(200), Write(n)>>)
      BY <2>2, ExchangeAssumption DEF Lengths
    <3>2. x.why = "down" /\ x.script = <<WriteHeader(500), WriteHeader(200), Write(n)>>
      BY <3>1 DEF Does
    <3>3. Pending(x.script)
      BY <3>2, StatusesPending
    <3> QED
      BY <3>2, <3>3 DEF Causes, TwoStatuses
  <2> QED
    BY <1>7, <2>1, <2>2 DEF Check
<1>8. ASSUME NEW x \in Refusals({404}) \cup Refusals({405}) \cup Refusals({500})
      PROVE  Shape(x) /\ Loud(x)
  <2>1. {404} \in SUBSET Codes /\ {405} \in SUBSET Codes /\ {500} \in SUBSET Codes
    BY DEF Codes
  <2> HIDE DEF Shape, Loud
  <2> QED
    BY <1>3, <1>8, <2>1
<1>9. ASSUME NEW x, x = Does("ok", <<Write(1)>>) PROVE Shape(x) /\ Loud(x)
  <2>1. x.why = "ok" /\ x.script = <<Write(1)>>
    BY <1>9 DEF Does
  <2>2. Pending(x.script)
    BY <2>1, WritePending
  <2> QED
    BY <2>1, <2>2 DEF Causes, OneWrite
<1>10. \/ b = Does("ok", <<Write(1)>>)
       \/ b \in Answers \/ b = Does("unencodable", Unencodable)
       \/ b \in Refusals({404}) \cup Refusals({405}) \cup Refusals({500})
       \/ b \in Product \/ b \in Check
       \/ req.route = "/external" /\ b \in Fetch
  BY DEF Behaviours, GetOnly
<1>11. Shape(b) /\ (req.route # "/external" => Loud(b))
  <2> HIDE DEF Shape, Loud
  <2> QED
    BY <1>1, <1>4, <1>5, <1>6, <1>7, <1>8, <1>9, <1>10
<1> QED
  BY <1>11

---------------------------------------------------------------------------
(* The invariant                                                           *)

LEMMA InitInv == Init => Inv
  BY ExchangeAssumption DEF Init, Inv, TypeOK, StartInv, StatusInv, BodyInv, BlankInv,
     StatusAgrees, BodyAccounted, BlankSuccess, OneWrite, Statuses, Causes, NoRequest, NoLog

\* The copy for the log never grows past its limit and keeps up with the wire.
LEMMA CopyKeepsUp ==
    ASSUME NEW b \in 0 .. MaxBodyLogged, NEW w \in Nat, NEW len \in Nat, NEW n \in 0 .. len,
           b >= Smaller(w, MaxBodyLogged)
    PROVE  /\ b + Smaller(len, MaxBodyLogged - b) \in 0 .. MaxBodyLogged
           /\ b + Smaller(len, MaxBodyLogged - b) >= Smaller(w + n, MaxBodyLogged)
           /\ b + Smaller(len, MaxBodyLogged - b) >= b
           /\ len > 0 => b + Smaller(len, MaxBodyLogged - b) > 0
  BY ExchangeAssumption DEF Smaller

LEMMA NextInv == Inv /\ [Next]_vars => Inv'
<1> SUFFICES ASSUME Inv, [Next]_vars PROVE Inv'
  OBVIOUS
<1> USE DEF Inv
<1>1. CASE Receive
  <2>1. req' \in Requests /\ req'.length \in Nat
    BY <1>1 DEF Receive, Requests, Lengths
  <2>2. readable' \in Nat
    BY <1>1, <2>1, ExchangeAssumption DEF Receive, CaptureBody, Smaller
  <2>3. TypeOK'
    BY <1>1, <2>1, <2>2, ExchangeAssumption DEF Receive, TypeOK, Statuses, Codes
  <2> QED
    BY <1>1, <2>1, <2>3 DEF Receive, StartInv, StatusInv, BodyInv, BlankInv,
       StatusAgrees, BodyAccounted, BlankSuccess
<1>2. CASE Route
  <2>1. PICK b \in Behaviours : cause' = b.why /\ calls' = b.script
    BY <1>2 DEF Route
  <2>2. req \in Requests
    BY <1>2 DEF Route, StartInv
  <2>3. /\ cause' \in Causes \ {"none"}
        /\ cause' # "down" => calls' \in OneWrite \cup OneStatus
        /\ cause' = "down" => calls' \in TwoStatuses
        /\ cause' \notin {"unencodable", "fetch failed"} /\ req.route # "/external" =>
              Pending(calls')
        /\ cause' = "undecodable" => ~Decodes
    BY <2>1, <2>2, BehaviourShape
  <2>4. TypeOK' /\ StartInv'
    BY <1>2, <2>2, <2>3 DEF Route, TypeOK, StartInv, Decodes
  <2>5. StatusInv'
    <3>1. wire'.status = 0 /\ statusCode' = 200
      BY <1>2 DEF Route, StartInv
    <3> QED
      BY <2>3, <3>1 DEF StatusInv
  <2>6. BlankInv'
    BY <1>2, <2>3 DEF Route, BlankInv
  <2>7. BodyInv'
    BY <1>2, ExchangeAssumption DEF Route, TypeOK, StartInv, BodyInv, Smaller
  <2> QED
    BY <1>2, <2>4, <2>5, <2>6, <2>7 DEF Route, StartInv, BodyInv, StatusAgrees, BodyAccounted, BlankSuccess
<1>3. CASE HandlerWriteHeader
  <2> DEFINE code == Head(calls).code
  <2>1. /\ code \in Codes
        /\ calls \in OneStatus => Tail(calls) \in OneWrite
        /\ calls \in TwoStatuses => Tail(calls) \in OneStatus
        /\ calls \notin OneWrite
        /\ Pending(calls) => Pending(Tail(calls))
    BY <1>3, HeaderFirst DEF HandlerWriteHeader, TypeOK
  <2> HIDE DEF code
  <2>2. /\ pc = "handle" /\ statusCode' = code /\ calls' = Tail(calls)
        /\ wire' = IF wire.status = 0 THEN [wire EXCEPT !.status = code] ELSE wire
        /\ UNCHANGED <<pc, req, readable, size, buf, spanStatus, logged, cause>>
    BY <1>3 DEF HandlerWriteHeader, code
  <2>3. wire' \in [status : Statuses, bytes : Nat] /\ wire'.bytes = wire.bytes
    BY <2>1, <2>2 DEF TypeOK, Statuses
  <2>4. TypeOK'
    BY <2>1, <2>2, <2>3 DEF TypeOK, Statuses
  <2>5. StartInv'
    BY <2>2 DEF StartInv, Decodes
  <2>6. StatusInv'
    <3>1. CASE wire.status = 0
      <4>1. wire'.status = code /\ code # 0
        BY <2>1, <2>2, <3>1 DEF TypeOK, Codes
      <4>2. cause # "down" => calls \in OneStatus
        BY <2>1, <2>2, <3>1 DEF StatusInv
      <4> QED
        BY <2>1, <2>2, <4>1, <4>2 DEF StatusInv
    <3>2. CASE wire.status # 0
      BY <2>1, <2>2, <3>2 DEF StatusInv, TypeOK
    <3> QED
      BY <3>1, <3>2
  <2>7. BodyInv' /\ BlankInv'
    BY <2>1, <2>2, <2>3 DEF BodyInv, BlankInv
  <2> QED
    BY <2>2, <2>3, <2>4, <2>5, <2>6, <2>7 DEF BodyInv, StatusAgrees, BodyAccounted, BlankSuccess
<1>4. CASE HandlerWrite
  <2> DEFINE len == Head(calls).len
  <2>1. calls \in OneWrite /\ Tail(calls) = <<>> /\ len \in Nat /\ (Pending(calls) <=> len > 0)
    BY <1>4, WriteFirst DEF HandlerWrite, TypeOK
  <2> HIDE DEF len
  <2>2. /\ pc = "handle" /\ calls' = <<>>
        /\ buf' = buf + Smaller(len, MaxBodyLogged - buf)
        /\ UNCHANGED <<pc, req, readable, statusCode, spanStatus, logged, cause>>
    BY <1>4, <2>1 DEF HandlerWrite, len
  <2>3. PICK n \in 0 .. len :
           /\ wire' = [status |-> IF wire.status = 0 THEN 200 ELSE wire.status, bytes |-> wire.bytes + n]
           /\ size' = size + n
    BY <1>4 DEF HandlerWrite, len
  <2>4. /\ buf' \in 0 .. MaxBodyLogged /\ buf' >= Smaller(wire'.bytes, MaxBodyLogged)
        /\ buf' >= buf /\ (len > 0 => buf' > 0)
    BY <2>1, <2>2, <2>3, CopyKeepsUp DEF TypeOK, BodyInv
  <2>5. TypeOK'
    BY <2>1, <2>2, <2>3, <2>4 DEF TypeOK, Statuses, Codes, OneWrite
  <2>6. StartInv'
    BY <2>2 DEF StartInv, Decodes
  <2>7. StatusInv'
    BY <2>2, <2>3 DEF StatusInv, OneWrite, TypeOK
  <2>8. BodyInv'
    BY <2>2, <2>3, <2>4 DEF BodyInv
  <2>9. BlankInv'
    <3>1. buf > 0 => buf' > 0
      BY <2>4, ExchangeAssumption DEF TypeOK
    <3> QED
      BY <2>1, <2>2, <2>4, <3>1 DEF BlankInv
  <2> QED
    BY <2>2, <2>5, <2>6, <2>7, <2>8, <2>9 DEF BodyInv, StatusAgrees, BodyAccounted, BlankSuccess
<1>5. CASE Finish
  <2>1. /\ pc = "handle" /\ pc' = "done" /\ calls = <<>>
        /\ spanStatus' = IF statusCode >= 400 THEN "Error" ELSE "Ok"
        /\ logged' = [status |-> statusCode, body |-> buf]
        /\ wire' = IF wire.status = 0 THEN [wire EXCEPT !.status = 200] ELSE wire
        /\ UNCHANGED <<req, readable, calls, statusCode, size, buf, cause>>
    BY <1>5 DEF Finish
  <2>2. wire' \in [status : Statuses, bytes : Nat] /\ wire'.bytes = wire.bytes
    BY <2>1 DEF TypeOK, Statuses, Codes
  <2>3. TypeOK'
    BY <2>1, <2>2 DEF TypeOK
  <2>4. StartInv' /\ StatusInv' /\ BodyInv' /\ BlankInv'
    BY <2>1 DEF StartInv, StatusInv, BodyInv, BlankInv, Decodes
  <2>5. StatusAgrees'
    <3>1. cause # "down" => statusCode = wire'.status
      BY <2>1 DEF StatusInv, TypeOK
    <3> QED
      BY <2>1, <3>1 DEF StatusAgrees
  <2>6. BodyAccounted'
    BY <2>1, <2>2 DEF BodyAccounted, BodyInv
  <2>7. BlankSuccess'
    <3>1. ~Pending(calls)
      BY <2>1, NonePending
    <3>2. logged'.body = buf
      BY <2>1
    <3>3. ~(buf > 0) \/ buf # 0
      BY ExchangeAssumption DEF TypeOK
    <3> QED
      BY <2>1, <3>1, <3>2, <3>3 DEF BlankSuccess, BlankInv
  <2> QED
    BY <2>3, <2>4, <2>5, <2>6, <2>7
<1>6. CASE Panic
  BY <1>6 DEF Panic, TypeOK, StartInv, StatusInv, BodyInv, BlankInv, Decodes,
     StatusAgrees, BodyAccounted, BlankSuccess
<1>7. CASE UNCHANGED vars
  <2>1. TypeOK' /\ StartInv'
    BY <1>7 DEF vars, TypeOK, StartInv, Decodes
  <2>2. StatusInv' /\ BodyInv' /\ BlankInv'
    BY <1>7 DEF vars, StatusInv, BodyInv, BlankInv
  <2> QED
    BY <1>7, <2>1, <2>2 DEF vars, StatusAgrees, BodyAccounted, BlankSuccess
<1> QED
  BY <1>1, <1>2, <1>3, <1>4, <1>5, <1>6, <1>7 DEF Next

LEMMA SpecInv == Spec => []Inv
  BY InitInv, NextInv, PTL DEF Spec

---------------------------------------------------------------------------
(* The theorems                                                            *)

\* Log, span and client agree on the status of every exchange that is answered,
\* but for the health check of a MongoDB that is down.
THEOREM StatusesAgree == Spec => []StatusAgrees
<1>1. Inv => StatusAgrees
  BY DEF Inv
<1> QED
  BY <1>1, SpecInv, PTL

\* The wrapper counts what net/http really wrote, and the log has all of it up
\* to the capture limit, whatever that limit is.
THEOREM BodyIsAccounted == Spec => []BodyAccounted
<1>1. Inv => BodyAccounted
  BY DEF Inv
<1> QED
  BY <1>1, SpecInv, PTL

\* A 200 without a body has one of three reasons.
THEOREM BlankExplained == Spec => []BlankSuccess
<1>1. Inv => BlankSuccess
  BY DEF Inv
<1> QED
  BY <1>1, SpecInv, PTL

\* Capturing the body for the log makes a handler refuse a product in JSON only if
\* it is longer than the capture limit: what else is refused as an invalid payload
\* is no JSON or does not fit the types of a product.
THEOREM CaptureRefusesLong == Spec => []RefusedOnlyIfLong
<1>1. Inv => RefusedOnlyIfLong
  <2> SUFFICES ASSUME Inv, cause = "undecodable" PROVE ~req.fits \/ req.value > MaxBodyLogged
    BY DEF RefusedOnlyIfLong
  <2>1. req \in Requests /\ readable = CaptureBody(req.length) /\ ~Decodes
    BY DEF Inv, TypeOK, StartInv
  <2>2. /\ req.length \in Nat /\ req.value \in Nat /\ req.value <= req.length
        /\ req.value = 0 => ~req.fits
    BY <2>1 DEF Requests, Lengths
  <2>3. req.fits => req.value # 0 /\ ~(req.value <= readable)
    BY <2>1, <2>2, Zenon DEF Decodes
  <2>4. req.value <= readable \/ req.value > MaxBodyLogged
    BY <2>1, <2>2, ExchangeAssumption DEF CaptureBody, Smaller
  <2> QED
    BY <2>3, <2>4
<1> QED
  BY <1>1, SpecInv, PTL
===============================================================================
