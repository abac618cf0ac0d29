--------------------------- MODULE GrpcExchangeProofs ---------------------------
(***************************************************************************)
(* The safety of GrpcExchange for any RPCs and any servers.                *)
(***************************************************************************)
EXTENDS GrpcExchange, TLAPS

\* The interceptor's part: the span, the record and the wire tell one outcome
\* from the moment the handler has returned, and nothing before.
ServerSide(r) ==
    /\ server[r] = None => span[r] = None /\ logged[r] = None
    /\ server[r] = "handler" => span[r] = "open"
    /\ span[r] = "open" => server[r] \in {"handler", "panicked", "lost"}
    /\ span[r] = "ended" => (status[r] = "Ok") = (logged[r] = "OK")
    /\ server[r] \in {"handled", "sent"} =>
          /\ span[r] = "ended"
          /\ wire[r].trace = r
          /\ wire[r].code \in {"OK", "Unknown", "DeadlineExceeded", "Canceled"}
          /\ (logged[r] = "OK") = (wire[r].code = "OK")
          /\ (status[r] = "Ok") = (wire[r].code = "OK")
          /\ logged[r] # wire[r].code => wire[r].code = done[r]

\* The caller's part: OK and Unknown come from the server alone, by what it has
\* sent, and what has been sent stays.
CallerSide(r) ==
    /\ trailer[r] \in {r, None}
    /\ client[r] = "done" => code[r] # None
    /\ client[r] = "done" /\ code[r] \in {"OK", "Unknown"} =>
          server[r] = "sent" /\ logged[r] = code[r] /\ trailer[r] = r

Inv == TypeOK /\ \A r \in Rpcs : ServerSide(r) /\ CallerSide(r)

LEMMA InitInv == Init => Inv
<1> SUFFICES ASSUME Init PROVE Inv
  OBVIOUS
<1>1. TypeOK
  BY DEF Init, TypeOK, Unsent, None, Codes
<1>2. ASSUME NEW r \in Rpcs PROVE ServerSide(r) /\ CallerSide(r)
  BY DEF Init, ServerSide, CallerSide, None
<1> QED
  BY <1>1, <1>2 DEF Inv

\* A step of the caller alone: the servers' variables do not change.
LEMMA CallerStep ==
  ASSUME Inv, NEW r \in Rpcs, Call(r) \/ Expire(r) \/ Cancel(r) \/ Receive(r) \/ LoseConnection(r)
  PROVE  Inv'
<1> USE DEF Inv
<1>1. TypeOK'
  <2>1. UNCHANGED <<up, at, done, server, span, status, logged, wire>>
    BY DEF Call, Expire, Cancel, Receive, LoseConnection, serverVars
  <2>2. CASE Call(r)
    BY <2>1, <2>2 DEF Call, TypeOK
  <2>3. ASSUME NEW c \in Codes, NEW trace \in Rpcs \cup {None}, Returns(r, c, trace) PROVE TypeOK'
    BY <2>1, <2>3 DEF Returns, TypeOK
  <2>4. CASE Expire(r) \/ Cancel(r) \/ LoseConnection(r)
    BY <2>3, <2>4 DEF Expire, Cancel, LoseConnection, Codes
  <2>5. CASE Receive(r)
    <3>1. wire[r].code \in Codes /\ wire[r].trace = r
      BY <2>5 DEF Receive, ServerSide, Codes
    <3> QED
      BY <2>3, <2>5, <3>1 DEF Receive, Codes
  <2> QED
    BY <2>2, <2>4, <2>5
<1>2. ASSUME NEW q \in Rpcs PROVE ServerSide(q)'
  <2>1. ServerSide(q)
    OBVIOUS
  <2>2. UNCHANGED <<done, server, span, status, logged, wire>>
    BY DEF Call, Expire, Cancel, Receive, LoseConnection, serverVars
  <2> QED
    BY <2>1, <2>2 DEF ServerSide
<1>3. ASSUME NEW q \in Rpcs PROVE CallerSide(q)'
  <2>1. CASE q # r
    BY <2>1 DEF Call, Expire, Cancel, Receive, LoseConnection, Returns, serverVars, TypeOK, CallerSide
  <2>2. CASE q = r /\ Call(r)
    BY <2>2 DEF Call, serverVars, TypeOK, CallerSide
  <2>3. CASE q = r /\ (Expire(r) \/ Cancel(r) \/ LoseConnection(r))
    BY <2>3 DEF Expire, Cancel, LoseConnection, Returns, serverVars, TypeOK, CallerSide, None
  <2>4. CASE q = r /\ Receive(r)
    <3>1. ServerSide(r) /\ CallerSide(r) /\ server[r] = "sent"
      BY <2>4 DEF Receive
    <3>2. UNCHANGED <<server, logged>>
      BY <2>4 DEF Receive, serverVars
    <3>3. \/ code'[r] = "ResourceExhausted" /\ trailer'[r] \in {r, None}
          \/ code'[r] = wire[r].code /\ trailer'[r] = wire[r].trace
      BY <2>4, <3>1 DEF Receive, Returns, TypeOK, ServerSide
    <3>4. done[r] \in {None, "DeadlineExceeded", "Canceled"}
      BY DEF TypeOK
    <3> QED
      BY <2>4, <3>1, <3>2, <3>3, <3>4 DEF ServerSide, CallerSide, None
  <2> QED
    BY <2>1, <2>2, <2>3, <2>4
<1> QED
  BY <1>1, <1>2, <1>3

\* A step of the interceptor or of gRPC at one RPC, other than its return.
LEMMA ServerStep ==
  ASSUME Inv, NEW r \in Rpcs, Arrive(r) \/ ContextDone(r) \/ Send(r)
  PROVE  Inv'
<1> USE DEF Inv
<1>1. TypeOK'
  <2>1. CASE Arrive(r)
    BY <2>1 DEF Arrive, clientVars, TypeOK
  <2>2. CASE ContextDone(r)
    BY <2>2 DEF ContextDone, clientVars, serverVars, TypeOK
  <2>3. CASE Send(r)
    BY <2>3 DEF Send, clientVars, TypeOK
  <2> QED
    BY <2>1, <2>2, <2>3
<1>2. ASSUME NEW q \in Rpcs PROVE ServerSide(q)' /\ CallerSide(q)'
  <2>1. ServerSide(q) /\ CallerSide(q)
    OBVIOUS
  <2>2. CASE Arrive(r)
    BY <2>1, <2>2 DEF Arrive, clientVars, TypeOK, ServerSide, CallerSide, None
  <2>3. CASE ContextDone(r)
    BY <2>1, <2>3 DEF ContextDone, clientVars, serverVars, TypeOK, ServerSide, CallerSide, None
  <2>4. CASE Send(r)
    BY <2>1, <2>4 DEF Send, clientVars, TypeOK, ServerSide, CallerSide, None
  <2> QED
    BY <2>2, <2>3, <2>4
<1> QED
  BY <1>1, <1>2

\* The return of a handler: the only step that gives an RPC its outcome.
LEMMA HandledStep ==
  ASSUME Inv, NEW r \in Rpcs, Handled(r)
  PROVE  Inv'
<1> USE DEF Inv
<1>0. PICK outcome \in Outcomes(r) :
         /\ status' = [status EXCEPT ![r] = IF outcome = "OK" THEN "Ok" ELSE "Error"]
         /\ logged' = [logged EXCEPT ![r] = LoggedCode(outcome)]
         /\ \E long \in {FALSE, outcome = "OK"} :
               wire' = [wire EXCEPT ![r] = [code |-> WireCode(r, outcome),
                                            trace |-> Trailer(r, outcome), long |-> long]]
  BY DEF Handled
<1> DEFINE c == WireCode(r, outcome)
<1>1. PICK long \in {FALSE, outcome = "OK"} :
         /\ status' = [status EXCEPT ![r] = IF outcome = "OK" THEN "Ok" ELSE "Error"]
         /\ logged' = [logged EXCEPT ![r] = LoggedCode(outcome)]
         /\ wire' = [wire EXCEPT ![r] = [code |-> c, trace |-> Trailer(r, outcome), long |-> long]]
  BY <1>0
<1>2. /\ server[r] = "handler" /\ server' = [server EXCEPT ![r] = "handled"]
      /\ span' = [span EXCEPT ![r] = "ended"]
      /\ UNCHANGED <<up, at, client, code, trailer, done>>
  BY DEF Handled, clientVars
<1>3. \/ outcome = "OK" /\ c = "OK"
      \/ outcome = "error" /\ c = "Unknown"
      \/ outcome = "context error" /\ c = done[r] /\ c \in {"DeadlineExceeded", "Canceled"}
  BY DEF Outcomes, WireCode, TypeOK
<1> HIDE DEF c
<1>4. long \in BOOLEAN
  OBVIOUS
<1>5. TypeOK'
  <2>1. [code |-> c, trace |-> Trailer(r, outcome), long |-> long]
           \in [code : Codes \cup {None}, trace : Rpcs \cup {None}, long : BOOLEAN]
    BY <1>3, <1>4 DEF Codes, Trailer
  <2>2. wire' \in [Rpcs -> [code : Codes \cup {None}, trace : Rpcs \cup {None}, long : BOOLEAN]]
    BY <1>1, <2>1 DEF TypeOK
  <2> QED
    BY <1>1, <1>2, <2>2 DEF TypeOK, LoggedCode
<1>6. ASSUME NEW q \in Rpcs PROVE ServerSide(q)' /\ CallerSide(q)'
  <2>1. ServerSide(q) /\ CallerSide(q)
    OBVIOUS
  <2>2. CASE q # r
    BY <1>1, <1>2, <2>1, <2>2 DEF TypeOK, ServerSide, CallerSide
  <2>3. CASE q = r
    <3>1. /\ server'[r] = "handled" /\ span'[r] = "ended"
          /\ status'[r] = (IF outcome = "OK" THEN "Ok" ELSE "Error")
          /\ logged'[r] = LoggedCode(outcome)
          /\ wire'[r].code = c /\ wire'[r].trace = r
      BY <1>1, <1>2 DEF TypeOK, Trailer
    <3>2. ServerSide(r)'
      BY <1>2, <1>3, <2>1, <2>3, <3>1 DEF ServerSide, LoggedCode, None
    <3>3. CallerSide(r)'
      BY <1>2, <2>1, <2>3 DEF CallerSide
    <3> QED
      BY <2>3, <3>2, <3>3
  <2> QED
    BY <2>2, <2>3
<1> QED
  BY <1>5, <1>6

\* The end of server s, by the panic of the RPCs in last or by another cause:
\* the RPCs it was at work on are over, those it has answered are not touched.
LEMMA DeathStep ==
  ASSUME Inv, NEW s \in Servers, NEW last \in SUBSET Rpcs,
         up' = up \ {s}, server' = Lost(s, last),
         \A q \in last : server[q] = "handler",
         status' = [q \in Rpcs |-> IF q \in last THEN "Error" ELSE status[q]],
         UNCHANGED <<at, client, code, trailer, done, span, logged, wire>>
  PROVE  Inv'
<1> USE DEF Inv
<1>1. TypeOK'
  <2>1. server' \in [Rpcs -> {None, "handler", "handled", "sent", "panicked", "lost"}]
    BY DEF Lost, TypeOK
  <2>2. status' \in [Rpcs -> {None, "Ok", "Error"}]
    BY DEF TypeOK
  <2>3. \A q \in Rpcs : server'[q] \in {"handler", "handled"} => at[q] # s /\ server[q] = server'[q]
    BY DEF Lost
  <2>4. \A q \in Rpcs : server'[q] \in {"handler", "handled"} => at'[q] \in up'
    BY <2>3 DEF TypeOK
  <2> QED
    BY <2>1, <2>2, <2>4 DEF TypeOK
<1>2. ASSUME NEW q \in Rpcs PROVE ServerSide(q)' /\ CallerSide(q)'
  <2>1. ServerSide(q) /\ CallerSide(q)
    OBVIOUS
  <2>2. \/ server'[q] = server[q]
        \/ server[q] \in {"handler", "handled"} /\ server'[q] \in {"panicked", "lost"}
    BY DEF Lost
  <2>3. status'[q] = status[q] \/ server[q] = "handler"
    OBVIOUS
  <2>4. ServerSide(q)'
    BY <2>1, <2>2, <2>3 DEF ServerSide, None
  <2>5. CallerSide(q)'
    BY <2>1, <2>2 DEF CallerSide
  <2> QED
    BY <2>4, <2>5
<1> QED
  BY <1>1, <1>2

LEMMA NextInv == Inv /\ [Next]_vars => Inv'
<1> SUFFICES ASSUME Inv, [Next]_vars PROVE Inv'
  OBVIOUS
<1>1. ASSUME NEW r \in Rpcs, Call(r) \/ Expire(r) \/ Cancel(r) \/ Receive(r) \/ LoseConnection(r) PROVE Inv'
  BY <1>1, CallerStep
<1>2. ASSUME NEW r \in Rpcs, Arrive(r) \/ ContextDone(r) \/ Send(r) PROVE Inv'
  BY <1>2, ServerStep
<1>3. ASSUME NEW r \in Rpcs, Handled(r) PROVE Inv'
  BY <1>3, HandledStep
<1>4. ASSUME NEW r \in Rpcs, Panic(r) PROVE Inv'
  <2>1. at[r] \in Servers /\ server[r] = "handler" /\ {r} \in SUBSET Rpcs
    BY <1>4 DEF Panic, Inv, TypeOK
  <2>2. status' = [q \in Rpcs |-> IF q \in {r} THEN "Error" ELSE status[q]]
    BY <1>4 DEF Panic, Inv, TypeOK
  <2>3. /\ up' = up \ {at[r]} /\ server' = Lost(at[r], {r})
        /\ UNCHANGED <<at, client, code, trailer, done, span, logged, wire>>
    BY <1>4 DEF Panic, clientVars
  <2> QED
    BY <2>1, <2>2, <2>3, DeathStep
<1>5. ASSUME NEW s \in Servers, Die(s) PROVE Inv'
  <2>1. status' = [q \in Rpcs |-> IF q \in {} THEN "Error" ELSE status[q]]
    BY <1>5 DEF Die, Inv, TypeOK
  <2>2. /\ up' = up \ {s} /\ server' = Lost(s, {})
        /\ UNCHANGED <<at, client, code, trailer, done, span, logged, wire>>
    BY <1>5 DEF Die, clientVars
  <2>3. {} \in SUBSET Rpcs /\ \A q \in {} : server[q] = "handler"
    OBVIOUS
  <2> QED
    BY <2>1, <2>2, <2>3, DeathStep
<1>6. CASE UNCHANGED vars
  BY <1>6 DEF vars, Inv, TypeOK, ServerSide, CallerSide
<1> QED
  BY <1>1, <1>2, <1>3, <1>4, <1>5, <1>6 DEF Next

LEMMA SpecInv == Spec => []Inv
  BY InitInv, NextInv, PTL DEF Spec

\* Type correctness for any RPCs and servers: no server works once it is dead.
THEOREM TypeCorrect == Spec => []TypeOK
<1>1. Inv => TypeOK
  BY DEF Inv
<1> QED
  BY <1>1, SpecInv, PTL

\* The server's record and span are right about what goes over the wire, but for
\* a context that was done, and a span is open only at work or lost with it.
THEOREM ServerRecords == Spec => []ServerRecordTrue
<1>1. Inv => ServerRecordTrue
  BY DEF Inv, ServerSide, ServerRecordTrue
<1> QED
  BY <1>1, SpecInv, PTL

\* The caller's and the server's record of an RPC differ only by the four codes
\* that say that one of them saw the end of the call alone, and every answer of
\* a server brings the caller the trace id of its own RPC.
THEOREM RecordsKept == Spec => []RecordsAgree
<1>1. Inv => RecordsAgree
  BY DEF Inv, TypeOK, CallerSide, RecordsAgree, Codes
<1> QED
  BY <1>1, SpecInv, PTL
===============================================================================
