------------------------- MODULE ServerLifecycleProofs -------------------------
(***************************************************************************)
(* The safety of ServerLifecycle for any set of requests.                  *)
(***************************************************************************)
EXTENDS ServerLifecycle, TLAPS

\* Nothing is stopped, reported or served before main has got that far, and a
\* server that has not served has no requests.
StageInv ==
    /\ main \in {"config", "telemetry", "database", "listen"} => server = "none"
    /\ main \in {"config", "telemetry", "database", "listen", "wait"} => ~stopping
    /\ main \in {"shutdown", "deferred"} => stopping
    /\ main = "deferred" => report # "none"
    /\ server \in {"none", "starting", "refused"} => \A r \in Requests : handler[r] = "new"

\* Only production is stopped, after the signal; only http-server fails to stop,
\* only grpc-server is refused; and no handler runs any more once the shutdown has
\* been reported proper.
ShutdownInv ==
    /\ stopping => production /\ cancelled
    /\ server = "refused" => kind = "grpc" /\ stopping
    /\ report # "none" => stopping
    /\ report = "failed" => kind = "http"
    /\ report = "proper" => main \in {"deferred", "exited"}

Inv ==
    /\ TypeOK
    /\ StageInv
    /\ ShutdownInv
    /\ ProperExit
    /\ NoKillInProduction
    /\ ExitCodes
    /\ Alive => \A r \in Requests : handler[r] # "killed"

LEMMA InitInv == Init => Inv
<1> SUFFICES ASSUME Init PROVE Inv
  OBVIOUS
<1>1. production \in BOOLEAN /\ telemetryOK \in BOOLEAN /\ ~stopping /\ ~cancelled
  BY Zenon DEF Init
<1>2. stopping \in BOOLEAN /\ cancelled \in BOOLEAN
  BY Zenon DEF Init
<1>3. /\ kind \in {"http", "grpc"} /\ main = "config" /\ server = "none"
      /\ handler = [r \in Requests |-> "new"] /\ spans = [r \in Requests |-> "none"]
      /\ report = "none" /\ exitCode = 9
  BY Zenon DEF Init
<1>4. QED
  BY <1>1, <1>2, <1>3 DEF Inv, TypeOK, StageInv, ShutdownInv, ProperExit, NoKillInProduction,
                          ExitCodes, Alive

\* What an exit leaves, whatever its reason.
LEMMA ExitStep ==
  ASSUME Inv, NEW code \in {0, 1, 2}, Alive, Exit(code),
         production => \/ Running = {}
                       \/ kind = "http" /\ report = "failed"
                       \/ kind = "grpc" /\ report = "none" /\ code = 2
                       \/ code = 1 /\ server = "failed",
         code = 0 /\ production => report # "none",
         code = 1 => server \in {"none", "failed", "refused"},
         code = 2 => ~telemetryOK \/ (kind = "grpc" /\ Running # {})
  PROVE  Inv'
<1> USE DEF Inv, Exit, fixed, Alive, Running
<1>1. TypeOK'
  BY DEF TypeOK
<1>2. StageInv'
  <2>1. server \in {"none", "starting", "refused"} => \A r \in Requests : handler'[r] = "new"
    BY DEF StageInv, TypeOK
  <2>2. QED
    BY <2>1 DEF StageInv
<1>3. ShutdownInv'
  BY DEF ShutdownInv
<1>4. ProperExit'
  BY DEF ProperExit, TypeOK
<1>5. \A r \in Requests : handler'[r] = "killed" <=> handler[r] = "running"
  BY DEF TypeOK
<1>6. NoKillInProduction'
  BY <1>5 DEF NoKillInProduction
<1>7. ExitCodes'
  BY <1>5 DEF ExitCodes, ShutdownInv
<1>8. QED
  BY <1>1, <1>2, <1>3, <1>4, <1>6, <1>7

\* An exit with 1 of a server that has not served kills no request.
LEMMA UnservedStep ==
  ASSUME Inv, Alive, Exit(1), server \in {"none", "refused"}
  PROVE  Inv'
<1>1. Running = {}
  BY DEF Inv, StageInv, Running
<1>2. QED
  BY <1>1, ExitStep

LEMMA NextInv == Inv /\ [Next]_vars => Inv'
<1> SUFFICES ASSUME Inv, [Next]_vars PROVE Inv'
  OBVIOUS
<1> USE DEF Inv
<1>1. CASE InitTelemetry
  BY <1>1 DEF InitTelemetry, TypeOK, StageInv, ShutdownInv, ProperExit, NoKillInProduction,
              ExitCodes, Alive, fixed
<1>z. CASE ConfigFails
  <2>1. Alive /\ Exit(1) /\ server = "none"
    BY <1>z DEF ConfigFails, StageInv, Alive
  <2>2. QED
    BY <2>1, UnservedStep
<1>a. CASE Configure
  BY <1>a DEF Configure, TypeOK, StageInv, ShutdownInv, ProperExit, NoKillInProduction,
              ExitCodes, Alive, fixed
<1>2. CASE DatabaseFails
  <2>1. Alive /\ Exit(1) /\ server = "none"
    BY <1>2 DEF DatabaseFails, StageInv, Alive
  <2>2. QED
    BY <2>1, UnservedStep
<1>3. CASE DatabaseConnects
  BY <1>3 DEF DatabaseConnects, TypeOK, StageInv, ShutdownInv, ProperExit, NoKillInProduction,
              ExitCodes, Alive, fixed
<1>4. CASE ListenFails
  <2>1. Alive /\ Exit(1) /\ server = "none"
    BY <1>4 DEF ListenFails, StageInv, Alive
  <2>2. QED
    BY <2>1, UnservedStep
<1>5. CASE StartServer
  BY <1>5 DEF StartServer, TypeOK, StageInv, ShutdownInv, ProperExit, NoKillInProduction,
              ExitCodes, Alive, fixed
<1>6. CASE ExitAtOnce
  <2>1. Alive /\ Exit(0) /\ ~production
    BY <1>6 DEF ExitAtOnce, Alive
  <2>2. QED
    BY <2>1, ExitStep
<1>7. CASE BeginShutdown
  BY <1>7 DEF BeginShutdown, TypeOK, StageInv, ShutdownInv, ProperExit, NoKillInProduction,
              ExitCodes, Alive, fixed
<1>8. CASE ShutdownReturns
  <2>1. /\ UNCHANGED <<kind, production, telemetryOK, server, stopping, cancelled, handler, spans, exitCode>>
        /\ main = "shutdown" /\ main' = "deferred" /\ stopping
    BY <1>8 DEF ShutdownReturns, fixed, StageInv
  <2>2. TypeOK'
    BY <1>8, <2>1 DEF ShutdownReturns, TypeOK, Alive
  <2>3. StageInv' /\ ShutdownInv'
    BY <1>8, <2>1 DEF ShutdownReturns, StageInv, ShutdownInv
  <2>4. ProperExit'
    <3>1. \A r \in Requests : handler[r] # "killed" /\ handler[r] # "running"
      BY <1>8, <2>1 DEF ShutdownReturns, Running, Alive
    <3>2. \A r \in Requests : handler[r] \in {"new", "connected", "answered"}
      BY <3>1 DEF TypeOK
    <3>3. QED
      BY <2>1, <3>2 DEF ProperExit
  <2>5. NoKillInProduction' /\ ExitCodes'
    BY <2>1 DEF NoKillInProduction, ExitCodes, TypeOK, Alive
  <2>6. QED
    BY <2>1, <2>2, <2>3, <2>4, <2>5 DEF Alive
<1>9. CASE ShutdownDeadline
  <2>1. /\ UNCHANGED <<kind, production, telemetryOK, server, stopping, cancelled, handler, spans, exitCode>>
        /\ main = "shutdown" /\ main' = "deferred" /\ stopping
    BY <1>9 DEF ShutdownDeadline, fixed, StageInv
  <2>2. TypeOK'
    BY <1>9, <2>1 DEF ShutdownDeadline, TypeOK, Alive
  <2>3. StageInv' /\ ShutdownInv'
    BY <1>9, <2>1 DEF ShutdownDeadline, StageInv, ShutdownInv
  <2>4. ProperExit'
    BY <1>9, <2>1 DEF ShutdownDeadline, ProperExit, Running, TypeOK
  <2>5. NoKillInProduction' /\ ExitCodes'
    BY <2>1 DEF NoKillInProduction, ExitCodes, TypeOK, Alive
  <2>6. QED
    BY <2>1, <2>2, <2>3, <2>4, <2>5 DEF Alive
<1>10. CASE MainReturns
  <2>1. Alive /\ (IF telemetryOK THEN Exit(0) ELSE Exit(2))
    BY <1>10 DEF MainReturns, Alive
  <2>2. report = "proper" \/ report = "failed"
    BY <1>10 DEF MainReturns, StageInv, TypeOK
  <2>3. report = "proper" => Running = {}
    BY DEF ProperExit, Running
  <2>4. report = "failed" => kind = "http"
    BY DEF ShutdownInv
  <2>5. QED
    BY <2>1, <2>2, <2>3, <2>4, ExitStep
<1>11. CASE Serving
  BY <1>11 DEF Serving, TypeOK, StageInv, ShutdownInv, ProperExit, NoKillInProduction,
               ExitCodes, Alive, fixed
<1>12. CASE ServeFails
  BY <1>12 DEF ServeFails, TypeOK, StageInv, ShutdownInv, ProperExit, NoKillInProduction,
               ExitCodes, Alive, fixed
<1>b. CASE ServeRefused
  BY <1>b DEF ServeRefused, TypeOK, StageInv, ShutdownInv, ProperExit, NoKillInProduction,
              ExitCodes, Alive, fixed
<1>c. CASE ServeExits
  <2>1. Alive /\ Exit(1) /\ server \in {"failed", "refused"}
    BY <1>c DEF ServeExits
  <2>2. CASE server = "failed"
    BY <2>1, <2>2, ExitStep
  <2>3. CASE server = "refused"
    BY <2>1, <2>3, UnservedStep
  <2>4. QED
    BY <2>1, <2>2, <2>3
<1>13. CASE ServeReturns
  BY <1>13 DEF ServeReturns, TypeOK, StageInv, ShutdownInv, ProperExit, NoKillInProduction,
               ExitCodes, Alive, fixed
<1>14. CASE Signal
  BY <1>14 DEF Signal, TypeOK, StageInv, ShutdownInv, ProperExit, NoKillInProduction,
               ExitCodes, Alive, fixed
<1>15. ASSUME NEW r \in Requests, Connect(r) \/ Accept(r) PROVE Inv'
  BY <1>15 DEF Connect, Accept, TypeOK, StageInv, ShutdownInv, ProperExit, NoKillInProduction,
               ExitCodes, Alive, fixed
<1>16. ASSUME NEW r \in Requests, Return(r) PROVE Inv'
  BY <1>16 DEF Return, TypeOK, StageInv, ShutdownInv, ProperExit, NoKillInProduction,
               ExitCodes, Alive, fixed
<1>17. ASSUME NEW r \in Requests, PanicInRPC(r) PROVE Inv'
  <2>1. Alive /\ kind = "grpc" /\ Running # {} /\ Exit(2)
    BY <1>17 DEF PanicInRPC, Running
  <2>2. report # "failed"
    BY <2>1 DEF ShutdownInv
  <2>3. report # "proper"
    BY <2>1 DEF ProperExit, Running
  <2>4. report = "none"
    BY <2>2, <2>3 DEF TypeOK
  <2>5. QED
    BY <2>1, <2>4, ExitStep
<1>18. ASSUME NEW r \in Requests, Export(r) PROVE Inv'
  BY <1>18 DEF Export, TypeOK, StageInv, ShutdownInv, ProperExit, NoKillInProduction,
               ExitCodes, Alive, fixed
<1>19. CASE UNCHANGED vars
  BY <1>19 DEF vars, TypeOK, StageInv, ShutdownInv, ProperExit, NoKillInProduction,
               ExitCodes, Alive, fixed
<1>20. QED
  BY <1>z, <1>a, <1>b, <1>c, <1>1, <1>2, <1>3, <1>4, <1>5, <1>6, <1>7, <1>8, <1>9, <1>10, <1>11, <1>12, <1>13,
     <1>14, <1>15, <1>16, <1>17, <1>18, <1>19 DEF Next, Main, Server

LEMMA SpecInv == Spec => []Inv
  BY InitInv, NextInv, PTL DEF Spec

\* Type correctness, with any number of requests: the exit code is set exactly
\* when the process has ended.
THEOREM TypeCorrect == Spec => []TypeOK
<1>1. Inv => TypeOK
  BY DEF Inv
<1>2. QED
  BY <1>1, SpecInv, PTL

\* A shutdown that is logged as proper has let every accepted request finish, with
\* any number of requests.
THEOREM ShutdownProper == Spec => []ProperExit
<1>1. Inv => ProperExit
  BY DEF Inv
<1>2. QED
  BY <1>1, SpecInv, PTL

\* In production a running request is killed only by the deadline of an HTTP
\* shutdown, a panic in an RPC or an accept loop that broke, although the process
\* may end at any time after the loop broke, amid a shutdown as well.
THEOREM KillsExplained == Spec => []NoKillInProduction
<1>1. Inv => NoKillInProduction
  BY DEF Inv
<1>2. QED
  BY <1>1, SpecInv, PTL

\* What each exit code of the two servers says of how they ended: 1 never means
\* that a server that was serving has been stopped.
THEOREM CodesExplained == Spec => []ExitCodes
<1>1. Inv => ExitCodes
  BY DEF Inv
<1>2. QED
  BY <1>1, SpecInv, PTL
===============================================================================
