------------------------------ MODULE ClientLoops ------------------------------
(***************************************************************************)
(* The processes http-client and grpc-client: configuration, telemetry,    *)
(* connection, a loop of call and sleep until a signal, and the deferred   *)
(* calls of main.  Time is counted in ticks, the shortest sleep there is:  *)
(* a millisecond in the code.  The calls themselves are the subject of     *)
(* HttpClient and GrpcExchange; here a call takes time, fails or succeeds, *)
(* and is over when its context is done.                                   *)
(***************************************************************************)
EXTENDS Integers, SequencesExt

CONSTANTS
    CallTimeout,  \* the ticks of a call's context: 2 s and 3 s in the code
    IntBits,      \* the width setInt64 parses: 16 in the code
    Fallback,     \* 1000 in the code
    MaxEnv,       \* a bound on the numbers CLIENT_MAX_SLEEP_MS may hold
    MaxDeferred   \* a bound on the deferred calls grpc-client piles up

ASSUME LoopAssumption ==
    /\ {CallTimeout, IntBits, Fallback, MaxDeferred} \subseteq Nat \ {0}
    /\ MaxEnv \in Nat
    /\ Fallback < 2^(IntBits - 1)

VARIABLES
    kind,        \* "http" or "grpc": which of the two programs
    production,  \* ENV is "production"
    pc,          \* where main is
    env,         \* what CLIENT_MAX_SLEEP_MS holds
    telemetry,   \* the exporter was built: shutdown is not nil
    signalled,   \* globalCtx is done
    connected,   \* grpc-client has a connection that is not closed
    deferred,    \* main's deferred calls, the last one first to run
    wait,        \* ticks until the call's deadline, or the end of the sleep
    contexts,    \* how many contexts have a timer with so many ticks left
    span,        \* the span of the current call is open
    queued,      \* a span has ended and is not exported yet
    panicking,   \* main unwinds because of a panic
    code         \* the exit code, -1 before

vars == <<kind, production, pc, env, telemetry, signalled, connected,
          deferred, wait, contexts, span, queued, panicking, code>>

\* os.Exit: no deferred call runs.
Exit(c) == pc' = "exited" /\ code' = c

---------------------------------------------------------------------------
(* Before the loop                                                         *)

\* What CLIENT_MAX_SLEEP_MS may hold: nothing or a text that is no number,
\* which have the same effect, or a number.
Texts == [number : {FALSE}, value : {0}] \cup [number : {TRUE}, value : -MaxEnv .. MaxEnv]

\* No context has a timer that was neither cancelled nor has run out.
NoContexts == [ticks \in 1 .. CallTimeout |-> 0]

Init ==
    /\ kind \in {"http", "grpc"} /\ production \in BOOLEAN
    /\ pc = "config" /\ env \in Texts
    /\ telemetry = FALSE /\ signalled = FALSE /\ connected = FALSE
    /\ deferred = <<"stop">> /\ contexts = NoContexts
    /\ span = FALSE /\ queued = FALSE /\ panicking = FALSE
    /\ wait = 0 /\ code = -1

\* Mutants of SetInt64: what does not fit wraps around, or the width is not
\* looked at.
SetInt64Wrapping(text) ==
    LET low == text.value % 2^IntBits
    IN IF ~text.number THEN Fallback
       ELSE IF low < 2^(IntBits - 1) THEN low ELSE low - 2^IntBits

\* ParseInt refuses what does not fit; zero and negative numbers are taken.
SetInt64(text) ==
    IF text.number /\ text.value \in -(2^(IntBits - 1)) .. 2^(IntBits - 1) - 1
    THEN text.value ELSE Fallback

maxSleep == SetInt64(env)

\* config.Instance: os.Exit(1) if a required variable is missing.
Configure ==
    /\ pc = "config"
    /\ \/ pc' = "telemetry" /\ UNCHANGED code
       \/ Exit(1)
    /\ UNCHANGED <<kind, production, env, telemetry, signalled, connected, deferred,
                   wait, contexts, span, queued, panicking>>

\* The error of telemetry.Instance is dropped, its function is called in the
\* end whether it is nil or not.
InitTelemetry ==
    /\ pc = "telemetry"
    /\ telemetry' \in BOOLEAN
    /\ deferred' = Append(deferred, "shutdown")
    /\ pc' = IF kind = "grpc" THEN "connect" ELSE "select"
    /\ UNCHANGED <<kind, production, env, signalled, connected, wait,
                   contexts, span, queued, panicking, code>>

\* grpc.NewClient fails for a target it cannot parse.
Connect ==
    /\ pc = "connect"
    /\ \/ /\ connected' = TRUE /\ pc' = "select"
          /\ deferred' = Append(deferred, "close")
          /\ UNCHANGED code
       \/ Exit(1) /\ UNCHANGED <<connected, deferred>>
    /\ UNCHANGED <<kind, production, env, telemetry, signalled, wait,
                   contexts, span, queued, panicking>>

---------------------------------------------------------------------------
(* The loop                                                                *)

Done ==
    /\ pc = "select" /\ signalled
    /\ IF production THEN pc' = "return" /\ UNCHANGED code ELSE Exit(0)
    /\ UNCHANGED <<kind, production, env, telemetry, signalled, connected,
                   deferred, wait, contexts, span, queued, panicking>>

\* grpc-client defers cancel and span.End in every turn of its loop, that is
\* until main returns.
Call ==
    /\ pc = "select" /\ ~signalled
    /\ Len(deferred) < MaxDeferred
    /\ pc' = "call" /\ span' = TRUE
    /\ wait' = CallTimeout
    /\ contexts' = [contexts EXCEPT ![CallTimeout] = @ + 1]
    /\ deferred' = IF kind = "grpc" THEN Append(Append(deferred, "cancel"), "end") ELSE deferred
    /\ UNCHANGED <<kind, production, env, telemetry, signalled, connected,
                   queued, panicking, code>>

\* The call succeeds or fails, at the latest when its context is done.
\* http-client does not cancel the context of a call that succeeded.  After
\* the deadline or the signal the timer of the context is gone already.
Return(ok) ==
    /\ pc = "call"
    /\ contexts' = IF wait > 0 /\ ~signalled /\ (kind = "grpc" \/ ~ok)
                   THEN [contexts EXCEPT ![wait] = @ - 1] ELSE contexts
    /\ span' = FALSE /\ queued' = telemetry
    /\ pc' = "pause" /\ wait' = 0
    /\ UNCHANGED <<kind, production, env, telemetry, signalled, connected,
                   deferred, panicking, code>>

\* Mutant of Delays: rand.Intn(n) without the one that is added.
DelaysFromZero == 0 .. maxSleep - 1

Delays == 1 .. maxSleep

\* rand.Intn panics unless it is given a positive number.
Pause ==
    /\ pc = "pause"
    /\ \/ maxSleep > 0 /\ wait' \in Delays /\ pc' = "sleep" /\ UNCHANGED panicking
       \/ maxSleep <= 0 /\ pc' = "return" /\ panicking' = TRUE /\ UNCHANGED wait
    /\ UNCHANGED <<kind, production, env, telemetry, signalled, connected,
                   deferred, contexts, span, queued, code>>

\* Mutant of Wake: the sleeper does not come back to the select.
WakeIntoCall ==
    /\ pc = "sleep" /\ wait = 0
    /\ pc' = "call" /\ wait' = CallTimeout
    /\ contexts' = [contexts EXCEPT ![CallTimeout] = @ + 1]
    /\ UNCHANGED <<kind, production, env, telemetry, signalled, connected,
                   deferred, span, queued, panicking, code>>

\* time.Sleep does not look at the context.
Wake ==
    /\ pc = "sleep" /\ wait = 0
    /\ pc' = "select"
    /\ UNCHANGED <<kind, production, env, telemetry, signalled, connected,
                   deferred, wait, contexts, span, queued, panicking, code>>

---------------------------------------------------------------------------
(* The end of main                                                         *)

\* tp.Shutdown(globalCtx) exports what is queued, but does not wait for it if
\* globalCtx is done; a nil shutdown panics.
Shutdown ==
    /\ queued' \in IF telemetry /\ ~signalled THEN {FALSE} ELSE {queued}
    /\ panicking' = (panicking \/ ~telemetry)

\* Mutant of RunDeferred: a panic runs no deferred call.
RunDeferredUnlessPanicking ==
    /\ pc = "return" /\ deferred # <<>>
    /\ deferred' = IF panicking THEN <<>> ELSE Front(deferred)
    /\ connected' = (connected /\ Last(deferred) # "close")
    /\ IF Last(deferred) = "shutdown" /\ ~panicking THEN Shutdown ELSE UNCHANGED <<queued, panicking>>
    /\ UNCHANGED <<kind, production, pc, env, telemetry, signalled, wait,
                   contexts, span, code>>

\* The second cancel and the second End of a call are without effect, and so
\* is stop as the process ends.
RunDeferred ==
    /\ pc = "return" /\ deferred # <<>>
    /\ deferred' = Front(deferred)
    /\ connected' = (connected /\ Last(deferred) # "close")
    /\ IF Last(deferred) = "shutdown" THEN Shutdown ELSE UNCHANGED <<queued, panicking>>
    /\ UNCHANGED <<kind, production, pc, env, telemetry, signalled, wait,
                   contexts, span, code>>

\* The runtime ends the process, with 2 if a panic got this far.
End ==
    /\ pc = "return" /\ deferred = <<>>
    /\ Exit(IF panicking THEN 2 ELSE 0)
    /\ UNCHANGED <<kind, production, env, telemetry, signalled, connected,
                   deferred, wait, contexts, span, queued, panicking>>

---------------------------------------------------------------------------
(* The world                                                               *)

\* A timer that has run out releases its context.
Tick ==
    /\ pc \in {"call", "sleep"} /\ wait > 0
    /\ wait' = wait - 1
    /\ contexts' = [ticks \in 1 .. CallTimeout |-> IF ticks < CallTimeout THEN contexts[ticks + 1] ELSE 0]
    /\ UNCHANGED <<kind, production, pc, env, telemetry, signalled,
                   connected, deferred, span, queued, panicking, code>>

\* globalCtx is done, and with it every context that was made from it.
Signal ==
    /\ pc # "exited" /\ ~signalled
    /\ signalled' = TRUE
    /\ contexts' = NoContexts
    /\ UNCHANGED <<kind, production, pc, env, telemetry, connected,
                   deferred, wait, span, queued, panicking, code>>

\* The batch processor exports every few seconds.
Export ==
    /\ pc # "exited" /\ queued
    /\ queued' = FALSE
    /\ UNCHANGED <<kind, production, pc, env, telemetry, signalled, connected,
                   deferred, wait, contexts, span, panicking, code>>

Main ==
    \/ Configure \/ InitTelemetry \/ Connect
    \/ Done \/ Call \/ (\E ok \in BOOLEAN : Return(ok)) \/ Pause \/ Wake
    \/ RunDeferred \/ End

Next == Main \/ Tick \/ Signal \/ Export

\* main is never kept from its next step but by time, and time passes.
Spec == Init /\ [][Next]_vars /\ WF_vars(Main) /\ WF_vars(Tick)

---------------------------------------------------------------------------
(* Properties                                                              *)

\* The contexts http-client does not cancel do not pile up: there is a tick
\* between two calls, so no two have the same time left and no more are alive
\* than their timeout has ticks; grpc-client has none but that of the call it
\* is in.
ContextsBounded ==
    /\ \A ticks \in 1 .. CallTimeout : contexts[ticks] <= 1
    /\ kind = "grpc" /\ pc # "call" => contexts = NoContexts

\* How either client can end: 1 is for a configuration or a target it never
\* called with, 0 for a signal, 2 for a panic that has one of two causes -
\* CLIENT_MAX_SLEEP_MS is a 16-bit number that is not positive, or telemetry
\* did not start.  A text that is no number or does not fit never ends it.
ExitExplained ==
    pc = "exited" =>
        /\ code = 1 => deferred \in {<<"stop">>, <<"stop", "shutdown">>} /\ ~span
        /\ code = 0 => signalled /\ (production => telemetry)
        /\ code = 2 => \/ env.number /\ env.value \in -(2^(IntBits - 1)) .. 0
                       \/ signalled /\ production /\ ~telemetry

\* Spans that have ended are lost at exit only after a signal, because
\* Shutdown gets the context the signal has cancelled.  Where there was none
\* the deferred shutdown has exported them, a panic in the loop included.
LostOnlyAfterSignal == pc = "exited" /\ queued => signalled

\* After a signal the process ends, wherever the loop is.
Stops == signalled ~> pc = "exited"
=============================================================================
