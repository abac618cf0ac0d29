----------------------------- MODULE ClientProofs -----------------------------
(***************************************************************************)
(* Proofs about ClientProcess, and with it about ClientLoops and           *)
(* HttpClient, for every timeout, width, bound and set of headers.         *)
(***************************************************************************)
EXTENDS ClientProcess, SequenceTheorems, TLAPS

---------------------------------------------------------------------------
(* The invariant of the loop                                               *)

BeforeLoop == {"config", "telemetry", "connect"}
InLoop == {"select", "call", "pause", "sleep"}

Deferrable == {"stop", "shutdown", "close", "cancel", "end"}

\* The telemetry's shutdown is still among the deferred calls.
Owed == \E i \in DOMAIN deferred : deferred[i] = "shutdown"

LoopTypeOK ==
    /\ kind \in {"http", "grpc"}
    /\ pc \in BeforeLoop \cup InLoop \cup {"return", "exited"}
    /\ env \in Texts
    /\ deferred \in Seq(Deferrable)
    /\ wait \in Nat
    /\ contexts \in [1 .. CallTimeout -> Nat]

\* Nothing has happened before the loop, and in it nothing is over.
StartInv ==
    /\ pc \in BeforeLoop => ~span /\ ~queued /\ ~panicking
    /\ pc \in {"config", "telemetry"} => deferred = <<"stop">>
    /\ pc = "connect" => deferred = <<"stop", "shutdown">>
    /\ pc \in InLoop => Owed /\ ~panicking
    /\ pc # "exited" => code = -1
    /\ queued => telemetry

\* Why main returns, and what its deferred calls have still to do.
ReturnInv ==
    pc = "return" =>
        /\ panicking => maxSleep <= 0 \/ (signalled /\ production /\ ~telemetry)
        /\ ~panicking => signalled /\ production /\ (telemetry \/ Owed)
        /\ queued /\ ~signalled => Owed

\* The context of the call main is in is the youngest, and a sleep outlasts the
\* tick after which another one may be as young.
ContextsInv ==
    /\ \A ticks \in 1 .. CallTimeout : contexts[ticks] <= 1
    /\ pc = "call" =>
          /\ wait <= CallTimeout
          /\ \A ticks \in 1 .. CallTimeout : ticks > wait => contexts[ticks] = 0
          /\ wait > 0 /\ ~signalled => contexts[wait] = 1
    /\ pc \in BeforeLoop \cup {"select"} \/ (pc = "sleep" /\ wait = 0) => contexts[CallTimeout] = 0
    /\ signalled => contexts = NoContexts
    /\ pc \in BeforeLoop => contexts = NoContexts
    /\ kind = "grpc" => \A ticks \in 1 .. CallTimeout : contexts[ticks] = 0 \/ (pc = "call" /\ ticks = wait)

LoopInv == LoopTypeOK /\ StartInv /\ ReturnInv /\ ContextsInv /\ ExitExplained /\ LostOnlyAfterSignal

---------------------------------------------------------------------------
(* The invariant of a call                                                 *)

CallTypeOK ==
    /\ at \in {"idle", "sending", "reading", "done"}
    /\ opts.body.length \in Nat /\ received \in Nat
    /\ client.headers \in H!Maps("default")
    /\ \A key \in DOMAIN opts.headers : opts.headers[key] = "user"

\* Until the answer is parsed the caller's result is not touched, and what the
\* upstream has got is a part of what the log's capture left.
BodyInv ==
    /\ at # "done" => result = H!Untouched /\ err = "none"
    /\ at = "idle" => received = 0
    /\ received <= opts.body.length
    /\ at \in {"idle", "sending"} => ~bodyOpen
    /\ at = "reading" => received = opts.body.length \/ early

HeadersInv ==
    at \in {"sending", "reading"} => logged = H!Logged(opts) /\ header = H!Sent(opts)

CallInv == CallTypeOK /\ BodyInv /\ HeadersInv /\ OutcomeTrue

---------------------------------------------------------------------------
(* Lemmas about deferred calls and numbers                                 *)

\* What is deferred on top leaves the calls below in place.
LEMMA AppendFacts ==
    ASSUME NEW s \in Seq(Deferrable), NEW x \in Deferrable
    PROVE  /\ Append(s, x) \in Seq(Deferrable)
           /\ DOMAIN Append(s, x) = DOMAIN s \cup {Len(s) + 1}
           /\ \A i \in DOMAIN s : Append(s, x)[i] = s[i]
           /\ Append(s, x)[Len(s) + 1] = x
<1>1. Append(s, x) \in Seq(Deferrable) /\ Len(Append(s, x)) = Len(s) + 1
  BY AppendProperties
<1>2. DOMAIN s = 1 .. Len(s) /\ DOMAIN Append(s, x) = 1 .. Len(s) + 1 /\ Len(s) \in Nat
  BY <1>1
<1>3. (\A i \in 1 .. Len(s) : Append(s, x)[i] = s[i]) /\ Append(s, x)[Len(s) + 1] = x
  BY AppendProperties
<1>4. 1 .. Len(s) + 1 = 1 .. Len(s) \cup {Len(s) + 1}
  BY <1>2
<1>. QED  BY <1>1, <1>2, <1>3, <1>4

LEMMA AppendToOne ==
    ASSUME NEW x, NEW y
    PROVE  Append(<<x>>, y) = <<x, y>>
<1>1. <<x>> \in Seq({x, y}) /\ Len(<<x>>) = 1 /\ <<x>>[1] = x
  OBVIOUS
<1>2. Append(<<x>>, y) \in Seq({x, y}) /\ Len(Append(<<x>>, y)) = 2
  BY <1>1, AppendProperties
<1>3. Append(<<x>>, y)[1] = x /\ Append(<<x>>, y)[2] = y
  BY <1>1, AppendProperties
<1>4. <<x, y>> \in Seq({x, y})
  OBVIOUS
<1>5. Len(<<x, y>>) = 2 /\ <<x, y>>[1] = x /\ <<x, y>>[2] = y
  OBVIOUS
<1>6. \A i \in 1 .. 2 : Append(<<x>>, y)[i] = <<x, y>>[i]
  BY <1>3, <1>5
<1>. QED  BY <1>2, <1>4, <1>5, <1>6, SeqEqual

\* Running the last one removes no other.
LEMMA FrontFacts ==
    ASSUME NEW s \in Seq(Deferrable), s # <<>>
    PROVE  /\ Front(s) \in Seq(Deferrable)
           /\ DOMAIN s = DOMAIN Front(s) \cup {Len(s)}
           /\ \A i \in DOMAIN Front(s) : Front(s)[i] = s[i]
           /\ Last(s) = s[Len(s)]
<1>. DEFINE t == SubSeq(s, 1, Len(s) - 1)
<1>1. Len(s) \in Nat \ {0} /\ DOMAIN s = 1 .. Len(s)
  OBVIOUS
<1>2. 1 \in Int /\ Len(s) - 1 \in Int /\ \A i \in 1 .. Len(s) - 1 : s[i] \in Deferrable
  BY <1>1
<1>3. t \in Seq(Deferrable)
  BY <1>2, SubSeqProperties
<1>4. Len(t) = IF 1 <= Len(s) - 1 THEN Len(s) - 1 - 1 + 1 ELSE 0
  BY <1>2, SubSeqProperties
<1>5. \A i \in 1 .. Len(s) - 1 - 1 + 1 : t[i] = s[1 + i - 1]
  BY <1>2, SubSeqProperties
<1>6. Front(s) = t /\ Last(s) = s[Len(s)]
  BY DEF Front, Last
<1>. HIDE DEF t
<1>7. Len(t) = Len(s) - 1
  <2>1. CASE Len(s) = 1
    <3>1. ~(1 <= Len(s) - 1)
      BY <2>1
    <3>2. Len(t) = 0
      BY <1>4, <3>1, Zenon
    <3>. QED  BY <2>1, <3>2
  <2>2. CASE Len(s) # 1
    <3>1. 1 <= Len(s) - 1
      BY <1>1, <2>2
    <3>2. Len(t) = Len(s) - 1 - 1 + 1
      BY <1>4, <3>1, Zenon
    <3>. QED  BY <1>1, <3>2
  <2>. QED  BY <2>1, <2>2
<1>9. \A i \in 1 .. Len(s) - 1 : t[i] = s[i]
  <2>. TAKE i \in 1 .. Len(s) - 1
  <2>1. i \in 1 .. Len(s) - 1 - 1 + 1 /\ 1 + i - 1 = i
    BY <1>1
  <2>. QED  BY <1>5, <2>1
<1>8. DOMAIN t = 1 .. Len(s) - 1 /\ 1 .. Len(s) = 1 .. Len(s) - 1 \cup {Len(s)}
  BY <1>1, <1>3, <1>7
<1>. QED  BY <1>1, <1>3, <1>6, <1>8, <1>9

\* setInt64 returns what is not positive only for a number that is not.
LEMMA NotPositive ==
    ASSUME env \in Texts, maxSleep <= 0
    PROVE  env.number /\ env.value \in -(2^(IntBits - 1)) .. 0
  BY LoopAssumption DEF Texts, maxSleep, SetInt64

LEMMA MaxSleepIsInt ==
    ASSUME env \in Texts
    PROVE  maxSleep \in Int
  BY LoopAssumption DEF Texts, maxSleep, SetInt64

LEMMA NoContextsHave ==
    /\ NoContexts \in [1 .. CallTimeout -> Nat]
    /\ \A ticks \in 1 .. CallTimeout : NoContexts[ticks] = 0
    /\ CallTimeout \in 1 .. CallTimeout
  BY LoopAssumption DEF NoContexts

---------------------------------------------------------------------------
(* The steps of the loop                                                   *)

LEMMA OwedStays ==
    ASSUME LoopTypeOK, NEW x \in Deferrable, deferred' = Append(deferred, x), Owed \/ x = "shutdown"
    PROVE  Owed'
  BY AppendFacts DEF Deferrable, LoopTypeOK, Owed

LEMMA OwedUntilRun ==
    ASSUME LoopTypeOK, deferred # <<>>, deferred' = Front(deferred), Owed, Last(deferred) # "shutdown"
    PROVE  Owed'
  BY FrontFacts DEF LoopTypeOK, Owed

LEMMA ConfigureStep ==
    ASSUME LoopInv, Configure
    PROVE  LoopInv'
<1>. USE DEF LoopInv, Configure, Exit, BeforeLoop, InLoop
<1>1. LoopTypeOK'
  BY DEF LoopTypeOK
<1>2. StartInv'
  BY DEF StartInv, Owed
<1>3. ReturnInv' /\ ExitExplained' /\ LostOnlyAfterSignal'
  BY DEF StartInv, ReturnInv, ExitExplained, LostOnlyAfterSignal
<1>4. ContextsInv'
  BY DEF ContextsInv, LoopTypeOK
<1>. QED  BY <1>1, <1>2, <1>3, <1>4

LEMMA InitTelemetryStep ==
    ASSUME LoopInv, InitTelemetry
    PROVE  LoopInv'
<1>. USE DEF LoopInv, InitTelemetry, BeforeLoop, InLoop
<1>1. LoopTypeOK'
  BY AppendFacts DEF Deferrable, LoopTypeOK
<1>2. Owed'
  BY OwedStays DEF Deferrable
<1>3. deferred = <<"stop">>
  BY DEF StartInv
<1>4. deferred' = <<"stop", "shutdown">>
  BY <1>3, AppendToOne
<1>5. StartInv'
  BY <1>2, <1>4 DEF StartInv, LoopTypeOK
<1>6. ReturnInv' /\ ExitExplained' /\ LostOnlyAfterSignal'
  BY DEF StartInv, ReturnInv, ExitExplained, LostOnlyAfterSignal
<1>7. ContextsInv'
  BY NoContextsHave DEF ContextsInv, LoopTypeOK
<1>. QED  BY <1>1, <1>5, <1>6, <1>7

LEMMA ConnectStep ==
    ASSUME LoopInv, Connect
    PROVE  LoopInv'
<1>. USE DEF LoopInv, Connect, Exit, BeforeLoop, InLoop
<1>1. LoopTypeOK'
  BY AppendFacts DEF Deferrable, LoopTypeOK
<1>2. deferred = <<"stop", "shutdown">>
  BY DEF StartInv
<1>3. Owed
  BY <1>2 DEF Owed
<1>4. pc' = "select" => Owed'
  BY <1>3, OwedStays DEF Deferrable
<1>5. StartInv'
  BY <1>4 DEF StartInv
<1>6. ReturnInv' /\ ExitExplained' /\ LostOnlyAfterSignal'
  BY DEF StartInv, ReturnInv, ExitExplained, LostOnlyAfterSignal
<1>7. ContextsInv'
  BY NoContextsHave DEF ContextsInv, LoopTypeOK
<1>. QED  BY <1>1, <1>5, <1>6, <1>7

LEMMA DoneStep ==
    ASSUME LoopInv, Done
    PROVE  LoopInv'
<1>. USE DEF LoopInv, Done, Exit, BeforeLoop, InLoop
<1>1. LoopTypeOK'
  BY DEF LoopTypeOK
<1>2. StartInv'
  BY DEF StartInv, Owed
<1>3. ReturnInv'
  BY DEF StartInv, ReturnInv, Owed
<1>4. ExitExplained' /\ LostOnlyAfterSignal'
  BY DEF StartInv, ExitExplained, LostOnlyAfterSignal
<1>5. ContextsInv'
  BY NoContextsHave DEF ContextsInv, LoopTypeOK
<1>. QED  BY <1>1, <1>2, <1>3, <1>4, <1>5

LEMMA CallStep ==
    ASSUME LoopInv, Call
    PROVE  LoopInv'
<1>. USE DEF LoopInv, Call, BeforeLoop, InLoop
<1>1. Append(deferred, "cancel") \in Seq(Deferrable)
  BY AppendFacts DEF Deferrable, LoopTypeOK
<1>2. Append(Append(deferred, "cancel"), "end") \in Seq(Deferrable)
  BY <1>1, AppendFacts DEF Deferrable
<1>3. LoopTypeOK'
  BY <1>2, LoopAssumption, NoContextsHave DEF LoopTypeOK
<1>4. Owed'
  BY <1>1, AppendFacts DEF Deferrable, LoopTypeOK, Owed, StartInv
<1>5. StartInv'
  BY <1>4 DEF StartInv
<1>6. ReturnInv' /\ ExitExplained' /\ LostOnlyAfterSignal'
  BY DEF ReturnInv, ExitExplained, LostOnlyAfterSignal
<1>7. ContextsInv'
  BY NoContextsHave, LoopAssumption DEF ContextsInv, LoopTypeOK
<1>. QED  BY <1>3, <1>5, <1>6, <1>7

LEMMA ReturnStep ==
    ASSUME LoopInv, NEW ok \in BOOLEAN, Return(ok)
    PROVE  LoopInv'
<1>. USE DEF LoopInv, Return, BeforeLoop, InLoop
<1>1. wait > 0 /\ ~signalled => contexts[wait] = 1 /\ wait \in 1 .. CallTimeout
  BY LoopAssumption DEF ContextsInv, LoopTypeOK
<1>2. LoopTypeOK'
  BY <1>1 DEF LoopTypeOK
<1>3. StartInv'
  BY DEF StartInv, Owed
<1>4. ReturnInv' /\ ExitExplained' /\ LostOnlyAfterSignal'
  BY DEF ReturnInv, ExitExplained, LostOnlyAfterSignal
<1>5. ContextsInv'
  <2>1. CASE contexts' = contexts
    BY <1>1, <2>1, NoContextsHave DEF ContextsInv, LoopTypeOK
  <2>2. CASE contexts' # contexts
    <3>1. contexts' = [contexts EXCEPT ![wait] = @ - 1] /\ wait > 0 /\ ~signalled
      BY <2>2
    <3>2. contexts'[wait] = 0 /\ \A ticks \in 1 .. CallTimeout : ticks # wait => contexts'[ticks] = contexts[ticks]
      BY <1>1, <3>1 DEF LoopTypeOK
    <3>. QED  BY <1>1, <3>1, <3>2 DEF ContextsInv, LoopTypeOK
  <2>. QED  BY <2>1, <2>2
<1>. QED  BY <1>2, <1>3, <1>4, <1>5

LEMMA PauseStep ==
    ASSUME LoopInv, Pause
    PROVE  LoopInv'
<1>. USE DEF LoopInv, Pause, BeforeLoop, InLoop
<1>1. LoopTypeOK' /\ (pc' = "sleep" => wait' > 0)
  BY MaxSleepIsInt DEF LoopTypeOK, Delays
<1>2. StartInv'
  BY DEF StartInv, Owed
<1>3. maxSleep' = maxSleep
  BY DEF maxSleep
<1>4. ReturnInv'
  BY <1>3 DEF StartInv, ReturnInv, Owed
<1>5. ExitExplained' /\ LostOnlyAfterSignal'
  BY DEF ExitExplained, LostOnlyAfterSignal
<1>6. ContextsInv'
  BY <1>1, NoContextsHave DEF ContextsInv, LoopTypeOK
<1>. QED  BY <1>1, <1>2, <1>4, <1>5, <1>6

LEMMA WakeStep ==
    ASSUME LoopInv, Wake
    PROVE  LoopInv'
<1>. USE DEF LoopInv, Wake, BeforeLoop, InLoop
<1>1. LoopTypeOK'
  BY DEF LoopTypeOK
<1>2. StartInv'
  BY DEF StartInv, Owed
<1>3. ReturnInv' /\ ExitExplained' /\ LostOnlyAfterSignal'
  BY DEF ReturnInv, ExitExplained, LostOnlyAfterSignal
<1>4. ContextsInv'
  BY NoContextsHave DEF ContextsInv, LoopTypeOK
<1>. QED  BY <1>1, <1>2, <1>3, <1>4

LEMMA RunDeferredStep ==
    ASSUME LoopInv, RunDeferred
    PROVE  LoopInv'
<1>. USE DEF LoopInv, RunDeferred, BeforeLoop, InLoop
<1>1. LoopTypeOK'
  BY FrontFacts DEF LoopTypeOK, Shutdown
<1>2. StartInv'
  BY DEF StartInv, Shutdown
<1>3. ReturnInv'
  <2>1. CASE Last(deferred) = "shutdown"
    BY <2>1 DEF StartInv, ReturnInv, Shutdown, maxSleep
  <2>2. CASE Last(deferred) # "shutdown"
    <3>1. Owed => Owed'
      BY <2>2, OwedUntilRun
    <3>. QED  BY <2>2, <3>1 DEF ReturnInv, maxSleep
  <2>. QED  BY <2>1, <2>2
<1>4. ExitExplained' /\ LostOnlyAfterSignal'
  BY DEF ExitExplained, LostOnlyAfterSignal
<1>5. ContextsInv'
  BY NoContextsHave DEF ContextsInv, LoopTypeOK
<1>. QED  BY <1>1, <1>2, <1>3, <1>4, <1>5

LEMMA EndStep ==
    ASSUME LoopInv, End
    PROVE  LoopInv'
<1>. USE DEF LoopInv, End, Exit, BeforeLoop, InLoop
<1>0. ~Owed
  BY DEF Owed
<1>1. LoopTypeOK'
  BY DEF LoopTypeOK
<1>2. StartInv' /\ ReturnInv'
  BY DEF StartInv, ReturnInv
<1>3. LostOnlyAfterSignal'
  BY <1>0 DEF LostOnlyAfterSignal, ReturnInv
<1>4. maxSleep <= 0 => env.number /\ env.value \in -(2^(IntBits - 1)) .. 0
  BY NotPositive DEF LoopTypeOK
<1>5. ExitExplained'
  <2>1. CASE panicking
    <3>1. code' = 2
      BY <2>1
    <3>2. maxSleep <= 0 \/ (signalled /\ production /\ ~telemetry)
      BY <2>1 DEF ReturnInv
    <3>. QED  BY <1>4, <3>1, <3>2 DEF ExitExplained
  <2>2. CASE ~panicking
    BY <1>0, <2>2 DEF ExitExplained, ReturnInv
  <2>. QED  BY <2>1, <2>2
<1>6. ContextsInv'
  BY NoContextsHave DEF ContextsInv, LoopTypeOK
<1>. QED  BY <1>1, <1>2, <1>3, <1>5, <1>6

LEMMA TickStep ==
    ASSUME LoopInv, Tick
    PROVE  LoopInv'
<1>. USE DEF LoopInv, Tick, BeforeLoop, InLoop
<1>1. \A ticks \in 1 .. CallTimeout :
         contexts'[ticks] = IF ticks < CallTimeout THEN contexts[ticks + 1] ELSE 0
  OBVIOUS
<1>2. \A ticks \in 1 .. CallTimeout : ticks < CallTimeout => ticks + 1 \in 1 .. CallTimeout
  BY LoopAssumption
<1>3. LoopTypeOK'
  BY <1>2 DEF LoopTypeOK
<1>4. StartInv'
  BY DEF StartInv, Owed
<1>5. ReturnInv' /\ ExitExplained' /\ LostOnlyAfterSignal'
  BY DEF ReturnInv, ExitExplained, LostOnlyAfterSignal
<1>6. ContextsInv'
  BY <1>1, <1>2, <1>3, NoContextsHave, LoopAssumption DEF ContextsInv, LoopTypeOK
<1>. QED  BY <1>3, <1>4, <1>5, <1>6

LEMMA SignalStep ==
    ASSUME LoopInv, Signal
    PROVE  LoopInv'
<1>. USE DEF LoopInv, Signal, BeforeLoop, InLoop
<1>1. LoopTypeOK'
  BY NoContextsHave DEF LoopTypeOK
<1>2. StartInv'
  BY DEF StartInv, Owed
<1>3. ReturnInv' /\ ExitExplained' /\ LostOnlyAfterSignal'
  BY DEF ReturnInv, ExitExplained, LostOnlyAfterSignal, Owed, maxSleep
<1>4. ContextsInv'
  BY NoContextsHave DEF ContextsInv, LoopTypeOK
<1>. QED  BY <1>1, <1>2, <1>3, <1>4

LEMMA ExportStep ==
    ASSUME LoopInv, Export
    PROVE  LoopInv'
<1>. USE DEF LoopInv, Export, BeforeLoop, InLoop
<1>1. LoopTypeOK'
  BY DEF LoopTypeOK
<1>2. StartInv'
  BY DEF StartInv, Owed
<1>3. ReturnInv' /\ ExitExplained' /\ LostOnlyAfterSignal'
  BY DEF ReturnInv, ExitExplained, LostOnlyAfterSignal, Owed, maxSleep
<1>4. ContextsInv'
  BY NoContextsHave DEF ContextsInv, LoopTypeOK
<1>. QED  BY <1>1, <1>2, <1>3, <1>4

LEMMA LoopInit == Init => LoopInv
<1>. SUFFICES ASSUME Init PROVE LoopInv
  OBVIOUS
<1>. USE DEF Init, BeforeLoop, InLoop
<1>1. deferred \in Seq(Deferrable)
  BY DEF Deferrable
<1>2. LoopTypeOK
  BY <1>1, NoContextsHave DEF LoopTypeOK
<1>3. StartInv /\ ReturnInv /\ ExitExplained /\ LostOnlyAfterSignal
  BY DEF StartInv, ReturnInv, ExitExplained, LostOnlyAfterSignal
<1>4. ContextsInv
  BY NoContextsHave DEF ContextsInv
<1>. QED  BY <1>2, <1>3, <1>4 DEF LoopInv

LEMMA LoopNext == LoopInv /\ [Next]_vars => LoopInv'
<1>. SUFFICES ASSUME LoopInv, [Next]_vars PROVE LoopInv'
  OBVIOUS
<1>1. CASE Configure
  BY <1>1, ConfigureStep
<1>2. CASE InitTelemetry
  BY <1>2, InitTelemetryStep
<1>3. CASE Connect
  BY <1>3, ConnectStep
<1>4. CASE Done
  BY <1>4, DoneStep
<1>5. CASE Call
  BY <1>5, CallStep
<1>6. CASE \E ok \in BOOLEAN : Return(ok)
  BY <1>6, ReturnStep
<1>7. CASE Pause
  BY <1>7, PauseStep
<1>8. CASE Wake
  BY <1>8, WakeStep
<1>9. CASE RunDeferred
  BY <1>9, RunDeferredStep
<1>10. CASE End
  BY <1>10, EndStep
<1>11. CASE Tick
  BY <1>11, TickStep
<1>12. CASE Signal
  BY <1>12, SignalStep
<1>13. CASE Export
  BY <1>13, ExportStep
<1>14. CASE UNCHANGED vars
  <2>. USE <1>14 DEF vars, LoopInv
  <2>1. LoopTypeOK' /\ StartInv'
    BY DEF LoopTypeOK, StartInv, Owed
  <2>2. ReturnInv' /\ ExitExplained' /\ LostOnlyAfterSignal'
    BY DEF ReturnInv, Owed, maxSleep, ExitExplained, LostOnlyAfterSignal
  <2>3. ContextsInv'
    BY DEF ContextsInv
  <2>. QED  BY <2>1, <2>2, <2>3
<1>. QED
  BY <1>1, <1>2, <1>3, <1>4, <1>5, <1>6, <1>7, <1>8, <1>9, <1>10, <1>11, <1>12, <1>13, <1>14
  DEF Next, Main

---------------------------------------------------------------------------
(* ContextsBounded                                                         *)

LEMMA ContextsFew == LoopInv => ContextsBounded
<1>. SUFFICES ASSUME LoopInv PROVE ContextsBounded
  OBVIOUS
<1>1. \A ticks \in 1 .. CallTimeout : contexts[ticks] <= 1
  BY DEF LoopInv, ContextsInv
<1>2. kind = "grpc" /\ pc # "call" => contexts = NoContexts
  BY DEF LoopInv, ContextsInv, LoopTypeOK, NoContexts
<1>. QED  BY <1>1, <1>2 DEF ContextsBounded

---------------------------------------------------------------------------
(* The loop within the process                                             *)

\* Every step of the process is one of the loop, or leaves it alone.
LEMMA ProcessSteps == [ProcessNext]_allVars => [Next]_vars
<1>. SUFFICES ASSUME [ProcessNext]_allVars, ~(UNCHANGED vars) PROVE Next
  OBVIOUS
<1>1. CASE MainStep
  BY <1>1 DEF MainStep, MainCall, MainReturn, Around, Next, Main
<1>2. CASE Time \/ World
  BY <1>2 DEF Time, World, Next
<1>. QED  BY <1>1, <1>2 DEF ProcessNext, OtherStart, Exchange, allVars

\* The process implements the loop of ClientLoops but for its fairness: a call
\* takes the steps of Do and brings the loop none that main does not have.
THEOREM LoopWithin == ProcessSpec => Init /\ [][Next]_vars
<1>1. ProcessInit => Init
  BY DEF ProcessInit
<1>. QED  BY <1>1, ProcessSteps, PTL DEF ProcessSpec

\* main of both clients, whatever the calls do.
LEMMA LoopIsKept == ProcessSpec => []LoopInv
<1>1. ProcessInit => LoopInv
  BY LoopInit DEF ProcessInit
<1>2. LoopInv /\ [ProcessNext]_allVars => LoopInv'
  BY LoopNext, ProcessSteps
<1>. QED  BY <1>1, <1>2, PTL DEF ProcessSpec

\* ContextsBounded: the contexts that http-client does not cancel never pile
\* up, since no two of them have the same time left.
THEOREM ContextsStayFew == ProcessSpec => []ContextsBounded
  BY LoopIsKept, ContextsFew, PTL

\* ExitExplained: each exit code of the two clients has one of its causes.
THEOREM ExitsExplained == ProcessSpec => []ExitExplained
<1>1. LoopInv => ExitExplained
  BY DEF LoopInv
<1>. QED  BY <1>1, LoopIsKept, PTL

\* LostOnlyAfterSignal: without a signal no ended span is lost at the exit.
THEOREM SpansKept == ProcessSpec => []LostOnlyAfterSignal
<1>1. LoopInv => LostOnlyAfterSignal
  BY DEF LoopInv
<1>. QED  BY <1>1, LoopIsKept, PTL

---------------------------------------------------------------------------
(* The options of a call                                                   *)

\* What Do is given: a body that has a length, and the caller's own headers.
Given(o) == o.body.length \in Nat /\ \A key \in DOMAIN o.headers : o.headers[key] = "user"

LEMMA BaseGiven ==
    ASSUME NEW m, NEW u, NEW b, b.length \in Nat
    PROVE  /\ Given(H!Base(m, u, b))
           /\ DOMAIN H!Base(m, u, b) = {"method", "url", "body", "headers", "query", "timeout", "ctx"}
           /\ H!Base(m, u, b).headers = H!Empty
  BY DEF Given, H!Base, H!Empty

LEMMA NothingIsLess ==
    ASSUME NEW n \in Nat
    PROVE  0 <= n
  OBVIOUS

LEMMA BodiesHaveLength ==
    ASSUME NEW b \in H!Bodies
    PROVE  b.length \in Nat
  BY ClientAssumption DEF H!Bodies, H!NoBody

\* The headers of the caller, merged into none, are the caller's.
LEMMA MergeGiven ==
    ASSUME NEW v \in H!Verbs, NEW o \in H!Overrides
    PROVE  Given(H!Merge(v, o))
<1>1. PICK m, u, b : v = H!Base(m, u, b) /\ b.length \in Nat
  BY BodiesHaveLength DEF H!Verbs, H!NoBody
<1>2. o.body.length \in Nat /\ \A key \in DOMAIN o.headers : o.headers[key] = "user"
  <2>1. o.body.length \in Nat /\ o.headers \in H!Maps("user")
    <3>1. o.body \in {H!NoBody, [kind |-> "bytes", length |-> MaxLength]} /\ o.headers \in H!Maps("user")
      BY DEF H!Overrides
    <3>. QED  BY <3>1, ClientAssumption DEF H!NoBody
  <2>2. PICK K \in SUBSET Keys : o.headers \in [K -> {"user"}]
    BY <2>1 DEF H!Maps
  <2>. QED  BY <2>1, <2>2
<1>3. H!Merge(v, o).body \in {v.body, o.body}
  BY <1>1, BaseGiven DEF H!Merge
<1>4. H!Merge(v, o).headers = H!Over(o.headers, v.headers)
  BY <1>1, BaseGiven DEF H!Merge
<1>5. Given(v) /\ v.headers = H!Empty
  BY <1>1, BaseGiven
<1>6. DOMAIN v.headers = {}
  BY <1>5 DEF H!Empty
<1>7. \A key \in DOMAIN H!Over(o.headers, v.headers) : H!Over(o.headers, v.headers)[key] = "user"
  BY <1>2, <1>6 DEF H!Over
<1>. QED  BY <1>2, <1>3, <1>4, <1>5, <1>7 DEF Given

---------------------------------------------------------------------------
(* The steps of a call                                                     *)

LEMMA BeginStep ==
    ASSUME CallInv, NEW o, NEW k, Given(o), H!Begin(o, k)
    PROVE  CallInv'
<1>. USE DEF CallInv, H!Begin
<1>1. CallTypeOK'
  BY DEF CallTypeOK, Given
<1>2. BodyInv'
  BY DEF BodyInv, CallTypeOK, Given
<1>3. HeadersInv'
  BY DEF HeadersInv, H!Logged, H!Sent, H!Traced, H!SetHeaders
<1>4. OutcomeTrue'
  BY DEF OutcomeTrue, H!OutcomeTrue, BodyInv
<1>. QED  BY <1>1, <1>2, <1>3, <1>4

LEMMA ExchangeStep ==
    ASSUME CallInv, H!Transfer \/ H!Break \/ H!Answer \/ H!Cut \/ H!Parse \/ H!Tick
    PROVE  CallInv'
<1>. USE DEF CallInv
<1>0. opts' = opts /\ client' = client /\ header' = header /\ logged' = logged /\ at # "idle"
  BY DEF H!Transfer, H!Break, H!Answer, H!Cut, H!Parse, H!Tick, H!Fail
<1>1. HeadersInv'
  <2>1. at' \in {"sending", "reading"} => at \in {"sending", "reading"}
    BY DEF H!Transfer, H!Break, H!Answer, H!Cut, H!Parse, H!Tick, H!Fail
  <2>. QED  BY <1>0, <2>1 DEF HeadersInv, H!Logged, H!Sent, H!Traced, H!SetHeaders
<1>2. H!Readable \in Nat /\ H!Readable <= opts.body.length
  BY ClientAssumption DEF CallTypeOK, H!Readable
<1>3. CASE H!Transfer
  BY <1>0, <1>1, <1>2, <1>3 DEF H!Transfer, CallTypeOK, BodyInv, OutcomeTrue, H!OutcomeTrue
<1>4. CASE H!Break
  BY <1>0, <1>1, <1>4 DEF H!Break, H!Fail, CallTypeOK, BodyInv, OutcomeTrue, H!OutcomeTrue
<1>5. CASE H!Answer
  <2>. USE <1>5 DEF H!Answer
  <2>1. received < opts.body.length \/ received = opts.body.length
    BY DEF CallTypeOK, BodyInv
  <2>2. early' = (received < opts.body.length)
    BY DEF H!ContentLength
  <2>3. early' \/ received = opts.body.length
    BY <2>1, <2>2, Zenon
  <2>. QED  BY <1>0, <1>1, <2>3 DEF CallTypeOK, BodyInv, OutcomeTrue, H!OutcomeTrue
<1>6. CASE H!Cut
  BY <1>0, <1>1, <1>6 DEF H!Cut, H!Fail, CallTypeOK, BodyInv, OutcomeTrue, H!OutcomeTrue
<1>7. CASE H!Parse
  <2>. USE <1>7 DEF H!Parse
  <2>1. CallTypeOK' /\ BodyInv'
    BY <1>0 DEF CallTypeOK, BodyInv
  <2>2. H!Parsed = "error" => result' = H!Untouched \/ into # "Response"
    <3>. SUFFICES ASSUME H!Parsed = "error", into = "Response" PROVE result' = H!Untouched
      OBVIOUS
    <3>1. result' \in {H!Untouched} \cup (IF into = "other" THEN {[H!Untouched EXCEPT !.data = "partial"]} ELSE {})
      OBVIOUS
    <3>. QED  BY <3>1
  <2>3. OutcomeTrue'
    BY <1>0, <2>2 DEF BodyInv, H!Parsed, OutcomeTrue, H!OutcomeTrue
  <2>. QED  BY <1>1, <2>1, <2>3
<1>8. CASE H!Tick
  BY <1>0, <1>1, <1>8 DEF H!Tick, CallTypeOK, BodyInv, OutcomeTrue, H!OutcomeTrue
<1>. QED  BY <1>3, <1>4, <1>5, <1>6, <1>7, <1>8

LEMMA MainReturnStep ==
    ASSUME CallInv, MainReturn
    PROVE  CallInv'
<1>. USE DEF CallInv
<1>1. CASE kind = "http"
  <2>. USE <1>1
  <2>0. /\ at = "done" /\ at' = "idle" /\ err' = "none" /\ opts' = H!Base("", "", H!NoBody)
        /\ received' = 0 /\ result' = H!Untouched /\ client' = client /\ bodyOpen' = bodyOpen
    BY Zenon DEF MainReturn
  <2>1. Given(H!Base("", "", H!NoBody))
    BY BaseGiven DEF H!NoBody
  <2>2. CallTypeOK'
    BY <2>0, <2>1 DEF CallTypeOK, Given
  <2>5. opts'.body.length \in Nat
    BY <2>2 DEF CallTypeOK
  <2>6. received' <= opts'.body.length
    BY <2>0, <2>5, NothingIsLess, Zenon
  <2>3. BodyInv'
    BY <2>0, <2>6 DEF BodyInv, OutcomeTrue, H!OutcomeTrue
  <2>4. HeadersInv' /\ OutcomeTrue'
    BY <2>0 DEF HeadersInv, OutcomeTrue, H!OutcomeTrue
  <2>. QED  BY <2>2, <2>3, <2>4
<1>2. CASE kind # "http"
  BY <1>2 DEF MainReturn, httpVars, CallTypeOK, BodyInv, HeadersInv, OutcomeTrue, H!OutcomeTrue,
              H!Logged, H!Sent, H!Traced, H!SetHeaders
<1>. QED  BY <1>1, <1>2

LEMMA CallStutters ==
    ASSUME CallInv, UNCHANGED httpVars
    PROVE  CallInv'
<1>. USE DEF CallInv, httpVars
<1>1. CallTypeOK' /\ BodyInv'
  BY DEF CallTypeOK, BodyInv
<1>2. HeadersInv'
  BY DEF HeadersInv, H!Logged, H!Sent, H!Traced, H!SetHeaders
<1>3. OutcomeTrue'
  BY DEF OutcomeTrue, H!OutcomeTrue
<1>. QED  BY <1>1, <1>2, <1>3

LEMMA CallInit == ProcessInit => CallInv
<1>. SUFFICES ASSUME ProcessInit PROVE CallInv
  OBVIOUS
<1>. USE DEF ProcessInit, H!Init
<1>1. Given(opts)
  BY BaseGiven DEF H!NoBody
<1>2. CallTypeOK
  BY <1>1 DEF CallTypeOK, Given
<1>3. opts.body.length \in Nat /\ received = 0
  BY <1>1 DEF Given
<1>5. received <= opts.body.length
  BY <1>3, NothingIsLess, Zenon
<1>6. BodyInv
  BY <1>5 DEF BodyInv
<1>4. HeadersInv /\ OutcomeTrue
  BY DEF HeadersInv, OutcomeTrue, H!OutcomeTrue
<1>. QED  BY <1>2, <1>4, <1>6 DEF CallInv

LEMMA CallNext == CallInv /\ [ProcessNext]_allVars => CallInv'
<1>. SUFFICES ASSUME CallInv, [ProcessNext]_allVars PROVE CallInv'
  OBVIOUS
<1>1. CASE OtherStart
  <2>1. PICK v \in H!Verbs, o \in H!Overrides, k \in H!ResultKinds : H!Begin(H!Merge(v, o), k)
    BY <1>1 DEF OtherStart, H!Start
  <2>. QED  BY <2>1, MergeGiven, BeginStep
<1>2. CASE MainCall
  <2>1. CASE kind = "http"
    <3>1. PICK url \in {"good", "bad"} :
             H!Begin([H!Base("GET", url, H!NoBody) EXCEPT !.ctx = CallTimeout], "Response")
      BY <1>2, <2>1 DEF MainCall
    <3>2. Given([H!Base("GET", url, H!NoBody) EXCEPT !.ctx = CallTimeout])
      BY DEF Given, H!Base, H!NoBody, H!Empty
    <3>. QED  BY <3>1, <3>2, BeginStep
  <2>2. CASE kind # "http"
    BY <1>2, <2>2, CallStutters DEF MainCall
  <2>. QED  BY <2>1, <2>2
<1>3. CASE MainReturn
  BY <1>3, MainReturnStep
<1>4. CASE Around \/ World \/ UNCHANGED allVars
  BY <1>4, CallStutters DEF Around, World, allVars, httpVars
<1>5. CASE Exchange
  BY <1>5, ExchangeStep DEF Exchange
<1>6. CASE Time
  BY <1>6, ExchangeStep, CallStutters DEF Time
<1>. QED  BY <1>1, <1>2, <1>3, <1>4, <1>5, <1>6 DEF ProcessNext, MainStep

---------------------------------------------------------------------------
(* What is sent                                                            *)

\* Over, key by key.
LEMMA OverHas ==
    ASSUME NEW f, NEW g, NEW key
    PROVE  /\ key \in DOMAIN H!Over(f, g) <=> key \in DOMAIN f \/ key \in DOMAIN g
           /\ key \in DOMAIN f => H!Over(f, g)[key] = f[key]
           /\ key \notin DOMAIN f /\ key \in DOMAIN g => H!Over(f, g)[key] = g[key]
  BY DEF H!Over

LEMMA OneHas ==
    ASSUME NEW x, NEW y
    PROVE  DOMAIN H!One(x, y) = {x} /\ H!One(x, y)[x] = y
  BY DEF H!One

\* One call of setHeaders: the headers it is given, then the client's
\* defaults, then what the request has, and the content type last.
LEMMA SetHeadersHas ==
    ASSUME NEW h, NEW headers, NEW bdy, NEW key
    PROVE  LET set == H!SetHeaders(h, headers, bdy) IN
           /\ key \in DOMAIN set <=> \/ key \in DOMAIN headers \/ key \in DOMAIN client.headers
                                     \/ key \in DOMAIN h \/ (key = "Content-Type" /\ bdy # H!NoBody)
           /\ key \in DOMAIN headers => set[key] = headers[key]
           /\ key \notin DOMAIN headers =>
                 /\ key \in DOMAIN client.headers => set[key] = client.headers[key]
                 /\ key \notin DOMAIN client.headers =>
                       /\ key \in DOMAIN h => set[key] = h[key]
                       /\ key \notin DOMAIN h /\ key \in DOMAIN set => set[key] = "json"
<1>. DEFINE content == IF bdy # H!NoBody THEN H!One("Content-Type", "json") ELSE H!Empty
            defaulted == H!Over(client.headers, h)
            mine == H!Over(headers, defaulted)
            set == H!SetHeaders(h, headers, bdy)
<1>1. set = H!Over(mine, content)
  BY DEF H!SetHeaders
<1>2. /\ key \in DOMAIN content <=> key = "Content-Type" /\ bdy # H!NoBody
      /\ key \in DOMAIN content => content[key] = "json"
  <2>1. CASE bdy = H!NoBody
    <3>1. content = H!Empty
      BY <2>1
    <3>2. DOMAIN content = {}
      BY <3>1 DEF H!Empty
    <3>. HIDE DEF content
    <3>. QED  BY <2>1, <3>2
  <2>2. CASE bdy # H!NoBody
    <3>1. content = H!One("Content-Type", "json")
      BY <2>2
    <3>2. DOMAIN content = {"Content-Type"} /\ content["Content-Type"] = "json"
      BY <3>1, OneHas
    <3>. HIDE DEF content
    <3>. QED  BY <2>2, <3>2
  <2>. QED  BY <2>1, <2>2
<1>3. /\ key \in DOMAIN defaulted <=> key \in DOMAIN client.headers \/ key \in DOMAIN h
      /\ key \in DOMAIN client.headers => defaulted[key] = client.headers[key]
      /\ key \notin DOMAIN client.headers /\ key \in DOMAIN h => defaulted[key] = h[key]
  BY OverHas
<1>. HIDE DEF content, defaulted
<1>4. /\ key \in DOMAIN mine <=> key \in DOMAIN headers \/ key \in DOMAIN defaulted
      /\ key \in DOMAIN headers => mine[key] = headers[key]
      /\ key \notin DOMAIN headers /\ key \in DOMAIN defaulted => mine[key] = defaulted[key]
  BY OverHas
<1>. HIDE DEF mine
<1>5. /\ key \in DOMAIN set <=> key \in DOMAIN mine \/ key \in DOMAIN content
      /\ key \in DOMAIN mine => set[key] = mine[key]
      /\ key \notin DOMAIN mine /\ key \in DOMAIN content => set[key] = content[key]
  BY <1>1, OverHas
<1>. HIDE DEF set
<1>6. /\ key \in DOMAIN set <=> \/ key \in DOMAIN headers \/ key \in DOMAIN client.headers
                                \/ key \in DOMAIN h \/ (key = "Content-Type" /\ bdy # H!NoBody)
      /\ key \in DOMAIN headers => set[key] = headers[key]
      /\ key \notin DOMAIN headers =>
            /\ key \in DOMAIN client.headers => set[key] = client.headers[key]
            /\ key \notin DOMAIN client.headers =>
                  /\ key \in DOMAIN h => set[key] = h[key]
                  /\ key \notin DOMAIN h /\ key \in DOMAIN set => set[key] = "json"
  BY <1>2, <1>3, <1>4, <1>5
<1>. QED  BY <1>6 DEF set

LEMMA HeadersSent == CallInv => HeaderPrecedence
<1>. SUFFICES ASSUME CallInv, at \in {"sending", "reading"},
                     NEW k \in Keys \cup {"Traceparent", "X-Trace-Id", "Content-Type"}
              PROVE  LET callers == DOMAIN opts.headers
                         defaults == DOMAIN client.headers
                         computed == {"Traceparent", "X-Trace-Id"}
                                     \cup (IF opts.body # H!NoBody THEN {"Content-Type"} ELSE {})
                     IN IF k \in callers \cup defaults \cup computed
                        THEN /\ k \in DOMAIN header
                             /\ header[k] = IF k \in callers THEN "user" ELSE IF k \in defaults THEN "default"
                                            ELSE IF k = "Content-Type" THEN "json" ELSE "span"
                             /\ k \in callers \/ (k = "X-Trace-Id" /\ k \in defaults)
                                   \/ (k \in DOMAIN logged /\ logged[k] = header[k])
                        ELSE k \notin DOMAIN header
  BY DEF HeaderPrecedence, H!HeaderPrecedence
<1>. DEFINE parent == H!One("Traceparent", "span")
            trace == H!One("X-Trace-Id", "span")
            callers == DOMAIN opts.headers
            defaults == DOMAIN client.headers
            typed == k = "Content-Type" /\ opts.body # H!NoBody
<1>1. logged = H!SetHeaders(parent, trace, opts.body) /\ header = H!SetHeaders(logged, opts.headers, opts.body)
  BY DEF CallInv, HeadersInv, H!Logged, H!Sent, H!Traced
<1>2. /\ DOMAIN parent = {"Traceparent"} /\ (k \in DOMAIN parent => parent[k] = "span")
      /\ DOMAIN trace = {"X-Trace-Id"} /\ (k \in DOMAIN trace => trace[k] = "span")
  <2>1. DOMAIN parent = {"Traceparent"} /\ parent["Traceparent"] = "span"
    BY OneHas
  <2>2. DOMAIN trace = {"X-Trace-Id"} /\ trace["X-Trace-Id"] = "span"
    BY OneHas
  <2>. HIDE DEF parent, trace
  <2>. QED  BY <2>1, <2>2
<1>3. k \in defaults => client.headers[k] = "default"
  <2>1. PICK K \in SUBSET Keys : client.headers \in [K -> {"default"}]
    BY DEF CallInv, CallTypeOK, H!Maps
  <2>. QED  BY <2>1
<1>4. k \in callers => opts.headers[k] = "user"
  BY DEF CallInv, CallTypeOK
<1>. HIDE DEF parent, trace
<1>5. /\ k \in DOMAIN logged <=> k = "X-Trace-Id" \/ k \in defaults \/ k = "Traceparent" \/ typed
      /\ k = "X-Trace-Id" => logged[k] = "span"
      /\ k # "X-Trace-Id" /\ k \in defaults => logged[k] = "default"
      /\ k # "X-Trace-Id" /\ k \notin defaults /\ k = "Traceparent" => logged[k] = "span"
      /\ k # "X-Trace-Id" /\ k \notin defaults /\ k # "Traceparent" /\ k \in DOMAIN logged => logged[k] = "json"
  BY <1>1, <1>2, <1>3, SetHeadersHas
<1>6. /\ k \in DOMAIN header <=> k \in callers \/ k \in defaults \/ k \in DOMAIN logged \/ typed
      /\ k \in callers => header[k] = "user"
      /\ k \notin callers /\ k \in defaults => header[k] = "default"
      /\ k \notin callers /\ k \notin defaults /\ k \in DOMAIN logged => header[k] = logged[k]
  BY <1>1, <1>3, <1>4, SetHeadersHas
<1>. QED  BY <1>5, <1>6

---------------------------------------------------------------------------
(* The calls within the process                                            *)

\* A call, whoever makes it.
LEMMA CallIsKept == ProcessSpec => []CallInv
<1>. QED  BY CallInit, CallNext, PTL DEF ProcessSpec

\* HeaderPrecedence: of the caller's headers, the client's defaults and what Do
\* computes, the first that has a key decides what is sent, and the record made
\* between the two calls of setHeaders agrees with it but where it says so.
THEOREM HeadersOrdered == ProcessSpec => []HeaderPrecedence
  BY CallIsKept, HeadersSent, PTL

\* OutcomeTrue: a call that succeeds had its whole body sent or an answer ahead
\* of it, a failed one leaves a Response untouched, and the body is closed.
THEOREM OutcomesTrue == ProcessSpec => []OutcomeTrue
<1>1. CallInv => OutcomeTrue
  BY DEF CallInv
<1>. QED  BY <1>1, CallIsKept, PTL
=============================================================================
