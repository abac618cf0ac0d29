------------------------- MODULE BalancedClientProofs -------------------------
(***************************************************************************)
(* Proofs about BalancedClient for any set of address lists.               *)
(***************************************************************************)
EXTENDS BalancedClient, TLAPS

\* The watcher's own counter is the count the property is about, and it is back
\* below the threshold whenever the watcher is not about to force a reconnect.
WatcherInv ==
    /\ consecutiveFail = failures
    /\ ForcedByThree

\* While the worker is between connections it holds none; otherwise it holds
\* one exactly if the target is acceptable, and calls only then.
ConnInv ==
    /\ open = IF conn = "open" THEN 1 ELSE 0
    /\ conn = "open" => targetOK
    /\ client => targetOK
    /\ worker \in {"connect", "done"} => conn # "open"
    /\ worker \in {"select", "rpc", "sleep"} /\ targetOK => conn = "open"
    /\ worker = "rpc" => client

Inv == TypeOK /\ NoLostNotification /\ WatcherInv /\ ConnInv

LEMMA InitInv == Init => Inv
<1> SUFFICES ASSUME Init PROVE Inv
  OBVIOUS
<1>1. TypeOK
  <2>1. production \in BOOLEAN /\ targetOK \in BOOLEAN /\ cancelled \in BOOLEAN /\ client \in BOOLEAN
    BY Zenon DEF Init
  <2>2. /\ main = "wait" /\ watcher = "check" /\ lastHash = NoHash /\ consecutiveFail = 0
        /\ failures = 0 /\ notify = 0 /\ owed = 0 /\ worker = "connect" /\ conn = "nil" /\ open = 0
    BY Zenon DEF Init
  <2> QED
    BY <2>1, <2>2 DEF TypeOK, Capacity, Threshold
<1>2. NoLostNotification
  BY DEF Init, NoLostNotification, Sending, Capacity
<1>3. WatcherInv
  BY DEF Init, WatcherInv, ForcedByThree, Threshold
<1>4. ConnInv
  <2>1. open = 0 /\ conn = "nil" /\ worker = "connect"
    BY DEF Init
  <2>2. ~client
    BY Zenon DEF Init
  <2> QED
    BY <2>1, <2>2 DEF ConnInv
<1> QED
  BY <1>1, <1>2, <1>3, <1>4 DEF Inv

\* The watcher's steps.
LEMMA WatcherStep == Inv /\ Watcher => Inv'
<1> SUFFICES ASSUME Inv, Watcher PROVE Inv'
  OBVIOUS
<1> USE DEF Inv, TypeOK, NoLostNotification, WatcherInv, ForcedByThree, Sending, Capacity,
            Threshold, fixed, workerVars
<1>1. ConnInv'
  BY DEF Watcher, WatcherCheck, LookupFails, LookupSucceeds, Send, AfterSend, WatcherWake, ConnInv
<1>2. CASE WatcherCheck
  BY <1>1, <1>2 DEF WatcherCheck
<1>3. CASE LookupFails
  BY <1>1, <1>3 DEF LookupFails
<1>4. CASE LookupSucceeds
  BY <1>1, <1>4 DEF LookupSucceeds
<1>5. CASE Send
  BY <1>1, <1>5 DEF Send, AfterSend
<1>6. CASE WatcherWake
  BY <1>1, <1>6 DEF WatcherWake
<1> QED
  BY <1>2, <1>3, <1>4, <1>5, <1>6 DEF Watcher

\* The worker's steps.
LEMMA WorkerStep == Inv /\ Worker => Inv'
<1> SUFFICES ASSUME Inv, Worker PROVE Inv'
  OBVIOUS
<1> USE DEF Inv, TypeOK, NoLostNotification, Capacity, fixed, watcherVars
<1>1. WatcherInv'
  BY DEF Worker, Connect, WorkerReturn, Receive, Idle, CallReturns, WorkerWake, WatcherInv,
     ForcedByThree
<1>2. CASE Connect
  <2>1. /\ UNCHANGED <<production, targetOK, main, cancelled, watcher, lastHash, consecutiveFail,
                       failures, notify, owed>>
        /\ worker = "connect" /\ worker' = "select"
    BY <1>2 DEF Connect
  <2>2. CASE targetOK
    <3>1. conn' = "open" /\ open' = open + 1
      BY <1>2, <2>2 DEF Connect
    <3>2. client' \in BOOLEAN
      BY <1>2, <2>2, Zenon DEF Connect
    <3> QED
      BY <1>1, <2>1, <2>2, <3>1, <3>2 DEF ConnInv
  <2>3. CASE ~targetOK
    <3>1. conn' = "nil" /\ client' = client /\ open' = open
      BY <1>2, <2>3, Zenon DEF Connect
    <3> QED
      BY <1>1, <2>1, <2>3, <3>1 DEF ConnInv
  <2> QED
    BY <2>2, <2>3
<1>3. CASE WorkerReturn
  BY <1>1, <1>3 DEF WorkerReturn, Disconnect, ConnInv
<1>4. CASE Receive
  BY <1>1, <1>4 DEF Receive, Disconnect, ConnInv
<1>5. CASE Idle
  BY <1>1, <1>5 DEF Idle, ConnInv
<1>6. CASE CallReturns \/ WorkerWake
  BY <1>1, <1>6 DEF CallReturns, WorkerWake, ConnInv
<1> QED
  BY <1>2, <1>3, <1>4, <1>5, <1>6 DEF Worker

LEMMA NextInv == Inv /\ [Next]_vars => Inv'
<1> SUFFICES ASSUME Inv, [Next]_vars PROVE Inv'
  OBVIOUS
<1> USE DEF Inv, TypeOK, fixed, watcherVars, workerVars
<1>1. CASE Signal \/ MainDone \/ MainReturns \/ UNCHANGED vars
  <2>1. UNCHANGED <<fixed, watcherVars, notify, workerVars, owed>>
    BY <1>1 DEF Signal, MainDone, MainReturns, vars
  <2>2. TypeOK'
    <3>1. cancelled' \in BOOLEAN
      BY <1>1, Zenon DEF Signal, MainDone, MainReturns, vars
    <3>2. main' \in {"wait", "grace", "exited"}
      BY <1>1 DEF Signal, MainDone, MainReturns, vars
    <3> QED
      BY <2>1, <3>1, <3>2
  <2>3. NoLostNotification' /\ WatcherInv'
    BY <2>1 DEF NoLostNotification, WatcherInv, ForcedByThree
  <2>4. ConnInv'
    BY <2>1 DEF ConnInv
  <2> QED
    BY <2>2, <2>3, <2>4
<1> QED
  BY <1>1, WatcherStep, WorkerStep DEF Next

LEMMA SpecInv == Spec => []Inv
  BY InitInv, NextInv, PTL DEF Spec

\* Every detection leads to exactly one reconnect; at most two are pending.
THEOREM NotificationsKept == Spec => []NoLostNotification
<1>1. Inv => NoLostNotification
  BY DEF Inv
<1> QED
  BY SpecInv, <1>1, PTL

\* Three failed lookups in a row, and only they, force a reconnect.
THEOREM ThresholdExact == Spec => []ForcedByThree
<1>1. Inv => ForcedByThree
  BY DEF Inv, WatcherInv
<1> QED
  BY SpecInv, <1>1, PTL

\* The client holds at most one connection, calls only over an open one, and its
\* worker leaves none behind.
THEOREM ConnectionsKept == Spec => []OneConnection
<1>1. Inv => OneConnection
  BY DEF Inv, ConnInv, OneConnection
<1> QED
  BY SpecInv, <1>1, PTL

\* Type correctness, the capacity of the channel and the failure counter included.
THEOREM TypeCorrect == Spec => []TypeOK
<1>1. Inv => TypeOK
  BY DEF Inv
<1> QED
  BY SpecInv, <1>1, PTL
===============================================================================
