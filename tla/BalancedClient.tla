---------------------------- MODULE BalancedClient ----------------------------
(***************************************************************************)
(* cmd/grpc-client-balanced: a client that follows the pods behind a       *)
(* headless service.  Three goroutines share a context, which a signal     *)
(* cancels, and "notify", a channel of capacity one.  The watcher looks up *)
(* the addresses again and again and sends on the channel when they have   *)
(* changed or when three lookups in a row have failed; the worker calls    *)
(* the server and replaces its connection when it receives; main waits for *)
(* the signal and ends the process.                                        *)
(***************************************************************************)
EXTENDS Integers

CONSTANTS
    Hashes,     \* hashes of the sorted address lists DNS can answer with
    NoHash      \* the empty string lastHash starts with

ASSUME BalancedAssumption == NoHash \notin Hashes

VARIABLES
    production, \* ENV is "production"
    targetOK,   \* grpc.NewClient accepts the target: it only looks at its syntax
    main,       \* "wait" for the signal, "grace" of 100 ms, "exited"
    cancelled,  \* globalCtx is done
    watcher,    \* where dnsWatcher is
    lastHash,
    consecutiveFail,
    notify,     \* how many notifications the channel holds
    worker,     \* where grpcWorker is
    conn,       \* the ClientConn: "nil", "open" or "closed"
    client,     \* the package variable client is not nil
    open,       \* how many ClientConns have been opened and not closed
    owed,       \* detections for which the worker has not yet reconnected
    failures    \* failed lookups since a success or a forced reconnect

watcherVars == <<watcher, lastHash, consecutiveFail, failures>>
workerVars == <<worker, conn, client, open>>
fixed == <<production, targetOK>>
vars == <<fixed, main, cancelled, watcherVars, notify, workerVars, owed>>

Capacity == 1       \* make(chan struct{}, 1)
Threshold == 3      \* consecutiveFail >= 3

Running == main # "exited"
Sending == {"sendForced", "sendChange"}

Init ==
    /\ production \in BOOLEAN /\ targetOK \in BOOLEAN
    /\ main = "wait" /\ cancelled = FALSE
    /\ watcher = "check" /\ lastHash = NoHash
    /\ consecutiveFail = 0 /\ failures = 0
    /\ notify = 0 /\ owed = 0
    /\ worker = "connect" /\ conn = "nil" /\ client = FALSE /\ open = 0

---------------------------------------------------------------------------
(* dnsWatcher                                                              *)

\* The select at the top of the loop: return when the context is done, else go
\* on.
WatcherCheck ==
    /\ Running
    /\ watcher = "check"
    /\ watcher' = IF cancelled THEN "done" ELSE "resolve"
    /\ UNCHANGED <<fixed, main, cancelled, lastHash, consecutiveFail, failures, notify, workerVars, owed>>

\* The lookup fails; the third failure in a row forces a reconnect.
LookupFails ==
    /\ Running
    /\ watcher = "resolve"
    /\ consecutiveFail' = consecutiveFail + 1
    /\ failures' = failures + 1
    /\ IF consecutiveFail' >= Threshold
       THEN watcher' = "sendForced" /\ owed' = owed + 1
       ELSE watcher' = "sleep" /\ owed' = owed
    /\ UNCHANGED <<fixed, main, cancelled, lastHash, notify, workerVars>>

\* Mutant of LookupSucceeds: consecutiveFail is not reset.
LookupSucceedsNoReset ==
    /\ Running
    /\ watcher = "resolve"
    /\ failures' = 0
    /\ \E newHash \in Hashes :
          /\ IF newHash # lastHash
             THEN watcher' = "sendChange" /\ owed' = owed + 1
             ELSE watcher' = "sleep" /\ owed' = owed
          /\ lastHash' = newHash
    /\ UNCHANGED <<fixed, main, cancelled, consecutiveFail, notify, workerVars>>

\* The lookup succeeds.  The new hash is stored before the worker is told, so a
\* change that is not delivered now would never be noticed again.
LookupSucceeds ==
    /\ Running
    /\ watcher = "resolve"
    /\ consecutiveFail' = 0
    /\ failures' = 0
    /\ \E newHash \in Hashes :
          /\ IF newHash # lastHash
             THEN watcher' = "sendChange" /\ owed' = owed + 1
             ELSE watcher' = "sleep" /\ owed' = owed
          /\ lastHash' = newHash
    /\ UNCHANGED <<fixed, main, cancelled, notify, workerVars>>

\* What follows a send: after a forced reconnect the count starts again.
AfterSend ==
    /\ watcher' = "sleep"
    /\ IF watcher = "sendForced"
       THEN consecutiveFail' = 0 /\ failures' = 0
       ELSE UNCHANGED <<consecutiveFail, failures>>
    /\ UNCHANGED <<fixed, main, cancelled, lastHash, workerVars, owed>>

\* Mutant of Send: "select { case notify <- struct{}{}: default: }".
SendOrDrop ==
    /\ Running
    /\ watcher \in Sending
    /\ notify' = IF notify < Capacity THEN notify + 1 ELSE notify
    /\ AfterSend

\* notify <- struct{}{}: blocks while the channel is full, whatever the context
\* says.
Send ==
    /\ Running
    /\ watcher \in Sending
    /\ notify < Capacity
    /\ notify' = notify + 1
    /\ AfterSend

\* time.Sleep(DNS_RESOLVER_DELAY_MS)
WatcherWake ==
    /\ Running
    /\ watcher = "sleep"
    /\ watcher' = "check"
    /\ UNCHANGED <<fixed, main, cancelled, lastHash, consecutiveFail, failures, notify, workerVars, owed>>

Watcher == WatcherCheck \/ LookupFails \/ LookupSucceeds \/ Send \/ WatcherWake

---------------------------------------------------------------------------
(* grpcWorker                                                              *)

\* connect: a failure leaves conn nil and client as it was.
Connect ==
    /\ Running
    /\ worker = "connect"
    /\ IF targetOK
       THEN conn' = "open" /\ client' = TRUE /\ open' = open + 1
       ELSE conn' = "nil" /\ UNCHANGED <<client, open>>
    /\ worker' = "select"
    /\ UNCHANGED <<fixed, main, cancelled, watcherVars, notify, owed>>

\* disconnect closes the connection conn points to, if there is one.
Disconnect ==
    IF conn = "open" THEN conn' = "closed" /\ open' = open - 1
                     ELSE UNCHANGED <<conn, open>>

\* case <-globalCtx.Done(): with the deferred disconnect.
WorkerReturn ==
    /\ Running
    /\ worker = "select"
    /\ cancelled
    /\ Disconnect
    /\ worker' = "done"
    /\ UNCHANGED <<fixed, main, cancelled, watcherVars, notify, client, owed>>

\* Mutant of Receive: the old connection is not closed.
ReceiveKeepOpen ==
    /\ Running
    /\ worker = "select"
    /\ notify > 0
    /\ notify' = notify - 1
    /\ owed' = owed - 1
    /\ worker' = "connect"
    /\ UNCHANGED <<fixed, main, cancelled, watcherVars, conn, open, client>>

\* case <-notify: disconnect, then connect.  When the context is done as well,
\* select picks either case.
Receive ==
    /\ Running
    /\ worker = "select"
    /\ notify > 0
    /\ notify' = notify - 1
    /\ owed' = owed - 1
    /\ Disconnect
    /\ worker' = "connect"
    /\ UNCHANGED <<fixed, main, cancelled, watcherVars, client>>

\* Mutant of Idle: the loop selects with a default that ignores notify.
IdleFirst ==
    /\ Running
    /\ worker = "select"
    /\ ~cancelled
    /\ worker' = IF client THEN "rpc" ELSE "sleep"
    /\ UNCHANGED <<fixed, main, cancelled, watcherVars, notify, conn, client, open, owed>>

\* default: taken only when no other case is ready.
Idle ==
    /\ Running
    /\ worker = "select"
    /\ ~cancelled /\ notify = 0
    /\ worker' = IF client THEN "rpc" ELSE "sleep"
    /\ UNCHANGED <<fixed, main, cancelled, watcherVars, notify, conn, client, open, owed>>

\* GetAll answers, fails, or runs into its 3 s deadline or the cancelled context.
CallReturns ==
    /\ Running
    /\ worker = "rpc"
    /\ worker' = "sleep"
    /\ UNCHANGED <<fixed, main, cancelled, watcherVars, notify, conn, client, open, owed>>

\* time.Sleep of up to CLIENT_MAX_SLEEP_MS
WorkerWake ==
    /\ Running
    /\ worker = "sleep"
    /\ worker' = "select"
    /\ UNCHANGED <<fixed, main, cancelled, watcherVars, notify, conn, client, open, owed>>

Worker == Connect \/ WorkerReturn \/ Receive \/ Idle \/ CallReturns \/ WorkerWake

---------------------------------------------------------------------------
(* main                                                                    *)

\* SIGINT or SIGTERM
Signal ==
    /\ Running
    /\ ~cancelled
    /\ cancelled' = TRUE
    /\ UNCHANGED <<fixed, main, watcherVars, notify, workerVars, owed>>

\* <-globalCtx.Done(): outside production the process exits at once.
MainDone ==
    /\ main = "wait"
    /\ cancelled
    /\ main' = IF production THEN "grace" ELSE "exited"
    /\ UNCHANGED <<fixed, cancelled, watcherVars, notify, workerVars, owed>>

\* main returns 100 ms later, wherever the goroutines are.
MainReturns ==
    /\ main = "grace"
    /\ main' = "exited"
    /\ UNCHANGED <<fixed, cancelled, watcherVars, notify, workerVars, owed>>

---------------------------------------------------------------------------

Next == Watcher \/ Worker \/ Signal \/ MainDone \/ MainReturns

Spec == Init /\ [][Next]_vars

\* The Go scheduler runs every goroutine that can run; lookups return, RPCs have
\* a deadline and sleeps end.  Nobody need ever send a signal.
Fairness == WF_vars(Watcher) /\ WF_vars(Worker) /\ WF_vars(MainDone) /\ WF_vars(MainReturns)

FairSpec == Spec /\ Fairness

---------------------------------------------------------------------------
(* Properties                                                              *)

TypeOK ==
    /\ production \in BOOLEAN /\ targetOK \in BOOLEAN /\ cancelled \in BOOLEAN
    /\ main \in {"wait", "grace", "exited"}
    /\ watcher \in {"check", "resolve", "sendForced", "sendChange", "sleep", "done"}
    /\ lastHash \in Hashes \cup {NoHash}
    /\ consecutiveFail \in 0 .. Threshold /\ failures \in Nat
    /\ notify \in 0 .. Capacity /\ owed \in Nat
    /\ worker \in {"connect", "select", "rpc", "sleep", "done"}
    /\ conn \in {"nil", "open", "closed"} /\ client \in BOOLEAN
    /\ open \in Nat

\* Every detection, of a change or of three failures, leads to one reconnect:
\* the notifications the worker still owes a reconnect are exactly those on
\* their way to it, and there are never more than two.
NoLostNotification ==
    /\ owed = notify + (IF watcher \in Sending THEN 1 ELSE 0)
    /\ owed <= Capacity + 1

\* Three failed lookups in a row force a reconnect, not fewer and not more, and
\* the next three force the next.
ForcedByThree ==
    /\ failures <= Threshold
    /\ watcher = "sendForced" <=> failures = Threshold

\* However often it reconnects, the client holds at most one connection, never
\* calls over one it has closed, and leaves none behind when its worker returns.
OneConnection ==
    /\ open <= 1
    /\ worker = "rpc" => conn = "open" /\ open = 1
    /\ worker = "done" => open = 0 /\ conn # "open"

\* Before a shutdown a notification is received, and the watcher is never stuck
\* in its send for ever.
Delivered ==
    /\ notify > 0 ~> notify = 0 \/ cancelled
    /\ watcher \in Sending ~> watcher \notin Sending \/ cancelled

\* main.go:274 "Let goroutines finish naturally via context cancellation": in
\* production main does not end the process under a worker that sleeps after a
\* call, with its connection open.
GoroutinesFinish ==
    production /\ main = "exited" => ~(worker = "sleep" /\ open > 0)
===============================================================================
