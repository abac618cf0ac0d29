------------------------------- MODULE RemoteLog -------------------------------
(***************************************************************************)
(* The logger of every process: a record is written to stdout by whoever   *)
(* logs it and posted to the remote log by a goroutine of its own, which   *)
(* waits for at most 5 s, does not try again, and dies with the process.   *)
(* A record is a pair of the goroutine that logs it and a number.          *)
(***************************************************************************)
EXTENDS Naturals, FiniteSetsExt, SequencesExt

CONSTANTS
    Threads,    \* the goroutines that log
    MaxRecords  \* a bound on the records they log

VARIABLES
    uri,       \* REMOTE_LOG_HTTP_URI is set
    running,   \* the process lives
    pc,        \* a logging goroutine: "idle", or "written" within a call
    count,     \* the records it has begun to log
    level,     \* the level of a record
    stdout,    \* the records written to stdout
    sender,    \* the goroutine of a record: "none", "ready", "waiting" or "done"
    request,   \* its request: "none", "sent", "accepted", "refused", "redirected" or "lost"
    noted,     \* the records whose failure was written to stderr
    remote,    \* the records the remote log has accepted, in order
    settled    \* of each record, those whose senders were done when it was logged

vars == <<uri, running, pc, count, level, stdout, sender, request, noted, remote, settled>>

Records == Threads \X (1 .. MaxRecords)

\* debug and info by logger.Debug and the other three; "local" by the
\* slog.Logger itself, as config, telemetry and database do.
Levels == {"debug", "info", "local"}

Init ==
    /\ uri \in BOOLEAN /\ running = TRUE
    /\ pc = [t \in Threads |-> "idle"]
    /\ count = [t \in Threads |-> 0]
    /\ level = [r \in Records |-> "none"]
    /\ stdout = <<>> /\ remote = <<>> /\ noted = {}
    /\ sender = [r \in Records |-> "none"]
    /\ request = [r \in Records |-> "none"]
    /\ settled = [r \in Records |-> {}]

threadVars == <<pc, count, level, stdout, settled>>

---------------------------------------------------------------------------
(* The caller                                                              *)

\* The handler's level is info.
OnStdout(l) == l # "debug"

\* Enriches the record and writes it to stdout, unless its level is too low.
Write(t) ==
    /\ running /\ pc[t] = "idle" /\ MapThenSumSet(LAMBDA u : count[u], Threads) < MaxRecords
    /\ count' = [count EXCEPT ![t] = @ + 1]
    /\ LET r == <<t, count[t] + 1>> IN
       \E l \in Levels :
          /\ level' = [level EXCEPT ![r] = l]
          /\ stdout' = IF OnStdout(l) THEN Append(stdout, r) ELSE stdout
          /\ pc' = IF l = "local" THEN pc ELSE [pc EXCEPT ![t] = "written"]
          /\ settled' = [settled EXCEPT ![r] = {q \in Records : sender[q] = "done"}]
    /\ UNCHANGED <<uri, running, sender, request, noted, remote>>

\* sendLog starts the goroutine and returns.
Spawn(t) ==
    /\ running /\ pc[t] = "written"
    /\ pc' = [pc EXCEPT ![t] = "idle"]
    /\ sender' = [sender EXCEPT ![<<t, count[t]>>] = "ready"]
    /\ UNCHANGED <<uri, running, count, level, stdout, request, noted, remote, settled>>

\* main returns or calls os.Exit, wherever the other goroutines are.
ExitProcess ==
    /\ running
    /\ running' = FALSE
    /\ UNCHANGED <<uri, threadVars, sender, request, noted, remote>>

---------------------------------------------------------------------------
(* The sender                                                              *)

\* Mutant of Post: the sender does not wait for the answer.
PostAndForget(r) ==
    /\ running /\ sender[r] = "ready"
    /\ sender' = [sender EXCEPT ![r] = "done"]
    /\ request' = IF uri THEN [request EXCEPT ![r] = "sent"] ELSE request
    /\ UNCHANGED <<uri, running, threadVars, noted, remote>>

\* Builds the entry, with the time it is built at, and posts it; without a URI
\* there is nothing to do.
Post(r) ==
    /\ running /\ sender[r] = "ready"
    /\ sender' = [sender EXCEPT ![r] = IF uri THEN "waiting" ELSE "done"]
    /\ request' = IF uri THEN [request EXCEPT ![r] = "sent"] ELSE request
    /\ UNCHANGED <<uri, running, threadVars, noted, remote>>

\* Mutant of Failed: the status is not looked at.
FailedOnError(r) == request[r] = "lost"

\* An error or a status of 400 or more.
Failed(r) == request[r] \in {"lost", "refused"}

\* The remote log's answer, or the error of a broken connection.
Answered(r) ==
    /\ running /\ sender[r] = "waiting"
    /\ request[r] \in {"accepted", "refused", "redirected", "lost"}
    /\ sender' = [sender EXCEPT ![r] = "done"]
    /\ noted' = IF Failed(r) THEN noted \cup {r} ELSE noted
    /\ UNCHANGED <<uri, running, threadVars, request, remote>>

\* Mutant of Expire: the http.Client has no timeout.
ExpireNever(r) == FALSE /\ UNCHANGED vars

\* 5 s are over; what became of the request is not known.
Expire(r) ==
    /\ running /\ sender[r] = "waiting"
    /\ sender' = [sender EXCEPT ![r] = "done"]
    /\ noted' = noted \cup {r}
    /\ UNCHANGED <<uri, running, threadVars, request, remote>>

---------------------------------------------------------------------------
(* The network and the remote log                                          *)

\* A request arrives in its own time, if need be after its sender is gone.
\* POST is not repeated by net/http once it is on its way.  A redirect by 301,
\* 302 or 303 net/http follows with a GET, which does not have the record; its
\* answer may well be a success.
Arrive(r) ==
    /\ request[r] = "sent"
    /\ \/ request' = [request EXCEPT ![r] = "accepted"] /\ remote' = Append(remote, r)
       \/ /\ \E end \in {"refused", "redirected", "lost"} : request' = [request EXCEPT ![r] = end]
          /\ UNCHANGED remote
    /\ UNCHANGED <<uri, running, threadVars, sender, noted>>

Next ==
    \/ \E t \in Threads : Write(t) \/ Spawn(t)
    \/ \E r \in Records : Post(r) \/ Answered(r) \/ Expire(r) \/ Arrive(r)
    \/ ExitProcess

\* Goroutines are scheduled and timers fire; the remote log owes nothing.
Spec ==
    /\ Init /\ [][Next]_vars
    /\ \A t \in Threads : WF_vars(Spawn(t))
    /\ \A r \in Records : WF_vars(Post(r)) /\ WF_vars(Expire(r))

---------------------------------------------------------------------------
(* Properties                                                              *)

\* A sender that ends without a note on stderr has delivered its record, or was
\* redirected and told of a success elsewhere, so that a record that is missing
\* from the remote log has a note, a sender at work, a redirect, no URI, or a
\* process that ended too early; and a note does not mean that it is missing.
NoQuietLoss ==
    \A r \in Records :
        LET redirected == request[r] = "redirected" IN
        /\ uri /\ sender[r] = "done" => r \in noted \/ Contains(remote, r) \/ redirected
        /\ running /\ r \notin noted /\ uri /\ sender[r] # "none" /\ ~Contains(remote, r) =>
              sender[r] \in {"ready", "waiting"} \/ redirected

\* The remote log has no order but this: a record whose sender was done without
\* a note comes before all records that were logged later.  Two records of one
\* goroutine may well come in the wrong order.
LateOnlyIfNoted ==
    \A i, j \in DOMAIN remote :
        i < j /\ remote[j] \in settled[remote[i]] => remote[j] \in noted

\* No sender stays for ever: it ends, or the process does, whatever the remote
\* log does with the request.
SendersEnd == \A r \in Records : sender[r] # "none" ~> sender[r] = "done" \/ ~running
=============================================================================
