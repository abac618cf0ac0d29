------------------------------ MODULE LogRecords ------------------------------
(***************************************************************************)
(* From the body of a request to the remote log: the attributes made by    *)
(* BodyAttrs are those of the first record of one goroutine of RemoteLog,  *)
(* among the other records of the process.  The record is written when the *)
(* attributes are there, and its sender puts them into the line it posts.  *)
(*                                                                         *)
(* RemoteLog does not look into a record, so a few bodies are followed to  *)
(* the remote log; of all the others only the attributes and the line are  *)
(* made.                                                                   *)
(***************************************************************************)
EXTENDS BodyAttrs

CONSTANTS
    Threads, MaxRecords,
    Author,     \* the goroutine that logs the body
    Followed    \* a bound: the bodies that are followed to the remote log

VARIABLES uri, running, at, count, level, stdout, sender, request, noted, remote, settled

R == INSTANCE RemoteLog WITH pc <- at

logVars == <<uri, running, at, count, level, stdout, sender, request, noted, remote, settled>>
allVars == <<vars, logVars>>

First == <<Author, 1>>

---------------------------------------------------------------------------
LogInit == Init /\ R!Init

\* LogHTTPRequest and the functions below it, before the record is logged.
Make ==
    /\ running /\ (Decode \/ Flatten \/ Flattened)
    /\ UNCHANGED logVars

\* The remote line of a body that is not followed.
EmitAlone == body \notin Followed /\ Emit /\ UNCHANGED logVars

Write(t) ==
    /\ t = Author => pc \notin {"decode", "flatten"}
    /\ R!Write(t)
    /\ UNCHANGED vars

\* sendLog builds the line in the goroutine that posts it.
Post(r) ==
    /\ R!Post(r)
    /\ IF r = First /\ uri THEN Emit ELSE UNCHANGED vars

Logging ==
    /\ body \in Followed
    /\ \/ \E t \in Threads : Write(t) \/ (R!Spawn(t) /\ UNCHANGED vars)
       \/ \E r \in R!Records :
             \/ Post(r)
             \/ (R!Answered(r) \/ R!Expire(r) \/ R!Arrive(r)) /\ UNCHANGED vars
       \/ R!ExitProcess /\ UNCHANGED vars

LogNext == Make \/ EmitAlone \/ Logging

\* The fairness of RemoteLog.
LogSpec ==
    /\ LogInit /\ [][LogNext]_allVars
    /\ \A t \in Threads : WF_allVars(R!Spawn(t) /\ UNCHANGED vars)
    /\ \A r \in R!Records : WF_allVars(Post(r)) /\ WF_allVars(R!Expire(r) /\ UNCHANGED vars)

---------------------------------------------------------------------------
(* Properties                                                              *)

\* What RemoteLog says of the records of logger.Info and its siblings holds of
\* them with the making of one in their midst: no loss without a note on
\* stderr or a redirect, no order but that of settled records, and senders
\* that end.
NoQuietLoss == R!NoQuietLoss
LateOnlyIfNoted == R!LateOnlyIfNoted
SendersEnd == R!SendersEnd
=============================================================================
