--------------------------- MODULE LogRecordsProofs ---------------------------
(***************************************************************************)
(* Proofs about LogRecords: about the remote log, for any goroutines and   *)
(* any number of records, and about the attributes and the two lines of a  *)
(* body, for documents of any depth and width with any names.              *)
(***************************************************************************)
EXTENDS LogRecords, SequenceTheorems, FiniteSetTheorems, WellFoundedInduction, TLAPS

RemoteTypeOK ==
    /\ uri \in BOOLEAN /\ running \in BOOLEAN
    /\ at \in [Threads -> {"idle", "written"}]
    /\ count \in [Threads -> Nat]
    /\ sender \in [R!Records -> {"none", "ready", "waiting", "done"}]
    /\ request \in [R!Records -> {"none", "sent", "accepted", "refused", "redirected", "lost"}]
    /\ noted \subseteq R!Records
    /\ remote \in Seq(R!Records)
    /\ settled \in [R!Records -> SUBSET R!Records]

\* A record has a sender once its logging call has started one, and no second
\* one ever: its number is the goroutine's last and the call is over then.
SenderInv ==
    \A t \in Threads, n \in 1 .. MaxRecords :
        n > count[t] \/ (n = count[t] /\ at[t] = "written") => sender[<<t, n>>] = "none"

\* What a request's state says of its sender and of the remote log.
RequestInv ==
    \A r \in R!Records :
        /\ sender[r] \in {"none", "ready"} => request[r] = "none"
        /\ request[r] # "none" => uri
        /\ uri /\ sender[r] = "waiting" => request[r] # "none"
        /\ uri /\ sender[r] = "done" => r \in noted \/ request[r] \in {"accepted", "redirected"}

RemoteInv ==
    /\ \A i \in DOMAIN remote : request[remote[i]] = "accepted"
    /\ \A r \in R!Records : request[r] = "accepted" => \E i \in DOMAIN remote : remote[i] = r

\* A sender that is done stays so.
SettledInv == \A r \in R!Records : \A q \in settled[r] : sender[q] = "done"

Inv == RemoteTypeOK /\ SenderInv /\ RequestInv /\ RemoteInv /\ SettledInv /\ LateOnlyIfNoted

---------------------------------------------------------------------------
(* The steps of the remote log                                             *)

Same == UNCHANGED logVars

LEMMA WriteStep ==
    ASSUME Inv, NEW t \in Threads, R!Write(t)
    PROVE  Inv'
<1>. DEFINE r == <<t, count[t] + 1>>
<1>0. count[t] \in Nat
  BY DEF Inv, RemoteTypeOK
<1>1. PICK l \in R!Levels :
        /\ at' = IF l = "local" THEN at ELSE [at EXCEPT ![t] = "written"]
        /\ settled' = [settled EXCEPT ![r] = {q \in R!Records : sender[q] = "done"}]
        /\ count' = [count EXCEPT ![t] = @ + 1]
        /\ uri' = uri /\ running' = running /\ sender' = sender /\ request' = request
        /\ noted' = noted /\ remote' = remote
  BY DEF R!Write
<1>2. RemoteTypeOK'
  <2>1. settled' \in [R!Records -> SUBSET R!Records]
    BY <1>1 DEF Inv, RemoteTypeOK
  <2>2. at' \in [Threads -> {"idle", "written"}] /\ count' \in [Threads -> Nat]
    BY <1>1 DEF Inv, RemoteTypeOK
  <2>. QED  BY <1>1, <2>1, <2>2 DEF Inv, RemoteTypeOK
<1>3. SenderInv'
  <2>. SUFFICES ASSUME NEW u \in Threads, NEW n \in 1 .. MaxRecords,
                       n > count'[u] \/ (n = count'[u] /\ at'[u] = "written")
                PROVE  sender'[<<u, n>>] = "none"
    BY DEF SenderInv
  <2>1. CASE u = t
    <3>1. count'[u] = count[t] + 1
      BY <1>1, <2>1 DEF Inv, RemoteTypeOK
    <3>2. n > count[t]
      BY <1>0, <3>1
    <3>. QED  BY <1>1, <2>1, <3>2 DEF Inv, SenderInv
  <2>2. CASE u # t
    BY <1>1, <2>2 DEF Inv, SenderInv, RemoteTypeOK
  <2>. QED  BY <2>1, <2>2
<1>4. RequestInv' /\ RemoteInv'
  BY <1>1 DEF Inv, RequestInv, RemoteInv
<1>5. \A q \in R!Records : settled'[q] = IF q = r THEN {p \in R!Records : sender[p] = "done"} ELSE settled[q]
  BY <1>1 DEF Inv, RemoteTypeOK
<1>6. SettledInv'
  BY <1>1, <1>5 DEF Inv, SettledInv
<1>10. \A i \in DOMAIN remote : remote[i] \in R!Records
  BY DEF Inv, RemoteTypeOK
<1>7. \A i \in DOMAIN remote : remote[i] # r
  <2>. SUFFICES ASSUME NEW i \in DOMAIN remote, remote[i] = r
                PROVE  FALSE
    OBVIOUS
  <2>1. r \in R!Records /\ request[r] = "accepted"
    BY <1>10 DEF Inv, RemoteInv
  <2>2. sender[r] # "none"
    BY <2>1 DEF Inv, RequestInv
  <2>3. count[t] + 1 \in 1 .. MaxRecords /\ count[t] + 1 > count[t]
    BY <1>0, <2>1 DEF R!Records
  <2>. QED  BY <2>2, <2>3 DEF Inv, SenderInv
<1>8. \A i \in DOMAIN remote : settled'[remote[i]] = settled[remote[i]]
  BY <1>5, <1>7, <1>10
<1>9. LateOnlyIfNoted'
  BY <1>1, <1>8 DEF Inv, LateOnlyIfNoted, R!LateOnlyIfNoted
<1>. QED  BY <1>2, <1>3, <1>4, <1>6, <1>9 DEF Inv

LEMMA SpawnStep ==
    ASSUME Inv, NEW t \in Threads, R!Spawn(t)
    PROVE  Inv'
<1>. DEFINE r == <<t, count[t]>>
<1>. USE DEF R!Spawn
<1>0. count[t] \in Nat
  BY DEF Inv, RemoteTypeOK
<1>1. RemoteTypeOK'
  BY DEF Inv, RemoteTypeOK
<1>2. \A q \in R!Records : sender'[q] = IF q = r THEN "ready" ELSE sender[q]
  BY DEF Inv, RemoteTypeOK
<1>3. r \in R!Records => sender[r] = "none"
  <2>. SUFFICES ASSUME r \in R!Records PROVE sender[r] = "none"
    OBVIOUS
  <2>1. count[t] \in 1 .. MaxRecords
    BY DEF R!Records
  <2>. QED  BY <2>1 DEF Inv, SenderInv
<1>4. SenderInv'
  <2>. SUFFICES ASSUME NEW u \in Threads, NEW n \in 1 .. MaxRecords,
                       n > count[u] \/ (n = count[u] /\ at'[u] = "written")
                PROVE  sender'[<<u, n>>] = "none"
    BY DEF SenderInv
  <2>1. <<u, n>> \in R!Records /\ <<u, n>> # r
    BY <1>0 DEF R!Records, Inv, RemoteTypeOK
  <2>2. sender[<<u, n>>] = "none"
    BY DEF Inv, SenderInv, RemoteTypeOK
  <2>. QED  BY <1>2, <2>1, <2>2
<1>5. RequestInv'
  BY <1>2, <1>3 DEF Inv, RequestInv
<1>6. SettledInv'
  BY <1>2, <1>3 DEF Inv, SettledInv, RemoteTypeOK
<1>7. RemoteInv' /\ LateOnlyIfNoted'
  BY DEF Inv, RemoteInv, LateOnlyIfNoted, R!LateOnlyIfNoted, R!threadVars
<1>. QED  BY <1>1, <1>4, <1>5, <1>6, <1>7 DEF Inv

LEMMA PostStep ==
    ASSUME Inv, NEW r \in R!Records, R!Post(r)
    PROVE  Inv'
<1>. USE DEF R!Post, R!threadVars
<1>1. RemoteTypeOK'
  BY DEF Inv, RemoteTypeOK
<1>2. \A q \in R!Records :
        /\ sender'[q] = IF q = r THEN IF uri THEN "waiting" ELSE "done" ELSE sender[q]
        /\ request'[q] = IF q = r /\ uri THEN "sent" ELSE request[q]
  BY DEF Inv, RemoteTypeOK
<1>3. request[r] = "none"
  BY DEF Inv, RequestInv
<1>4. SenderInv'
  BY <1>2 DEF Inv, SenderInv, R!Records
<1>5. RequestInv'
  BY <1>2, <1>3 DEF Inv, RequestInv
<1>6. SettledInv'
  BY <1>2 DEF Inv, SettledInv, RemoteTypeOK
<1>7. RemoteInv'
  BY <1>2, <1>3 DEF Inv, RemoteInv, RemoteTypeOK
<1>8. LateOnlyIfNoted'
  BY DEF Inv, LateOnlyIfNoted, R!LateOnlyIfNoted
<1>. QED  BY <1>1, <1>4, <1>5, <1>6, <1>7, <1>8 DEF Inv

\* The sender learns what became of the request, or gives up: a record with an
\* end that is not a success has a note.
LEMMA SenderEnds ==
    ASSUME Inv, NEW r \in R!Records, R!Answered(r) \/ R!Expire(r)
    PROVE  Inv'
<1>. USE DEF R!Answered, R!Expire, R!Failed, R!threadVars
<1>1. RemoteTypeOK'
  BY DEF Inv, RemoteTypeOK
<1>2. \A q \in R!Records : sender'[q] = IF q = r THEN "done" ELSE sender[q]
  BY DEF Inv, RemoteTypeOK
<1>3. /\ request' = request /\ uri' = uri /\ noted \subseteq noted'
      /\ sender[r] = "waiting"
      /\ r \in noted' \/ request[r] \in {"accepted", "redirected"}
  OBVIOUS
<1>4. SenderInv'
  BY <1>2, <1>3 DEF Inv, SenderInv, R!Records
<1>5. RequestInv'
  BY <1>2, <1>3 DEF Inv, RequestInv
<1>6. SettledInv'
  BY <1>2 DEF Inv, SettledInv, RemoteTypeOK
<1>7. RemoteInv' /\ LateOnlyIfNoted'
  BY <1>3 DEF Inv, RemoteInv, LateOnlyIfNoted, R!LateOnlyIfNoted
<1>. QED  BY <1>1, <1>4, <1>5, <1>6, <1>7 DEF Inv

LEMMA AppendHas ==
    ASSUME NEW S, NEW s \in Seq(S), NEW x \in S
    PROVE  /\ Append(s, x) \in Seq(S)
           /\ DOMAIN s = 1 .. Len(s) /\ Len(s) \in Nat
           /\ DOMAIN Append(s, x) = 1 .. Len(s) + 1
           /\ \A i \in 1 .. Len(s) : Append(s, x)[i] = s[i]
           /\ Append(s, x)[Len(s) + 1] = x
<1>1. Append(s, x) \in Seq(S) /\ Len(Append(s, x)) = Len(s) + 1
  BY AppendProperties
<1>2. DOMAIN s = 1 .. Len(s) /\ Len(s) \in Nat
  OBVIOUS
<1>3. DOMAIN Append(s, x) = 1 .. Len(s) + 1
  BY <1>1
<1>4. (\A i \in 1 .. Len(s) : Append(s, x)[i] = s[i]) /\ Append(s, x)[Len(s) + 1] = x
  BY AppendProperties
<1>. QED  BY <1>1, <1>2, <1>3, <1>4

\* A record that arrives after its sender was done has a note already.
LEMMA ArriveStep ==
    ASSUME Inv, NEW r \in R!Records, R!Arrive(r)
    PROVE  Inv'
<1>. USE DEF R!Arrive, R!threadVars
<1>0. request[r] = "sent" /\ remote \in Seq(R!Records)
  BY DEF Inv, RemoteTypeOK
<1>1. PICK end \in {"accepted", "refused", "redirected", "lost"} :
        /\ request' = [request EXCEPT ![r] = end]
        /\ remote' = IF end = "accepted" THEN Append(remote, r) ELSE remote
  OBVIOUS
<1>2. \A q \in R!Records : request'[q] = IF q = r THEN end ELSE request[q]
  BY <1>1 DEF Inv, RemoteTypeOK
<1>3. /\ remote' \in Seq(R!Records)
      /\ DOMAIN remote \subseteq DOMAIN remote'
      /\ \A i \in DOMAIN remote : remote'[i] = remote[i]
      /\ \A i \in DOMAIN remote' : i \in DOMAIN remote \/ (remote'[i] = r /\ end = "accepted" /\ i = Len(remote) + 1)
      /\ end = "accepted" => Len(remote) + 1 \in DOMAIN remote' /\ remote'[Len(remote) + 1] = r
      /\ DOMAIN remote = 1 .. Len(remote) /\ Len(remote) \in Nat
  <2>1. CASE end = "accepted"
    BY <1>0, <1>1, <2>1, AppendHas
  <2>2. CASE end # "accepted"
    BY <1>0, <1>1, <2>2
  <2>. QED  BY <2>1, <2>2
<1>4. RemoteTypeOK'
  BY <1>1, <1>3 DEF Inv, RemoteTypeOK
<1>5. SenderInv' /\ SettledInv'
  BY DEF Inv, SenderInv, SettledInv
<1>6. RequestInv'
  BY <1>0, <1>2 DEF Inv, RequestInv
<1>7. RemoteInv'
  BY <1>0, <1>2, <1>3 DEF Inv, RemoteInv, RemoteTypeOK
<1>8. LateOnlyIfNoted'
  <2>. SUFFICES ASSUME NEW i \in DOMAIN remote', NEW j \in DOMAIN remote',
                       i < j, remote'[j] \in settled[remote'[i]]
                PROVE  remote'[j] \in noted
    BY DEF LateOnlyIfNoted, R!LateOnlyIfNoted
  <2>1. i \in DOMAIN remote
    BY <1>3
  <2>2. CASE j \in DOMAIN remote
    BY <1>3, <2>1, <2>2 DEF Inv, LateOnlyIfNoted, R!LateOnlyIfNoted
  <2>3. CASE j \notin DOMAIN remote
    <3>1. remote'[j] = r /\ remote'[i] = remote[i] /\ remote[i] \in R!Records
      BY <1>0, <1>3, <2>1, <2>3
    <3>2. sender[r] = "done"
      BY <3>1 DEF Inv, SettledInv
    <3>. QED  BY <1>0, <3>1, <3>2 DEF Inv, RequestInv
  <2>. QED  BY <2>2, <2>3
<1>. QED  BY <1>4, <1>5, <1>6, <1>7, <1>8 DEF Inv

LEMMA LogStutters ==
    ASSUME Inv, Same \/ R!ExitProcess
    PROVE  Inv'
<1>1. /\ uri' = uri /\ running' \in BOOLEAN /\ at' = at /\ count' = count /\ sender' = sender
      /\ request' = request /\ noted' = noted /\ remote' = remote /\ settled' = settled
  BY DEF Same, logVars, R!ExitProcess, R!threadVars, Inv, RemoteTypeOK
<1>2. RemoteTypeOK' /\ SenderInv' /\ RequestInv'
  BY <1>1 DEF Inv, RemoteTypeOK, SenderInv, RequestInv
<1>3. RemoteInv' /\ SettledInv' /\ LateOnlyIfNoted'
  BY <1>1 DEF Inv, RemoteInv, SettledInv, LateOnlyIfNoted, R!LateOnlyIfNoted
<1>. QED  BY <1>2, <1>3 DEF Inv

---------------------------------------------------------------------------
(* The specification                                                       *)

LEMMA LogStart == LogInit => Inv
<1>. SUFFICES ASSUME LogInit PROVE Inv
  OBVIOUS
<1>. USE DEF LogInit, R!Init
<1>1. remote = <<>> /\ remote \in Seq(R!Records)
  OBVIOUS
<1>2. RemoteTypeOK
  BY <1>1 DEF RemoteTypeOK
<1>3. SenderInv /\ RequestInv /\ SettledInv
  BY DEF SenderInv, RequestInv, SettledInv, R!Records
<1>4. RemoteInv /\ LateOnlyIfNoted
  BY <1>1 DEF RemoteInv, LateOnlyIfNoted, R!LateOnlyIfNoted
<1>. QED  BY <1>2, <1>3, <1>4 DEF Inv

LEMMA LogStep == Inv /\ [LogNext]_allVars => Inv'
<1>. SUFFICES ASSUME Inv, [LogNext]_allVars PROVE Inv'
  OBVIOUS
<1>1. CASE Make \/ EmitAlone \/ UNCHANGED allVars
  BY <1>1, LogStutters DEF Make, EmitAlone, allVars, Same
<1>2. CASE Logging
  <2>1. CASE \E t \in Threads : Write(t)
    BY <2>1, WriteStep DEF Write
  <2>2. CASE \E t \in Threads : R!Spawn(t)
    BY <2>2, SpawnStep
  <2>3. CASE \E r \in R!Records : Post(r)
    BY <2>3, PostStep DEF Post
  <2>4. CASE \E r \in R!Records : R!Answered(r) \/ R!Expire(r)
    BY <2>4, SenderEnds
  <2>5. CASE \E r \in R!Records : R!Arrive(r)
    BY <2>5, ArriveStep
  <2>6. CASE R!ExitProcess
    BY <2>6, LogStutters
  <2>. QED  BY <1>2, <2>1, <2>2, <2>3, <2>4, <2>5, <2>6 DEF Logging
<1>. QED  BY <1>1, <1>2 DEF LogNext

\* The remote log is kept while attributes are made in between.
LEMMA LogIsKept == LogSpec => []Inv
  BY LogStart, LogStep, PTL DEF LogSpec

\* Every step is one of the remote log, or leaves it alone.
LEMMA LogSteps == [LogNext]_allVars => [R!Next]_(R!vars)
<1>. SUFFICES ASSUME [LogNext]_allVars, ~Same PROVE R!Next
  BY DEF Same, logVars, R!vars, R!threadVars
<1>1. CASE Logging
  BY <1>1 DEF Logging, Write, Post, R!Next
<1>2. CASE Make \/ EmitAlone \/ UNCHANGED allVars
  BY <1>2 DEF Make, EmitAlone, allVars, Same
<1>. QED  BY <1>1, <1>2 DEF LogNext

\* LogRecords implements RemoteLog but for its fairness: making the attributes of
\* a record in the goroutine that logs it adds no behaviour to the remote log.
THEOREM RecordsWithin == LogSpec => R!Init /\ [][R!Next]_(R!vars)
<1>1. LogInit => R!Init
  BY DEF LogInit
<1>. QED  BY <1>1, LogSteps, PTL DEF LogSpec

LEMMA InvLosesNothing == Inv => NoQuietLoss
<1>. SUFFICES ASSUME Inv, NEW r \in R!Records
              PROVE  /\ uri /\ sender[r] = "done" =>
                           r \in noted \/ R!Contains(remote, r) \/ request[r] = "redirected"
                     /\ running /\ r \notin noted /\ uri /\ sender[r] # "none" /\ ~R!Contains(remote, r) =>
                           sender[r] \in {"ready", "waiting"} \/ request[r] = "redirected"
  BY DEF NoQuietLoss, R!NoQuietLoss
<1>1. request[r] = "accepted" => R!Contains(remote, r)
  BY DEF Inv, RemoteInv, RemoteTypeOK, R!Contains
<1>2. uri /\ sender[r] = "done" => r \in noted \/ R!Contains(remote, r) \/ request[r] = "redirected"
  BY <1>1 DEF Inv, RequestInv
<1>. QED  BY <1>2 DEF Inv, RemoteTypeOK

\* NoQuietLoss: a sender that ends without a note on stderr has delivered its
\* record or was redirected, whatever the network, the remote log and the other
\* senders do.
THEOREM NothingLostQuietly == LogSpec => []NoQuietLoss
  BY LogIsKept, InvLosesNothing, PTL

\* LateOnlyIfNoted: a record that comes after a later one was abandoned by its
\* sender, which wrote a note.
THEOREM OnlyNotedAreLate == LogSpec => []LateOnlyIfNoted
<1>1. Inv => LateOnlyIfNoted
  BY DEF Inv
<1>. QED  BY <1>1, LogIsKept, PTL

---------------------------------------------------------------------------
(* Sequences and keys                                                      *)

\* The first k elements of a sequence.
LEMMA Beginnings ==
    ASSUME NEW S, NEW q \in Seq(S), NEW k \in 0 .. Len(q)
    PROVE  /\ SubSeq(q, 1, k) \in Seq(S) /\ Len(SubSeq(q, 1, k)) = k
           /\ \A i \in 1 .. k : SubSeq(q, 1, k)[i] = q[i]
<1>1. \A i \in 1 .. k : q[i] \in S
  BY ElementOfSeq
<1>2. /\ SubSeq(q, 1, k) \in Seq(S) /\ Len(SubSeq(q, 1, k)) = IF 1 <= k THEN k - 1 + 1 ELSE 0
      /\ \A i \in 1 .. k - 1 + 1 : SubSeq(q, 1, k)[i] = q[1 + i - 1]
  BY <1>1, SubSeqProperties
<1>. QED  BY <1>2

\* A sequence with one element more.
LEMMA SeqFacts ==
    ASSUME NEW S, NEW p \in Seq(S), NEW x \in S
    PROVE  /\ Len(p) \in Nat /\ DOMAIN p = 1 .. Len(p)
           /\ Append(p, x) \in Seq(S) /\ Len(Append(p, x)) = Len(p) + 1
           /\ \A i \in 1 .. Len(p) : Append(p, x)[i] = p[i]
           /\ Append(p, x)[Len(p) + 1] = x
           /\ Front(Append(p, x)) = p /\ Append(p, x) # <<>>
<1>1. Len(p) \in Nat /\ DOMAIN p = 1 .. Len(p)
  OBVIOUS
<1>2. /\ Append(p, x) \in Seq(S) /\ Len(Append(p, x)) = Len(p) + 1
      /\ \A i \in 1 .. Len(p) : Append(p, x)[i] = p[i]
      /\ Append(p, x)[Len(p) + 1] = x
  BY AppendProperties
<1>3. Append(p, x) # <<>>
  BY <1>1, <1>2
<1>4. Front(Append(p, x)) = p
  <2>1. Len(p) \in 0 .. Len(Append(p, x))
    BY <1>1, <1>2
  <2>2. /\ SubSeq(Append(p, x), 1, Len(p)) \in Seq(S)
        /\ Len(SubSeq(Append(p, x), 1, Len(p))) = Len(p)
        /\ \A i \in 1 .. Len(p) : SubSeq(Append(p, x), 1, Len(p))[i] = Append(p, x)[i]
    BY <1>2, <2>1, Beginnings
  <2>3. SubSeq(Append(p, x), 1, Len(p)) = p
    BY <1>2, <2>2, SeqEqual
  <2>. QED  BY <1>1, <1>2, <2>3 DEF Front
<1>. QED  BY <1>1, <1>2, <1>3, <1>4

\* A sequence that is not empty is its front and one more.
LEMMA FrontAndLast ==
    ASSUME NEW S, NEW q \in Seq(S), q # <<>>
    PROVE  /\ Front(q) \in Seq(S) /\ Len(Front(q)) = Len(q) - 1
           /\ q[Len(q)] \in S /\ q = Append(Front(q), q[Len(q)])
<1>1. Len(q) \in Nat \ {0} /\ \A i \in 1 .. Len(q) : q[i] \in S
  BY EmptySeq, ElementOfSeq
<1>2. /\ Front(q) \in Seq(S) /\ Len(Front(q)) = Len(q) - 1
      /\ \A i \in 1 .. Len(q) - 1 : Front(q)[i] = q[i]
  <2>1. Len(q) - 1 \in 0 .. Len(q)
    BY <1>1
  <2>. QED  BY <2>1, Beginnings DEF Front
<1>3. q[Len(q)] \in S
  BY <1>1
<1>4. q = Append(Front(q), q[Len(q)])
  <2>. DEFINE a == Append(Front(q), q[Len(q)])
  <2>1. /\ a \in Seq(S) /\ Len(a) = Len(q)
        /\ \A i \in 1 .. Len(q) - 1 : a[i] = q[i]
        /\ a[Len(q)] = q[Len(q)]
    <3>1. /\ a \in Seq(S) /\ Len(a) = Len(Front(q)) + 1
          /\ \A i \in 1 .. Len(Front(q)) : a[i] = Front(q)[i]
          /\ a[Len(Front(q)) + 1] = q[Len(q)]
      BY <1>2, <1>3, SeqFacts
    <3>. QED  BY <1>1, <1>2, <3>1
  <2>2. \A i \in 1 .. Len(q) : q[i] = a[i]
    BY <1>1, <2>1
  <2>. QED  BY <2>1, <2>2, SeqEqual
<1>. QED  BY <1>2, <1>3, <1>4

LEMMA UpTo == \A n \in Nat : IsFiniteSet(1 .. n) /\ Cardinality(1 .. n) = n
<1>. SUFFICES ASSUME NEW n \in Nat PROVE IsFiniteSet(1 .. n) /\ Cardinality(1 .. n) = n
  OBVIOUS
<1>1. IsFiniteSet(1 .. n) /\ Cardinality(1 .. n) = IF 1 > n THEN 0 ELSE n - 1 + 1
  BY FS_Interval
<1>. QED  BY <1>1

\* Every set of natural numbers has a least one: 1 .. k is a finite set, and
\* these are well-founded.
LEMMA LeastOf ==
    ASSUME NEW T \in SUBSET Nat, T # {}
    PROVE  \E m \in T : \A k \in T : m <= k
<1>. DEFINE Up == {1 .. k : k \in T}
<1>1. Up \subseteq FiniteSubsetsOf(Nat) /\ Up # {}
  <2>1. \A k \in T : 1 .. k \in SUBSET Nat /\ IsFiniteSet(1 .. k)
    BY FS_Interval
  <2>. QED  BY <2>1 DEF FiniteSubsetsOf
<1>2. PICK U \in Up : \A V \in Up : ~(<<V, U>> \in StrictSubsetOrdering(Nat))
  BY <1>1, WFMin, FS_StrictSubsetOrderingWellFounded
<1>3. PICK m \in T : U = 1 .. m
  OBVIOUS
<1>4. ASSUME NEW k \in T, k < m PROVE FALSE
  <2>1. 1 .. k \subseteq 1 .. m /\ m \in 1 .. m /\ m \notin 1 .. k
    BY <1>4
  <2>2. <<1 .. k, U>> \in StrictSubsetOrdering(Nat)
    BY <1>3, <2>1 DEF StrictSubsetOrdering
  <2>. QED  BY <1>2, <2>2
<1>. QED  BY <1>4

\* A sequence that agrees with two others, the second of one element.
LEMMA OneMore ==
    ASSUME NEW S, NEW k \in Nat, NEW a \in Seq(S), Len(a) = k, NEW b \in Seq(S), Len(b) = 1,
           NEW c \in Seq(S), Len(c) = k + 1, \A j \in 1 .. k : c[j] = a[j], c[k + 1] = b[1]
    PROVE  c = a \o b
<1>0. /\ a \o b \in Seq(S) /\ Len(a \o b) = Len(a) + Len(b)
      /\ \A j \in 1 .. Len(a) + Len(b) : (a \o b)[j] = IF j <= Len(a) THEN a[j] ELSE b[j - Len(a)]
  BY ConcatProperties
<1>1. /\ a \o b \in Seq(S) /\ Len(a \o b) = k + 1
      /\ \A j \in 1 .. k + 1 : (a \o b)[j] = IF j <= k THEN a[j] ELSE b[j - k]
  BY <1>0, Zenon
<1>2. \A j \in 1 .. k + 1 : c[j] = (a \o b)[j]
  <2>. SUFFICES ASSUME NEW j \in 1 .. k + 1 PROVE c[j] = (a \o b)[j]
    OBVIOUS
  <2>1. CASE j = k + 1
    <3>1. k + 1 - k = 1 /\ ~(k + 1 <= k) /\ k + 1 \in 1 .. k + 1
      OBVIOUS
    <3>2. (a \o b)[k + 1] = b[k + 1 - k]
      BY <1>1, <3>1
    <3>3. (a \o b)[k + 1] = b[1]
      BY <3>1, <3>2, Zenon
    <3>4. c[k + 1] = (a \o b)[k + 1]
      BY <3>3, Zenon
    <3>. QED  BY <2>1, <3>4
  <2>2. CASE j \in 1 .. k
    BY <1>1, <2>2
  <2>3. j = k + 1 \/ j \in 1 .. k
    OBVIOUS
  <2>. QED  BY <2>1, <2>2, <2>3, Zenon
<1>. QED  BY <1>1, <1>2, SeqEqual

\* Names of one part each have a first part.
LEMMA FirstParts ==
    ASSUME NEW S, NEW p \in Seq(Seq(S)), \A i \in 1 .. Len(p) : Len(p[i]) = 1
    PROVE  Len(p) \in Nat /\ \A i \in 1 .. Len(p) : p[i] \in Seq(S) /\ p[i][1] \in S
<1>1. \A i \in 1 .. Len(p) : p[i] \in Seq(S)
  BY ElementOfSeq
<1>2. ASSUME NEW i \in 1 .. Len(p) PROVE p[i][1] \in S
  <2>1. Len(p[i]) = 1
    OBVIOUS
  <2>2. 1 .. 1 = 1 .. Len(p[i])
    BY <2>1, Zenon
  <2>3. 1 \in 1 .. 1
    OBVIOUS
  <2>. QED  BY <1>1, <2>2, <2>3, ElementOfSeq
<1>. QED  BY <1>1, <1>2

\* FlattenSeq chooses a recursive function f.  The closed form g satisfies its
\* equation, so that there is one to choose, and no i can be the least at which
\* f differs from g.
LEMMA FlattenOnePart ==
    ASSUME NEW S, NEW p \in Seq(Seq(S)), \A i \in 1 .. Len(p) : Len(p[i]) = 1
    PROVE  FlattenSeq(p) = [i \in 1 .. Len(p) |-> p[i][1]]
<1>. DEFINE n == Len(p)
            f == CHOOSE h : h = [i \in 1 .. n |-> IF i = 1 THEN p[i] ELSE h[i - 1] \o p[i]]
            g == [i \in 1 .. n |-> [j \in 1 .. i |-> p[j][1]]]
<1>0. n \in Nat /\ \A i \in 1 .. n : p[i] \in Seq(S) /\ p[i][1] \in S
  BY FirstParts
<1>1. \A i \in 1 .. n : /\ g[i] \in Seq(S) /\ Len(g[i]) = i
                        /\ \A j \in 1 .. i : g[i][j] = p[j][1]
  <2>1. \A i \in 1 .. n : [j \in 1 .. i |-> p[j][1]] \in [1 .. i -> S]
    BY <1>0
  <2>. QED  BY <1>0, <2>1
<1>. HIDE DEF g
<1>2. \A i \in 1 .. n : g[i] = IF i = 1 THEN p[i] ELSE g[i - 1] \o p[i]
  <2>. SUFFICES ASSUME NEW i \in 1 .. n PROVE g[i] = IF i = 1 THEN p[i] ELSE g[i - 1] \o p[i]
    OBVIOUS
  <2>1. CASE i = 1
    <3>1. Len(g[i]) = Len(p[i]) /\ \A j \in 1 .. Len(g[i]) : g[i][j] = p[i][j]
      BY <1>1, <2>1
    <3>2. g[i] = p[i]
      BY <1>0, <1>1, <3>1, SeqEqual
    <3>. QED  BY <2>1, <3>2
  <2>2. CASE i # 1
    <3>1. i - 1 \in 1 .. n /\ i - 1 \in Nat /\ i = (i - 1) + 1
      BY <1>0, <2>2
    <3>2. \A j \in 1 .. i - 1 : g[i][j] = g[i - 1][j]
      <4>. SUFFICES ASSUME NEW j \in 1 .. i - 1 PROVE g[i][j] = g[i - 1][j]
        OBVIOUS
      <4>1. j \in 1 .. i
        BY <1>0
      <4>. QED  BY <1>1, <3>1, <4>1
    <3>3. g[i][i] = p[i][1]
      BY <1>1
    <3>. DEFINE k == i - 1
    <3>4. /\ k \in Nat /\ g[k] \in Seq(S) /\ Len(g[k]) = k /\ p[i] \in Seq(S) /\ Len(p[i]) = 1
          /\ g[i] \in Seq(S) /\ Len(g[i]) = k + 1
          /\ \A j \in 1 .. k : g[i][j] = g[k][j]
          /\ g[i][k + 1] = p[i][1]
      BY <1>0, <1>1, <3>1, <3>2, <3>3
    <3>. HIDE DEF k
    <3>5. g[i] = g[k] \o p[i]
      BY <3>4, OneMore
    <3>. QED  BY <2>2, <3>5 DEF k
  <2>. QED  BY <2>1, <2>2
<1>3. g = [i \in 1 .. n |-> IF i = 1 THEN p[i] ELSE g[i - 1] \o p[i]]
  BY <1>2 DEF g
<1>4. f = [i \in 1 .. n |-> IF i = 1 THEN p[i] ELSE f[i - 1] \o p[i]]
  BY <1>3
<1>5. FlattenSeq(p) = IF n = 0 THEN p ELSE f[n]
  BY DEF FlattenSeq
<1>. HIDE DEF f
<1>6. \A i \in 1 .. n : f[i] = g[i]
  <2>. SUFFICES ASSUME {i \in 1 .. n : f[i] # g[i]} # {} PROVE FALSE
    OBVIOUS
  <2>1. PICK m \in {i \in 1 .. n : f[i] # g[i]} : \A k \in {i \in 1 .. n : f[i] # g[i]} : m <= k
    <3>1. {i \in 1 .. n : f[i] # g[i]} \in SUBSET Nat
      OBVIOUS
    <3>. QED  BY <3>1, LeastOf
  <2>2. f[m] = IF m = 1 THEN p[m] ELSE f[m - 1] \o p[m]
    BY <1>4
  <2>3. m # 1 => f[m - 1] = g[m - 1]
    BY <1>0, <2>1
  <2>. QED  BY <1>2, <2>2, <2>3
<1>7. CASE n = 0
  <2>1. p = <<>> /\ 1 .. n = {}
    BY <1>7, EmptySeq
  <2>. QED  BY <1>5, <1>7, <2>1
<1>8. CASE n # 0
  <2>1. n \in 1 .. n
    BY <1>0, <1>8
  <2>. QED  BY <1>5, <1>6, <1>8, <2>1 DEF g
<1>. QED  BY <1>7, <1>8

\* A key is made of names that can be told from it, if none of them has a dot.
LEMMA KeysDiffer ==
    ASSUME NEW S, Prefix \in Seq(S), NEW p \in Seq(Seq(S)), NEW q \in Seq(Seq(S)),
           \A i \in 1 .. Len(p) : Len(p[i]) = 1, \A i \in 1 .. Len(q) : Len(q[i]) = 1,
           KeyOf(p) = KeyOf(q)
    PROVE  p = q
<1>. DEFINE F(s) == [i \in 1 .. Len(s) |-> s[i][1]]
<1>1. FlattenSeq(p) = F(p) /\ FlattenSeq(q) = F(q)
  BY FlattenOnePart
<1>2. /\ Len(p) \in Nat /\ \A i \in 1 .. Len(p) : p[i] \in Seq(S) /\ p[i][1] \in S
      /\ Len(q) \in Nat /\ \A i \in 1 .. Len(q) : q[i] \in Seq(S) /\ q[i][1] \in S
  BY FirstParts
<1>3. F(p) \in Seq(S) /\ F(q) \in Seq(S) /\ Len(F(p)) = Len(p) /\ Len(F(q)) = Len(q)
  <2>1. F(p) \in [1 .. Len(p) -> S] /\ F(q) \in [1 .. Len(q) -> S]
    BY <1>2
  <2>. QED  BY <1>2, <2>1
<1>4. F(p) = F(q)
  <2>1. Prefix \o F(p) = Prefix \o F(q)
    BY <1>1, Zenon DEF KeyOf
  <2>. QED  BY <1>3, <2>1, ConcatSimplifications
<1>5. Len(p) = Len(q)
  BY <1>3, <1>4
<1>6. \A i \in 1 .. Len(p) : p[i] = q[i]
  <2>. SUFFICES ASSUME NEW i \in 1 .. Len(p) PROVE p[i] = q[i]
    OBVIOUS
  <2>1. i \in 1 .. Len(q)
    BY <1>5
  <2>2. p[i] \in Seq(S) /\ q[i] \in Seq(S) /\ Len(p[i]) = 1 /\ Len(q[i]) = 1
    BY <1>2, <2>1
  <2>3. p[i][1] = q[i][1]
    <3>1. F(p)[i] = p[i][1] /\ F(q)[i] = q[i][1]
      BY <2>1
    <3>. QED  BY <1>4, <3>1, Zenon
  <2>4. Len(p[i]) = Len(q[i]) /\ \A j \in 1 .. Len(p[i]) : p[i][j] = q[i][j]
    <3>1. \A j \in 1 .. 1 : j = 1
      OBVIOUS
    <3>. QED  BY <2>2, <2>3, <3>1, Zenon
  <2>. QED  BY <2>2, <2>4, SeqEqual
<1>. QED  BY <1>5, <1>6, SeqEqual

---------------------------------------------------------------------------
(* Documents                                                               *)

\* What is at a name on the way to a value.
AllNames == Names \cup ToSet(Index)

\* The value at q is the one at p or within it.
Leads(p, q) == Len(p) <= Len(q) /\ \A i \in 1 .. Len(p) : p[i] = q[i]

\* What one name more does to what leads where.
LEMMA LeadsFacts ==
    ASSUME NEW S, NEW p \in Seq(S), NEW x \in S, NEW q \in Seq(S)
    PROVE  /\ Leads(p, p) /\ Leads(p, Append(p, x)) /\ ~Leads(Append(p, x), p)
           /\ Leads(Append(p, x), q) => Leads(p, q) /\ x = q[Len(p) + 1]
           /\ Leads(q, Append(p, x)) => q = Append(p, x) \/ Leads(q, p)
<1>0. /\ Len(p) \in Nat /\ Len(q) \in Nat
      /\ Append(p, x) \in Seq(S) /\ Len(Append(p, x)) = Len(p) + 1
      /\ \A i \in 1 .. Len(p) : Append(p, x)[i] = p[i]
      /\ Append(p, x)[Len(p) + 1] = x
  BY SeqFacts
<1>1. Leads(p, p) /\ Leads(p, Append(p, x)) /\ ~Leads(Append(p, x), p)
  BY <1>0 DEF Leads
<1>2. Leads(Append(p, x), q) => Leads(p, q) /\ x = q[Len(p) + 1]
  <2>. SUFFICES ASSUME Leads(Append(p, x), q) PROVE Leads(p, q) /\ x = q[Len(p) + 1]
    OBVIOUS
  <2>1. Len(p) + 1 <= Len(q) /\ \A i \in 1 .. Len(p) + 1 : Append(p, x)[i] = q[i]
    BY <1>0 DEF Leads
  <2>. QED  BY <1>0, <2>1 DEF Leads
<1>3. Leads(q, Append(p, x)) => q = Append(p, x) \/ Leads(q, p)
  <2>. SUFFICES ASSUME Leads(q, Append(p, x)), ~Leads(q, p) PROVE q = Append(p, x)
    OBVIOUS
  <2>1. Len(q) <= Len(p) + 1 /\ \A i \in 1 .. Len(q) : q[i] = Append(p, x)[i]
    BY <1>0 DEF Leads
  <2>2. Len(q) = Len(p) + 1
    BY <1>0, <2>1 DEF Leads
  <2>. QED  BY <1>0, <2>1, <2>2, SeqEqual
<1>. QED  BY <1>1, <1>2, <1>3

\* Of two values the one that leads to the other is it, or leads to it through
\* one of its members.
LEMMA LeadsOn ==
    ASSUME NEW S, NEW p \in Seq(S), NEW q \in Seq(S), Leads(p, q), p # q
    PROVE  /\ Len(p) + 1 \in 1 .. Len(q) /\ q[Len(p) + 1] \in S
           /\ SubSeq(q, 1, Len(p)) = p
           /\ SubSeq(q, 1, Len(p) + 1) = Append(p, q[Len(p) + 1])
           /\ Leads(Append(p, q[Len(p) + 1]), q)
<1>0. /\ Len(p) \in Nat /\ Len(q) \in Nat /\ Len(p) <= Len(q)
      /\ \A i \in 1 .. Len(p) : p[i] = q[i]
      /\ \A i \in 1 .. Len(q) : q[i] \in S
  BY ElementOfSeq DEF Leads
<1>1. Len(p) # Len(q)
  BY <1>0, SeqEqual
<1>. DEFINE x == q[Len(p) + 1]
<1>2. Len(p) + 1 \in 1 .. Len(q) /\ x \in S
  BY <1>0, <1>1
<1>3. /\ Append(p, x) \in Seq(S) /\ Len(Append(p, x)) = Len(p) + 1
      /\ \A i \in 1 .. Len(p) : Append(p, x)[i] = p[i]
      /\ Append(p, x)[Len(p) + 1] = x
  BY <1>2, SeqFacts
<1>4. \A k \in 0 .. Len(q) :
        /\ SubSeq(q, 1, k) \in Seq(S) /\ Len(SubSeq(q, 1, k)) = k
        /\ \A i \in 1 .. k : SubSeq(q, 1, k)[i] = q[i]
  BY Beginnings
<1>5. SubSeq(q, 1, Len(p)) = p
  <2>1. Len(p) \in 0 .. Len(q)
    BY <1>0
  <2>. QED  BY <1>0, <1>4, <2>1, SeqEqual
<1>6. \A i \in 1 .. Len(p) + 1 : Append(p, x)[i] = q[i]
  BY <1>0, <1>3
<1>7. SubSeq(q, 1, Len(p) + 1) = Append(p, x)
  <2>1. Len(p) + 1 \in 0 .. Len(q)
    BY <1>2
  <2>2. \A i \in 1 .. Len(p) + 1 : SubSeq(q, 1, Len(p) + 1)[i] = Append(p, x)[i]
    BY <1>4, <1>6, <2>1
  <2>. QED  BY <1>3, <1>4, <2>1, <2>2, SeqEqual
<1>8. Leads(Append(p, x), q)
  BY <1>2, <1>3, <1>6 DEF Leads
<1>. QED  BY <1>2, <1>5, <1>7, <1>8

\* What a value is in is in the document.
LEMMA AboveFacts ==
    ASSUME NEW doc, IsDocument(doc), NEW q \in DOMAIN doc, NEW k \in 0 .. Len(q)
    PROVE  SubSeq(q, 1, k) \in DOMAIN doc
<1>1. q \in Seq(AllNames) /\ DOMAIN q = 1 .. Len(q) /\ Len(q) \in Nat
  BY DEF IsDocument, AllNames
<1>2. \A i \in DOMAIN q : SubSeq(q, 1, i - 1) \in DOMAIN doc
  BY DEF IsDocument
<1>3. CASE k = Len(q)
  BY <1>1, <1>3, SubSeqFull
<1>4. CASE k + 1 \in DOMAIN q
  <2>1. k + 1 - 1 = k
    OBVIOUS
  <2>2. SubSeq(q, 1, k + 1 - 1) \in DOMAIN doc
    BY <1>2, <1>4
  <2>. QED  BY <2>1, <2>2
<1>5. Len(q) \in Nat
  BY <1>1
<1>6. k = Len(q) \/ k + 1 \in 1 .. Len(q)
  BY <1>5
<1>. QED  BY <1>1, <1>3, <1>4, <1>6

\* The members of a value have one name more than it.
LEMMA MembersFacts ==
    ASSUME NEW doc, IsDocument(doc), NEW p \in DOMAIN doc
    PROVE  /\ p \in Seq(AllNames)
           /\ \A v \in Members(doc, p) : \E x \in AllNames : v = Append(p, x) /\ v \in DOMAIN doc
           /\ \A x \in AllNames : Append(p, x) \in DOMAIN doc => Append(p, x) \in Members(doc, p)
           /\ IsFiniteSet(Members(doc, p)) /\ Cardinality(Members(doc, p)) \in Nat
           /\ Members(doc, p) # {} => Cardinality(Members(doc, p)) > 0
<1>1. p \in Seq(AllNames) /\ DOMAIN doc \subseteq Seq(AllNames) /\ IsFiniteSet(DOMAIN doc)
  BY DEF IsDocument, AllNames
<1>2. \A v \in Members(doc, p) : \E x \in AllNames : v = Append(p, x) /\ v \in DOMAIN doc
  <2>. SUFFICES ASSUME NEW v \in Members(doc, p)
                PROVE  \E x \in AllNames : v = Append(p, x) /\ v \in DOMAIN doc
    OBVIOUS
  <2>1. v \in DOMAIN doc /\ v \in Seq(AllNames) /\ v # <<>> /\ Front(v) = p
    BY <1>1 DEF Members
  <2>2. v[Len(v)] \in AllNames /\ v = Append(Front(v), v[Len(v)])
    BY <2>1, FrontAndLast
  <2>. QED  BY <2>1, <2>2
<1>3. \A x \in AllNames : Append(p, x) \in DOMAIN doc => Append(p, x) \in Members(doc, p)
  BY <1>1, SeqFacts DEF Members
<1>4. IsFiniteSet(Members(doc, p)) /\ Cardinality(Members(doc, p)) \in Nat
  BY <1>1, FS_Subset, FS_CardinalityType DEF Members
<1>5. Members(doc, p) # {} => Cardinality(Members(doc, p)) > 0
  BY <1>4, FS_EmptySet
<1>. QED  BY <1>1, <1>2, <1>3, <1>4, <1>5

\* What is visited after a value are members of it, with nothing on their way
\* that is passed over.
LEMMA VisitedFacts ==
    ASSUME NEW doc, IsDocument(doc), NEW p \in DOMAIN doc, OnTheWay(doc, p), NEW v \in Visited(doc, p)
    PROVE  v \in DOMAIN doc /\ OnTheWay(doc, v) /\ \E x \in AllNames : v = Append(p, x)
<1>. DEFINE n == Cardinality(Members(doc, p))
<1>1. p \in Seq(AllNames) /\ n \in Nat /\ (Members(doc, p) # {} => n > 0)
  BY MembersFacts
<1>2. /\ v \in Members(doc, p)
      /\ doc[p] = "array" => \E i \in {1, n} : v = Append(p, Index[i]) 
  <2>1. CASE doc[p] = "array" /\ n > 0
    <3>1. \A i \in 1 .. n : Append(p, Index[i]) \in Members(doc, p)
      BY <2>1 DEF IsDocument
    <3>2. PICK i \in {1, n} : v = Append(p, Index[i])
      BY <2>1 DEF Visited
    <3>3. i \in 1 .. n
      BY <1>1, <2>1
    <3>. QED  BY <3>1, <3>2, <3>3
  <2>2. CASE ~(doc[p] = "array" /\ n > 0)
    <3>1. v \in Members(doc, p)
      BY <2>2 DEF Visited
    <3>. QED  BY <1>1, <2>2, <3>1
  <2>. QED  BY <2>1, <2>2
<1>3. PICK x \in AllNames : v = Append(p, x) /\ v \in DOMAIN doc
  BY <1>2, MembersFacts
<1>4. /\ Len(p) \in Nat /\ v \in Seq(AllNames) /\ Len(v) = Len(p) + 1 /\ v[Len(p) + 1] = x
      /\ \A i \in 1 .. Len(p) : v[i] = p[i]
      /\ DOMAIN p = 1 .. Len(p) /\ DOMAIN v = 1 .. Len(p) + 1
  BY <1>1, <1>3, SeqFacts
<1>5. doc[p] = "array" => x \in {Index[1], Index[n]}
  <2>. SUFFICES ASSUME doc[p] = "array" PROVE x \in {Index[1], Index[n]}
    OBVIOUS
  <2>1. PICK i \in {1, n} : v = Append(p, Index[i])
    BY <1>2
  <2>2. Append(p, Index[i])[Len(p) + 1] = Index[i]
    BY <1>1
  <2>. QED  BY <1>4, <2>1, <2>2
<1>6. Leads(p, v)
  BY <1>4 DEF Leads
<1>7. SubSeq(v, 1, Len(p)) = p
  BY <1>1, <1>4, <1>6, LeadsOn
<1>8. \A i \in 1 .. Len(p) : SubSeq(v, 1, i - 1) = SubSeq(p, 1, i - 1)
  <2>. SUFFICES ASSUME NEW i \in 1 .. Len(p) PROVE SubSeq(v, 1, i - 1) = SubSeq(p, 1, i - 1)
    OBVIOUS
  <2>1. i - 1 \in 0 .. Len(p) /\ i - 1 \in 0 .. Len(v)
    BY <1>4
  <2>2. /\ SubSeq(p, 1, i - 1) \in Seq(AllNames) /\ Len(SubSeq(p, 1, i - 1)) = i - 1
        /\ \A j \in 1 .. i - 1 : SubSeq(p, 1, i - 1)[j] = p[j]
        /\ SubSeq(v, 1, i - 1) \in Seq(AllNames) /\ Len(SubSeq(v, 1, i - 1)) = i - 1
        /\ \A j \in 1 .. i - 1 : SubSeq(v, 1, i - 1)[j] = v[j]
    BY <1>1, <1>4, <2>1, Beginnings
  <2>. QED  BY <1>4, <2>2, SeqEqual
<1>9. OnTheWay(doc, v)
  <2>. SUFFICES ASSUME NEW i \in DOMAIN v, doc[SubSeq(v, 1, i - 1)] = "array"
                PROVE  v[i] \in {Index[1], Index[Cardinality(Members(doc, SubSeq(v, 1, i - 1)))]}
    BY DEF OnTheWay
  <2>1. CASE i \in 1 .. Len(p)
    BY <1>4, <1>8, <2>1 DEF OnTheWay
  <2>2. CASE i = Len(p) + 1
    <3>1. i - 1 = Len(p)
      BY <1>4, <2>2
    <3>. QED  BY <1>4, <1>5, <1>7, <2>2, <3>1
  <2>. QED  BY <1>4, <2>1, <2>2
<1>. QED  BY <1>3, <1>9

\* Nothing that is to be logged is passed over.
LEMMA VisitedLeads ==
    ASSUME NEW doc, IsDocument(doc), NEW p \in DOMAIN doc, NEW q \in Kept(doc), Leads(p, q), p # q
    PROVE  \E v \in Visited(doc, p) : Leads(v, q)
<1>. DEFINE n == Cardinality(Members(doc, p))
            x == q[Len(p) + 1]
<1>1. /\ p \in Seq(AllNames) /\ q \in DOMAIN doc /\ q \in Seq(AllNames) /\ DOMAIN q = 1 .. Len(q)
      /\ OnTheWay(doc, q)
  BY DEF Kept, IsDocument, AllNames
<1>2. /\ Len(p) + 1 \in 1 .. Len(q) /\ x \in AllNames
      /\ SubSeq(q, 1, Len(p)) = p /\ SubSeq(q, 1, Len(p) + 1) = Append(p, x)
      /\ Leads(Append(p, x), q)
  BY <1>1, LeadsOn
<1>3. Append(p, x) \in DOMAIN doc
  <2>1. Len(p) + 1 \in 0 .. Len(q)
    BY <1>2
  <2>. QED  BY <1>1, <1>2, <2>1, AboveFacts
<1>4. Append(p, x) \in Members(doc, p) /\ n \in Nat /\ n > 0
  BY <1>2, <1>3, MembersFacts
<1>5. Append(p, x) \in Visited(doc, p)
  <2>1. CASE doc[p] = "array"
    <3>1. \A i \in DOMAIN q, above \in {p} :
             above = SubSeq(q, 1, i - 1) => q[i] \in {Index[1], Index[Cardinality(Members(doc, above))]}
      BY <1>1, <2>1 DEF OnTheWay
    <3>2. Len(p) + 1 \in DOMAIN q /\ Len(p) + 1 - 1 = Len(p)
      BY <1>1, <1>2
    <3>3. p = SubSeq(q, 1, Len(p) + 1 - 1)
      BY <1>2, <3>2
    <3>4. x \in {Index[1], Index[n]}
      BY <3>1, <3>2, <3>3
    <3>. QED  BY <1>4, <2>1, <3>4 DEF Visited
  <2>2. CASE doc[p] # "array"
    BY <1>4, <2>2 DEF Visited
  <2>. QED  BY <2>1, <2>2
<1>. QED  BY <1>2, <1>5

---------------------------------------------------------------------------
(* The walk over a document                                                *)

\* The values at done are those logged, no two values to visit are within each
\* other, none is logged, and what is neither logged nor within one is not to be.
Walk(doc, todo, log, done) ==
    /\ done \in Seq(Kept(doc)) /\ \A i, j \in 1 .. Len(done) : done[i] = done[j] => i = j
    /\ log = [i \in 1 .. Len(done) |-> Attr(KeyOf(done[i]), doc[done[i]])]
    /\ \A p \in todo : p \in DOMAIN doc /\ OnTheWay(doc, p)
    /\ \A p, q \in todo : Leads(p, q) => p = q
    /\ \A p \in todo, i \in 1 .. Len(done) : ~Leads(p, done[i])
    /\ \A q \in Kept(doc) : (\E i \in 1 .. Len(done) : done[i] = q) \/ \E p \in todo : Leads(p, q)

\* Visiting a value: what is logged.
Logged(doc, p, log1, done, done1) ==
    /\ done1 \in Seq(Kept(doc)) /\ \A i, j \in 1 .. Len(done1) : done1[i] = done1[j] => i = j
    /\ log1 = [i \in 1 .. Len(done1) |-> Attr(KeyOf(done1[i]), doc[done1[i]])]
    /\ \A i \in 1 .. Len(done1) : done1[i] = p \/ \E j \in 1 .. Len(done) : done1[i] = done[j]
    /\ \A i \in 1 .. Len(done) : i \in 1 .. Len(done1) /\ done1[i] = done[i]
    /\ Shown(doc[p]) => Len(done1) \in 1 .. Len(done1) /\ done1[Len(done1)] = p

LEMMA LoggedFacts ==
    ASSUME NEW doc, NEW todo, NEW log, NEW done, Walk(doc, todo, log, done), NEW p \in todo,
           NEW log1, log1 = (IF Shown(doc[p]) THEN Append(log, Attr(KeyOf(p), doc[p])) ELSE log),
           NEW done1, done1 = (IF Shown(doc[p]) THEN Append(done, p) ELSE done), IsDocument(doc)
    PROVE  Logged(doc, p, log1, done, done1)
<1>1. CASE ~Shown(doc[p])
  BY <1>1 DEF Walk, Logged
<1>2. CASE Shown(doc[p])
  <2>1. p \in Kept(doc) /\ p \in DOMAIN doc
    BY <1>2 DEF Walk, Kept
  <2>2. /\ done1 = Append(done, p) /\ done \in Seq(Kept(doc)) /\ Len(done) \in Nat
        /\ done1 \in Seq(Kept(doc)) /\ Len(done1) = Len(done) + 1
        /\ \A i \in 1 .. Len(done) : done1[i] = done[i]
        /\ done1[Len(done) + 1] = p
    BY <1>2, <2>1, SeqFacts DEF Walk
  <2>3. \A i \in 1 .. Len(done) : done[i] # p
    <3>1. p \in Seq(AllNames)
      BY <2>1, MembersFacts
    <3>2. Leads(p, p)
      BY <3>1 DEF Leads
    <3>. QED  BY <3>2 DEF Walk
  <2>4. \A i, j \in 1 .. Len(done1) : done1[i] = done1[j] => i = j
    <3>1. \A i \in 1 .. Len(done1) : i \in 1 .. Len(done) \/ i = Len(done) + 1
      BY <2>2
    <3>2. \A i, j \in 1 .. Len(done) : done[i] = done[j] => i = j
      BY DEF Walk
    <3>. QED  BY <2>2, <2>3, <3>1, <3>2
  <2>5. log1 = [i \in 1 .. Len(done1) |-> Attr(KeyOf(done1[i]), doc[done1[i]])]
    <3>. DEFINE f == [i \in 1 .. Len(done1) |-> Attr(KeyOf(done1[i]), doc[done1[i]])]
                A == {Attr(KeyOf(q), doc[q]) : q \in Kept(doc)}
    <3>0. /\ log = [i \in 1 .. Len(done) |-> Attr(KeyOf(done[i]), doc[done[i]])]
          /\ \A i \in 1 .. Len(done) : done[i] \in Kept(doc)
      BY <2>2, ElementOfSeq DEF Walk
    <3>1. /\ log \in Seq(A) /\ Len(log) = Len(done)
          /\ \A i \in 1 .. Len(done) : log[i] = Attr(KeyOf(done[i]), doc[done[i]])
      <4>1. log \in [1 .. Len(done) -> A]
        BY <3>0
      <4>. QED  BY <2>2, <3>0, <4>1
    <3>2. Attr(KeyOf(p), doc[p]) \in A
      BY <2>1
    <3>. HIDE DEF A
    <3>3. /\ log1 \in Seq(A) /\ Len(log1) = Len(done) + 1
          /\ \A i \in 1 .. Len(done) : log1[i] = log[i]
          /\ log1[Len(done) + 1] = Attr(KeyOf(p), doc[p])
      BY <1>2, <3>1, <3>2, SeqFacts
    <3>4. \A i \in 1 .. Len(done1) : log1[i] = f[i]
      BY <2>2, <3>1, <3>3
    <3>5. DOMAIN log1 = 1 .. Len(done1) /\ log1 = [i \in DOMAIN log1 |-> log1[i]]
      BY <2>2, <3>3
    <3>. QED  BY <3>4, <3>5
  <2>6. \A i \in 1 .. Len(done1) : done1[i] = p \/ \E j \in 1 .. Len(done) : done1[i] = done[j]
    BY <2>2
  <2>7. \A i \in 1 .. Len(done) : i \in 1 .. Len(done1)
    BY <2>2
  <2>8. Len(done1) \in 1 .. Len(done1) /\ done1[Len(done1)] = p
    BY <2>2
  <2>. QED  BY <2>2, <2>4, <2>5, <2>6, <2>7, <2>8 DEF Logged
<1>. QED  BY <1>1, <1>2

\* Visiting a value keeps the walk: its members take its place.
LEMMA WalkOn ==
    ASSUME NEW doc, IsDocument(doc), NEW todo, NEW log, NEW done, Walk(doc, todo, log, done),
           NEW p \in todo
    PROVE  LET log1 == IF Shown(doc[p]) THEN Append(log, Attr(KeyOf(p), doc[p])) ELSE log
               done1 == IF Shown(doc[p]) THEN Append(done, p) ELSE done
           IN Walk(doc, (todo \ {p}) \cup Visited(doc, p), log1, done1)
<1>. DEFINE log1 == IF Shown(doc[p]) THEN Append(log, Attr(KeyOf(p), doc[p])) ELSE log
            done1 == IF Shown(doc[p]) THEN Append(done, p) ELSE done
            todo1 == (todo \ {p}) \cup Visited(doc, p)
<1>1. p \in DOMAIN doc /\ OnTheWay(doc, p) /\ p \in Seq(AllNames) /\ \A q \in DOMAIN doc : q \in Seq(AllNames)
  BY DEF Walk, IsDocument, AllNames
<1>0. /\ log1 = (IF Shown(doc[p]) THEN Append(log, Attr(KeyOf(p), doc[p])) ELSE log)
      /\ done1 = (IF Shown(doc[p]) THEN Append(done, p) ELSE done)
  OBVIOUS
<1>. HIDE DEF log1, done1
<1>2. /\ done1 \in Seq(Kept(doc)) /\ \A i, j \in 1 .. Len(done1) : done1[i] = done1[j] => i = j
      /\ log1 = [i \in 1 .. Len(done1) |-> Attr(KeyOf(done1[i]), doc[done1[i]])]
      /\ \A i \in 1 .. Len(done1) : done1[i] = p \/ \E j \in 1 .. Len(done) : done1[i] = done[j]
      /\ \A i \in 1 .. Len(done) : i \in 1 .. Len(done1) /\ done1[i] = done[i]
      /\ Shown(doc[p]) => Len(done1) \in 1 .. Len(done1) /\ done1[Len(done1)] = p
  <2>1. Logged(doc, p, log1, done, done1)
    BY <1>0, LoggedFacts
  <2>. QED  BY <2>1 DEF Logged
<1>3. \A v \in Visited(doc, p) :
        /\ v \in DOMAIN doc /\ OnTheWay(doc, v) /\ v \in Seq(AllNames)
        /\ Leads(p, v) /\ ~Leads(v, p)
        /\ \A q \in DOMAIN doc : (Leads(v, q) => Leads(p, q)) /\ (Leads(q, v) => q = v \/ Leads(q, p))
  <2>. SUFFICES ASSUME NEW v \in Visited(doc, p)
                PROVE  /\ v \in DOMAIN doc /\ OnTheWay(doc, v) /\ v \in Seq(AllNames)
                       /\ Leads(p, v) /\ ~Leads(v, p)
                       /\ \A q \in DOMAIN doc : (Leads(v, q) => Leads(p, q)) /\ (Leads(q, v) => q = v \/ Leads(q, p))
    OBVIOUS
  <2>1. PICK x \in AllNames : v = Append(p, x)
    BY <1>1, VisitedFacts
  <2>2. v \in DOMAIN doc /\ OnTheWay(doc, v)
    BY <1>1, VisitedFacts
  <2>. QED  BY <1>1, <2>1, <2>2, LeadsFacts
<1>4. \A v, w \in Visited(doc, p) : Leads(v, w) => v = w
  BY <1>3
<1>5. \A q \in todo1 : q \in DOMAIN doc /\ OnTheWay(doc, q)
  BY <1>3 DEF Walk
<1>6. \A q, r \in todo1 : Leads(q, r) => q = r
  <2>. SUFFICES ASSUME NEW q \in todo1, NEW r \in todo1, Leads(q, r) PROVE q = r
    OBVIOUS
  <2>0. \A a, b \in todo : Leads(a, b) => a = b
    BY DEF Walk
  <2>1. CASE q \in todo \ {p} /\ r \in todo \ {p}
    BY <2>0, <2>1
  <2>2. CASE q \in Visited(doc, p) /\ r \in Visited(doc, p)
    BY <1>4, <2>2
  <2>3. CASE q \in todo \ {p} /\ r \in Visited(doc, p)
    BY <1>3, <1>5, <2>0, <2>3
  <2>4. CASE q \in Visited(doc, p) /\ r \in todo \ {p}
    BY <1>3, <1>5, <2>0, <2>4
  <2>. QED  BY <2>1, <2>2, <2>3, <2>4
<1>7. \A q \in todo1, i \in 1 .. Len(done1) : ~Leads(q, done1[i])
  <2>. SUFFICES ASSUME NEW q \in todo1, NEW i \in 1 .. Len(done1) PROVE ~Leads(q, done1[i])
    OBVIOUS
  <2>0. /\ \A a \in todo, j \in 1 .. Len(done) : ~Leads(a, done[j])
        /\ \A a, b \in todo : Leads(a, b) => a = b
        /\ \A j \in 1 .. Len(done1) : done1[j] \in DOMAIN doc
    BY <1>2, ElementOfSeq DEF Walk, Kept
  <2>1. CASE done1[i] = p
    BY <1>3, <2>0, <2>1
  <2>2. CASE \E j \in 1 .. Len(done) : done1[i] = done[j]
    BY <1>3, <2>0, <2>2
  <2>. QED  BY <1>2, <2>1, <2>2
<1>8. \A q \in Kept(doc) : (\E i \in 1 .. Len(done1) : done1[i] = q) \/ \E r \in todo1 : Leads(r, q)
  <2>. SUFFICES ASSUME NEW q \in Kept(doc)
                PROVE  (\E i \in 1 .. Len(done1) : done1[i] = q) \/ \E r \in todo1 : Leads(r, q)
    OBVIOUS
  <2>1. CASE \E i \in 1 .. Len(done) : done[i] = q
    BY <1>2, <2>1
  <2>2. CASE \E r \in todo \ {p} : Leads(r, q)
    BY <2>2
  <2>3. CASE q = p
    BY <1>2, <2>3 DEF Kept
  <2>4. CASE Leads(p, q) /\ p # q
    BY <1>1, <2>4, VisitedLeads
  <2>. QED  BY <2>1, <2>2, <2>3, <2>4 DEF Walk
<1>9. Walk(doc, todo1, log1, done1)
  BY <1>2, <1>5, <1>6, <1>7, <1>8 DEF Walk
<1>. QED  BY <1>9 DEF log1, done1

\* With nothing left to visit, what is logged is what is to be, each once.
LEMMA WalkEnds ==
    ASSUME NEW doc, IsDocument(doc), NEW log, NEW done, Walk(doc, {}, log, done)
    PROVE  /\ ToSet(log) = {Attr(KeyOf(names), doc[names]) : names \in Kept(doc)}
           /\ Len(log) = Cardinality(Kept(doc))
           /\ log \in Seq({Attr(KeyOf(names), doc[names]) : names \in Kept(doc)})
<1>1. /\ done \in Seq(Kept(doc)) /\ Len(done) \in Nat /\ DOMAIN done = 1 .. Len(done)
      /\ \A i \in 1 .. Len(done) : done[i] \in Kept(doc)
      /\ \A q \in Kept(doc) : \E i \in 1 .. Len(done) : done[i] = q
      /\ \A i, j \in 1 .. Len(done) : done[i] = done[j] => i = j
      /\ log = [i \in 1 .. Len(done) |-> Attr(KeyOf(done[i]), doc[done[i]])]
  BY ElementOfSeq DEF Walk
<1>2. ToSet(log) = {Attr(KeyOf(names), doc[names]) : names \in Kept(doc)}
  BY <1>1 DEF ToSet
<1>. DEFINE A == {Attr(KeyOf(names), doc[names]) : names \in Kept(doc)}
<1>3. log \in Seq(A) /\ Len(log) = Len(done)
  <2>1. log \in [1 .. Len(done) -> A]
    BY <1>1
  <2>. QED  BY <1>1, <2>1
<1>4. Cardinality(Kept(doc)) = Len(done)
  <2>1. done \in [1 .. Len(done) -> Kept(doc)]
    BY <1>1
  <2>2. done \in Injection(1 .. Len(done), Kept(doc))
    BY <1>1, <2>1 DEF Injection, IsInjective
  <2>3. done \in Surjection(1 .. Len(done), Kept(doc))
    BY <1>1, <2>1 DEF Surjection
  <2>4. ExistsBijection(1 .. Len(done), Kept(doc))
    BY <2>2, <2>3 DEF ExistsBijection, Bijection
  <2>. QED  BY <1>1, <2>4, UpTo, FS_Bijection
<1>. QED  BY <1>2, <1>3, <1>4

---------------------------------------------------------------------------
(* Attributes with a key each, and the line of the remote log              *)

\* Attributes that have a key each.
Distinct(log) ==
    /\ Len(log) \in Nat /\ DOMAIN log = 1 .. Len(log)
    /\ \A i, j \in DOMAIN log : log[i].key = log[j].key => i = j

\* The exception of LinesAgree.
Dotted(doc) == \E names \in Kept(doc) : \E i \in DOMAIN names : Len(names[i]) > 1

\* The parts of names and of the prefix.
Parts == {"http", "body"} \cup UNION {ToSet(name) : name \in AllNames}

LEMMA NamesAreKeys ==
    /\ AllNames \subseteq Seq(Parts) /\ <<>> \notin AllNames /\ Names \subseteq AllNames
    /\ Prefix \in Seq(Parts)
<1>1. \A name \in AllNames : name \in Seq(ToSet(name)) /\ name # <<>>
  BY AttrsAssumption, Zenon DEF AllNames
<1>2. \A name \in AllNames : name \in Seq(Parts)
  <2>. SUFFICES ASSUME NEW name \in AllNames PROVE name \in Seq(Parts)
    OBVIOUS
  <2>1. ToSet(name) \subseteq Parts
    BY Zenon DEF Parts
  <2>. QED  BY <1>1, <2>1, SeqMonotonic
<1>3. "http" \in Parts /\ "body" \in Parts
  BY Zenon DEF Parts
<1>4. Prefix \in Seq(Parts)
  BY <1>3 DEF Prefix
<1>. QED  BY <1>1, <1>2, <1>4 DEF AllNames

\* Different names make different keys, and each name is logged once.
LEMMA JsonDistinct ==
    ASSUME NEW doc, IsDocument(doc), ~Dotted(doc), NEW log, NEW done, Walk(doc, {}, log, done)
    PROVE  Distinct(log)
<1>. DEFINE S == Parts
<1>0. AllNames \subseteq Seq(S) /\ <<>> \notin AllNames /\ Prefix \in Seq(S)
  BY NamesAreKeys
<1>. HIDE DEF S
<1>1. \A q \in Kept(doc) : q \in Seq(Seq(S)) /\ \A i \in 1 .. Len(q) : Len(q[i]) = 1
  <2>. SUFFICES ASSUME NEW q \in Kept(doc)
                PROVE  q \in Seq(Seq(S)) /\ \A i \in 1 .. Len(q) : Len(q[i]) = 1
    OBVIOUS
  <2>1. q \in Seq(AllNames)
    BY DEF Kept, IsDocument, AllNames
  <2>2. q \in Seq(Seq(S))
    BY <1>0, <2>1, SeqMonotonic
  <2>3. ASSUME NEW i \in 1 .. Len(q) PROVE Len(q[i]) = 1
    <3>1. q[i] \in AllNames
      BY <2>1, ElementOfSeq
    <3>2. Len(q[i]) \in Nat \ {0}
      BY <1>0, <3>1, EmptySeq
    <3>3. ~(Len(q[i]) > 1)
      <4>1. i \in DOMAIN q
        BY <2>1
      <4>. QED  BY <4>1 DEF Dotted
    <3>4. \A n \in Nat \ {0} : n > 1 \/ n = 1
      OBVIOUS
    <3>. QED  BY <3>2, <3>3, <3>4, Zenon
  <2>. QED  BY <2>2, <2>3
<1>2. /\ done \in Seq(Kept(doc)) /\ Len(done) \in Nat
      /\ \A i \in 1 .. Len(done) : done[i] \in Kept(doc)
      /\ \A i, j \in 1 .. Len(done) : done[i] = done[j] => i = j
      /\ log = [i \in 1 .. Len(done) |-> Attr(KeyOf(done[i]), doc[done[i]])]
  BY ElementOfSeq DEF Walk
<1>3. Len(log) \in Nat /\ DOMAIN log = 1 .. Len(log) /\ Len(log) = Len(done)
  <2>1. log \in [1 .. Len(done) -> {Attr(KeyOf(q), doc[q]) : q \in Kept(doc)}]
    BY <1>2
  <2>2. log \in Seq({Attr(KeyOf(q), doc[q]) : q \in Kept(doc)})
    BY <1>2, <2>1
  <2>3. DOMAIN log = 1 .. Len(done)
    BY <1>2
  <2>. QED  BY <1>2, <2>2, <2>3
<1>4. \A i, j \in DOMAIN log : log[i].key = log[j].key => i = j
  <2>. SUFFICES ASSUME NEW i \in DOMAIN log, NEW j \in DOMAIN log, log[i].key = log[j].key
                PROVE  i = j
    OBVIOUS
  <2>0. i \in 1 .. Len(done) /\ j \in 1 .. Len(done)
    BY <1>3
  <2>1. KeyOf(done[i]) = KeyOf(done[j])
    BY <1>2, <2>0 DEF Attr
  <2>2. done[i] = done[j]
    BY <1>0, <1>1, <1>2, <2>0, <2>1, KeysDiffer
  <2>. QED  BY <1>2, <2>0, <2>2
<1>. QED  BY <1>3, <1>4 DEF Distinct

\* A form has each field once.
LEMMA FormDistinct ==
    ASSUME NEW fields \in SUBSET Names, NEW log \in FormAttrs(fields)
    PROVE  Distinct(log)
<1>. DEFINE S == Parts
            n == Cardinality(fields)
<1>0. fields \subseteq Seq(S) /\ Prefix \in Seq(S) /\ n \in Nat
  <2>1. IsFiniteSet(fields)
    BY AttrsAssumption, FS_Subset
  <2>. QED  BY <2>1, NamesAreKeys, FS_CardinalityType
<1>. HIDE DEF S
<1>1. PICK order \in SetToSeqs(fields) : log = [i \in DOMAIN order |-> Attr(Prefix \o order[i], "text")]
  BY DEF FormAttrs
<1>2. order \in [1 .. n -> fields] /\ \A i, j \in 1 .. n : i # j => order[i] # order[j]
  BY DEF SetToSeqs
<1>. HIDE DEF n
<1>3. log = [i \in 1 .. n |-> Attr(Prefix \o order[i], "text")]
  BY <1>1, <1>2
<1>4. Len(log) \in Nat /\ DOMAIN log = 1 .. Len(log) /\ Len(log) = n
  <2>. DEFINE A == {Attr(Prefix \o a, "text") : a \in fields}
  <2>1. log \in [1 .. n -> A]
    BY <1>2, <1>3
  <2>. HIDE DEF A
  <2>2. log \in Seq(A)
    BY <1>0, <2>1
  <2>3. DOMAIN log = 1 .. n
    BY <1>3
  <2>. QED  BY <1>0, <2>2, <2>3
<1>5. \A i, j \in DOMAIN log : log[i].key = log[j].key => i = j
  <2>. SUFFICES ASSUME NEW i \in 1 .. n, NEW j \in 1 .. n, log[i].key = log[j].key
                PROVE  i = j
    BY <1>4
  <2>1. Prefix \o order[i] = Prefix \o order[j]
    BY <1>3 DEF Attr
  <2>2. order[i] \in Seq(S) /\ order[j] \in Seq(S)
    BY <1>0, <1>2
  <2>3. order[i] = order[j]
    BY <1>0, <2>1, <2>2, ConcatSimplifications
  <2>. QED  BY <1>2, <2>3
<1>. QED  BY <1>4, <1>5 DEF Distinct

\* The one or two attributes of a binary body.
LEMMA BinaryDistinct ==
    ASSUME NEW n \in 0 .. MaxSample + 1
    PROVE  Distinct(BinaryAttrs(n))
<1>1. PICK names \in {<<>>, <<"base64">>, <<"size_bytes", "sample_base64">>} :
         BinaryAttrs(n) = [i \in DOMAIN names |-> Attr(Append(Prefix, names[i]), "text")]
  BY AttrsAssumption DEF BinaryAttrs
<1>2. CASE names = <<>>
  BY <1>1, <1>2 DEF Distinct
<1>3. CASE names = <<"base64">>
  BY <1>1, <1>3 DEF Distinct
<1>4. CASE names = <<"size_bytes", "sample_base64">>
  <2>. DEFINE log == BinaryAttrs(n)
  <2>1. log = [i \in 1 .. 2 |-> Attr(Append(Prefix, names[i]), "text")]
    BY <1>1, <1>4
  <2>. HIDE DEF log
  <2>2. log[1].key = <<"http", "body", "size_bytes">> /\ log[2].key = <<"http", "body", "sample_base64">>
    BY <1>4, <2>1 DEF Attr, Prefix
  <2>3. log[1].key # log[2].key
    BY <2>2
  <2>4. Len(log) = 2 /\ DOMAIN log = 1 .. 2
    BY <2>1
  <2>5. \A i \in 1 .. 2 : i = 1 \/ i = 2
    OBVIOUS
  <2>6. Len(log) \in Nat /\ DOMAIN log = 1 .. Len(log)
    BY <2>4
  <2>7. \A i, j \in DOMAIN log : log[i].key = log[j].key => i = j
    BY <2>3, <2>4, <2>5
  <2>8. Distinct(log)
    BY <2>6, <2>7 DEF Distinct
  <2>. QED  BY <2>8 DEF log
<1>. QED  BY <1>1, <1>2, <1>3, <1>4

\* The line that Emit makes of attributes.
LineOf(log) ==
    LET keys == {log[i].key : i \in DOMAIN log}
        last(k) == CHOOSE i \in DOMAIN log : log[i].key = k /\ \A j \in DOMAIN log : log[j].key = k => j <= i
    IN [k \in keys |-> log[last(k)].value]

\* A map from keys to values loses nothing of attributes that have a key each.
LEMMA LineHasAll ==
    ASSUME NEW log, Distinct(log)
    PROVE  /\ Cardinality(DOMAIN LineOf(log)) = Len(log)
           /\ \A i \in DOMAIN log : LineOf(log)[log[i].key] = log[i].value
<1>. DEFINE keys == {log[i].key : i \in DOMAIN log}
            last(k) == CHOOSE i \in DOMAIN log : log[i].key = k /\ \A j \in DOMAIN log : log[j].key = k => j <= i
            f == [i \in 1 .. Len(log) |-> log[i].key]
<1>1. LineOf(log) = [k \in keys |-> log[last(k)].value]
  BY DEF LineOf
<1>2. \A i \in DOMAIN log : last(log[i].key) = i
  <2>. SUFFICES ASSUME NEW i \in DOMAIN log PROVE last(log[i].key) = i
    OBVIOUS
  <2>1. \A j \in DOMAIN log : log[j].key = log[i].key => j <= i
    BY DEF Distinct
  <2>2. last(log[i].key) \in DOMAIN log /\ log[last(log[i].key)].key = log[i].key
    BY <2>1
  <2>. QED  BY <2>2 DEF Distinct
<1>. HIDE DEF last
<1>3. \A i \in DOMAIN log : LineOf(log)[log[i].key] = log[i].value
  BY <1>1, <1>2
<1>4. Cardinality(keys) = Len(log)
  <2>0. Len(log) \in Nat /\ DOMAIN log = 1 .. Len(log)
    BY DEF Distinct
  <2>1. f \in [1 .. Len(log) -> keys]
    BY <2>0
  <2>2. f \in Injection(1 .. Len(log), keys)
    BY <2>0, <2>1 DEF Injection, IsInjective, Distinct
  <2>3. f \in Surjection(1 .. Len(log), keys)
    BY <2>0, <2>1 DEF Surjection
  <2>4. ExistsBijection(1 .. Len(log), keys)
    BY <2>2, <2>3 DEF ExistsBijection, Bijection
  <2>. QED  BY <2>0, <2>4, UpTo, FS_Bijection
<1>. QED  BY <1>1, <1>3, <1>4

---------------------------------------------------------------------------
(* The attributes of a body                                                *)

\* A JSON body is being walked, or has been; the others have their attributes at
\* once, with a key each.
BodyInv ==
    /\ body \in Bodies
    /\ pc = "decode" => attrs = <<>> /\ work = {}
    /\ pc \in {"emit", "done"} => work = {}
    /\ pc = "flatten" => body.format = "json"
    /\ body.format = "json" /\ pc # "decode" => \E done \in Seq(Kept(body.doc)) : Walk(body.doc, work, attrs, done)
    /\ body.format # "json" /\ pc # "decode" => Distinct(attrs)
    /\ pc \in {"decode", "flatten", "emit", "done"}
    /\ pc = "done" => line = LineOf(attrs)

LEMMA BodyStart == Init => BodyInv
  BY DEF Init, BodyInv

LEMMA DocOfBody == BodyInv /\ body.format = "json" => IsDocument(body.doc)
<1>. SUFFICES ASSUME body \in Bodies, body.format = "json" PROVE body.doc \in Documents
  BY AttrsAssumption DEF BodyInv
<1>. QED  BY DEF Bodies

LEMMA DecodeStep ==
    ASSUME BodyInv, Decode
    PROVE  BodyInv'
<1>0. body' = body /\ line' = line /\ pc = "decode" /\ body \in Bodies /\ attrs = <<>> /\ work = {}
  BY DEF Decode, BodyInv
<1>1. CASE body.format = "json"
  <2>1. pc' = "flatten" /\ work' = {<<>>} /\ attrs' = <<>>
    BY <1>0, <1>1 DEF Decode
  <2>2. Walk(body.doc, {<<>>}, <<>>, <<>>)
    <3>1. IsDocument(body.doc) /\ <<>> \in DOMAIN body.doc
      BY <1>1, DocOfBody DEF IsDocument
    <3>2. \A q \in Kept(body.doc) : Leads(<<>>, q)
      <4>. SUFFICES ASSUME NEW q \in Kept(body.doc) PROVE Leads(<<>>, q)
        OBVIOUS
      <4>1. q \in Seq(AllNames) /\ Len(q) \in Nat
        BY <3>1 DEF Kept, IsDocument, AllNames
      <4>. QED  BY <4>1 DEF Leads
    <3>3. OnTheWay(body.doc, <<>>)
      BY DEF OnTheWay
    <3>4. <<>> \in Seq(Kept(body.doc)) /\ Len(<<>>) = 0 /\ 1 .. 0 = {}
      OBVIOUS
    <3>5. <<>> = [i \in 1 .. Len(<<>>) |-> Attr(KeyOf(<<>>[i]), body.doc[<<>>[i]])]
      BY <3>4
    <3>. QED  BY <3>1, <3>2, <3>3, <3>4, <3>5 DEF Walk
  <2>3. \E done \in Seq(Kept(body.doc)) : Walk(body.doc, {<<>>}, <<>>, done)
    BY <2>2, EmptySeq
  <2>. QED  BY <1>0, <1>1, <2>1, <2>3 DEF BodyInv
<1>2. CASE body.format # "json"
  <2>1. pc' = "emit" /\ work' = {}
    BY <1>0, <1>2 DEF Decode
  <2>2. Distinct(attrs')
    <3>. DEFINE made == CASE body.format = "text" -> {<<Attr(Prefix, "text")>>}
                          [] body.format = "bad form" -> {<<Attr(Append(Prefix, "error"), "text")>>}
                          [] body.format = "form" -> FormAttrs(body.fields)
                          [] body.format = "binary" -> {BinaryAttrs(body.length)}
    <3>0. attrs' \in made
      BY <1>2 DEF Decode
    <3>1. CASE body.format = "text"
      <4>1. attrs' = <<Attr(Prefix, "text")>>
        BY <3>0, <3>1
      <4>. QED  BY <4>1 DEF Distinct
    <3>2. CASE body.format = "bad form"
      <4>1. attrs' = <<Attr(Append(Prefix, "error"), "text")>>
        BY <3>0, <3>2
      <4>. QED  BY <4>1 DEF Distinct
    <3>3. CASE body.format = "form"
      <4>1. body.fields \in SUBSET Names /\ attrs' \in FormAttrs(body.fields)
        BY <1>0, <3>0, <3>3 DEF Bodies
      <4>. QED  BY <4>1, FormDistinct
    <3>4. CASE body.format = "binary"
      <4>1. body.length \in 0 .. MaxSample + 1 /\ attrs' = BinaryAttrs(body.length)
        BY <1>0, <3>0, <3>4 DEF Bodies
      <4>. QED  BY <4>1, BinaryDistinct
    <3>5. body.format \in {"text", "bad form", "form", "binary"}
      BY <1>0, <1>2 DEF Bodies
    <3>. QED  BY <3>1, <3>2, <3>3, <3>4, <3>5
  <2>. QED  BY <1>0, <1>2, <2>1, <2>2 DEF BodyInv
<1>. QED  BY <1>1, <1>2

LEMMA FlattenStep ==
    ASSUME BodyInv, Flatten
    PROVE  BodyInv'
<1>0. body' = body /\ pc' = pc /\ line' = line /\ pc = "flatten" /\ body.format = "json" /\ IsDocument(body.doc)
  BY DocOfBody DEF Flatten, BodyInv
<1>1. PICK p \in work :
         /\ work' = (work \ {p}) \cup Visited(body.doc, p)
         /\ attrs' = IF Shown(body.doc[p]) THEN Append(attrs, Attr(KeyOf(p), body.doc[p])) ELSE attrs
  BY DEF Flatten
<1>2. PICK done : Walk(body.doc, work, attrs, done)
  BY <1>0 DEF BodyInv
<1>3. Walk(body.doc, work', attrs', IF Shown(body.doc[p]) THEN Append(done, p) ELSE done)
  BY <1>0, <1>1, <1>2, WalkOn
<1>4. \E after \in Seq(Kept(body.doc)) : Walk(body.doc, work', attrs', after)
  BY <1>3 DEF Walk
<1>. QED  BY <1>0, <1>4 DEF BodyInv

LEMMA EmitStep ==
    ASSUME BodyInv, Emit
    PROVE  BodyInv'
<1>1. body' = body /\ work' = work /\ attrs' = attrs /\ pc = "emit" /\ pc' = "done"
  BY DEF Emit
<1>2. line' = LineOf(attrs)
  BY DEF Emit, LineOf
<1>. QED  BY <1>1, <1>2 DEF BodyInv

LEMMA BodyStep == BodyInv /\ [Next]_vars => BodyInv'
<1>. SUFFICES ASSUME BodyInv, [Next]_vars PROVE BodyInv'
  OBVIOUS
<1>1. CASE Flattened
  BY <1>1 DEF Flattened, BodyInv
<1>2. CASE UNCHANGED vars
  BY <1>2 DEF vars, BodyInv
<1>. QED  BY <1>1, <1>2, DecodeStep, FlattenStep, EmitStep DEF Next

LEMMA BodySteps == [LogNext]_allVars => [Next]_vars
<1>. SUFFICES ASSUME [LogNext]_allVars PROVE [Next]_vars
  OBVIOUS
<1>1. CASE Make \/ EmitAlone \/ UNCHANGED allVars
  BY <1>1 DEF Make, EmitAlone, allVars, Next
<1>2. CASE Logging
  BY <1>2 DEF Logging, Write, Post, Next
<1>. QED  BY <1>1, <1>2 DEF LogNext

\* The body is treated so under the actions of BodyAttrs alone.
LEMMA BodyIsKept == Spec => []BodyInv
  BY BodyStart, BodyStep, PTL DEF Spec

\* LogRecords implements BodyAttrs: the records of the process add nothing to
\* how a body becomes attributes and the two lines.
THEOREM BodyWithin == LogSpec => Spec
<1>1. LogInit => Init
  BY DEF LogInit
<1>. QED  BY <1>1, BodySteps, PTL DEF LogSpec, Spec

LEMMA BodyFlattenExact == BodyInv => FlattenExact
<1>. SUFFICES ASSUME BodyInv, body.format = "json", pc = "emit"
              PROVE  /\ ToSet(attrs) = {Attr(KeyOf(names), body.doc[names]) : names \in Kept(body.doc)}
                     /\ Len(attrs) = Cardinality(Kept(body.doc))
  BY DEF FlattenExact
<1>1. PICK done : Walk(body.doc, {}, attrs, done)
  BY DEF BodyInv
<1>. QED  BY <1>1, DocOfBody, WalkEnds

LEMMA BodyLinesAgree == BodyInv => LinesAgree
<1>. SUFFICES ASSUME BodyInv, pc = "done", ~(body.format = "json" /\ Dotted(body.doc))
              PROVE  /\ Cardinality(DOMAIN line) = Len(attrs)
                     /\ \A i \in DOMAIN attrs : line[attrs[i].key] = attrs[i].value
  BY DEF LinesAgree, Dotted
<1>1. CASE body.format = "json"
  <2>1. PICK done : Walk(body.doc, {}, attrs, done)
    BY <1>1 DEF BodyInv
  <2>2. Distinct(attrs)
    BY <1>1, <2>1, DocOfBody, JsonDistinct
  <2>. QED  BY <2>2, LineHasAll DEF BodyInv
<1>2. CASE body.format # "json"
  <2>1. Distinct(attrs)
    BY <1>2 DEF BodyInv
  <2>. QED  BY <2>1, LineHasAll DEF BodyInv
<1>. QED  BY <1>1, <1>2

\* FlattenExact: in whatever order the maps are visited, every scalar that is to
\* be logged is, once, whatever the document's depth, width and names.
THEOREM JsonFlattened == LogSpec => []FlattenExact
  BY BodyWithin, BodyIsKept, BodyFlattenExact, PTL

\* LinesAgree: the line of the remote log has every attribute of the line on
\* stdout, whatever the body, unless it is JSON with a dot in a name.
THEOREM SameInBothLines == LogSpec => []LinesAgree
  BY BodyWithin, BodyIsKept, BodyLinesAgree, PTL
=============================================================================
