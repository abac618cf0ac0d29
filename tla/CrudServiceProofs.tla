--------------------------- MODULE CrudServiceProofs ---------------------------
(***************************************************************************)
(* Proofs about CrudService for any number of requests, ids and products.  *)
(***************************************************************************)
EXTENDS CrudService, TLAPS

---------------------------------------------------------------------------
(* The inductive invariant                                                 *)

\* What each handler holds, by where it is.
HandlerInv ==
    \A r \in Requests :
        /\ pc[r] = "idle" => call[r] = NoCall
        /\ link[r] = "none" <=> call[r] = NoCall
        /\ pc[r] \in {"await", "scan", "gone"} => call[r] # NoCall
        /\ pc[r] = "scan" => call[r].op = "GetAll" /\ link[r] = "executed"
        /\ link[r] = "cut" => call[r].op = "GetAll"
        /\ pc[r] # "done" => reply[r] = NoReply

\* What the checks of the handlers and of the service let through.
CallInv ==
    \A r \in Requests :
        /\ call[r].op \in {"GetByID", "Create", "Update", "Delete"} => call[r].id \in Ids
        /\ call[r].op \in {"Create", "Update"} => call[r].doc \in Products
        /\ call[r].op = "Create" => ValidProduct(call[r].doc) /\ call[r].id \in minted
        /\ call[r].op = "Delete" => call[r].doc = Absent

Inv == TypeOK /\ HandlerInv /\ CallInv

---------------------------------------------------------------------------
(* Lemmas about the operators                                              *)

\* int32() yields an integer.
LEMMA ToInt32Type == ASSUME NEW n \in Int PROVE ToInt32(n) \in Int
  BY CrudAssumption, SMT DEF ToInt32

\* An error never looks like a success.
LEMMA ErrorCodes ==
    ASSUME NEW proto \in Protocols, NEW op \in Ops
    PROVE  /\ FailCode(proto, op) \in {"400", "404", "500", "Unknown"}
           /\ RefuseCode(proto) \in {"400", "Unknown"}
  BY DEF FailCode, RefuseCode, Protocols, Ops

\* What the handlers answer has the type of an answer.
LEMMA AnswerType ==
    ASSUME NEW proto \in Protocols, NEW items \in SUBSET Items
    PROVE  /\ Success(proto, items) \in [code : {"200", "OK"}, items : SUBSET Items, blank : BOOLEAN]
           /\ Success(proto, items).code \in {"200", "OK"}
<1>1. ASSUME NEW i \in items
      PROVE  <<i[1], [i[2] EXCEPT !.stock = ToInt32(@)]>> \in Items
  <2>1. i[1] \in Ids /\ i[2] \in Product
    BY DEF Items
  <2>2. [i[2] EXCEPT !.stock = ToInt32(@)] \in Product
    BY <2>1, ToInt32Type DEF Product
  <2> QED
    BY <2>1, <2>2 DEF Items
<1> QED
  BY <1>1 DEF Success, OkCode, Protocols

---------------------------------------------------------------------------
(* Type correctness                                                        *)

LEMMA InitInv == Init => Inv
<1> SUFFICES ASSUME Init PROVE Inv
  OBVIOUS
<1>1. TypeOK
  BY CrudAssumption DEF Init, TypeOK, NoReply
<1>2. HandlerInv
  BY DEF Init, HandlerInv
<1>3. CallInv
  BY DEF Init, CallInv, NoCall
<1> QED
  BY <1>1, <1>2, <1>3 DEF Inv

\* A handler that submits a checked call.
LEMMA SubmitStep ==
    ASSUME Inv, NEW r \in Requests, NEW c \in Calls, Submit(r, c), pc[r] = "idle",
           minted \subseteq minted', minted' \subseteq Ids,
           c.op \in {"GetByID", "Create", "Update", "Delete"} => c.id \in Ids,
           c.op \in {"Create", "Update"} => c.doc \in Products,
           c.op = "Create" => ValidProduct(c.doc) /\ c.id \in minted',
           c.op = "Delete" => c.doc = Absent
    PROVE  Inv'
<1>1. TypeOK'
  BY DEF Inv, TypeOK, Submit, Calls, NoCall
<1>2. HandlerInv'
  BY DEF Inv, TypeOK, HandlerInv, Submit, Calls, NoCall, Ops, Protocols
<1>3. CallInv'
  BY DEF Inv, TypeOK, CallInv, Submit
<1> QED
  BY <1>1, <1>2, <1>3 DEF Inv

\* A handler that refuses a call.
LEMMA RefuseStep ==
    ASSUME Inv, NEW r \in Requests, pc[r] = "idle",
           NEW code \in {"400", "404", "500", "Unknown"}, Refuse(r, code)
    PROVE  Inv'
<1>1. TypeOK'
  BY DEF Inv, TypeOK, Refuse, Failure
<1>2. HandlerInv'
  BY DEF Inv, TypeOK, HandlerInv, Refuse
<1>3. CallInv'
  BY DEF Inv, CallInv, Refuse
<1> QED
  BY <1>1, <1>2, <1>3 DEF Inv

\* A handler that answers after it reached the repository.
LEMMA AnswerStep ==
    ASSUME Inv, NEW r \in Requests, pc[r] \in {"await", "scan"},
           NEW rep \in [code : {"none", "200", "400", "404", "500", "OK", "Unknown"},
                        items : SUBSET Items, blank : BOOLEAN],
           Answer(r, rep)
    PROVE  Inv'
<1>1. TypeOK'
  BY DEF Inv, TypeOK, Answer
<1>2. HandlerInv'
  BY DEF Inv, TypeOK, HandlerInv, Answer
<1>3. CallInv'
  BY DEF Inv, CallInv, Answer
<1> QED
  BY <1>1, <1>2, <1>3 DEF Inv

\* A handler that waits has a call of one of the protocols.
LEMMA CallType ==
    ASSUME Inv, NEW r \in Requests, pc[r] \in {"await", "scan", "gone"}
    PROVE  call[r] \in Calls /\ call[r].proto \in Protocols /\ call[r].op \in Ops
  BY DEF Inv, TypeOK, HandlerInv, Calls

\* The documents an answer is made of are products under ids.
LEMMA BodyType ==
    ASSUME Inv, NEW r \in Requests, pc[r] \in {"await", "scan"}
    PROVE  Body(r) \in SUBSET Items
<1>1. Products \subseteq Product
  BY CrudAssumption
<1>2. CASE call[r].op = "Create"
  BY <1>1, <1>2 DEF Inv, CallInv, Body, Items
<1>3. CASE call[r].op = "Update"
  BY <1>1, <1>3 DEF Inv, CallInv, Body, Items
<1>4. CASE call[r].op = "Delete"
  BY <1>4 DEF Body
<1>5. CASE call[r].op \in {"GetAll", "GetByID"}
  <2>1. listed[r] \in SUBSET Items
    BY <1>1 DEF Inv, TypeOK, Items
  <2> QED
    BY <2>1, <1>5 DEF Body
<1> QED
  BY CallType, <1>2, <1>3, <1>4, <1>5 DEF Ops

\* Every step of the service, of MongoDB and of a failing process preserves Inv.
LEMMA NextInv == Inv /\ [Next]_vars => Inv'
<1> SUFFICES ASSUME Inv, [Next]_vars PROVE Inv'
  OBVIOUS
<1>1. ASSUME NEW r \in Requests, Create(r) PROVE Inv'
  <2>1. PICK proto \in Protocols :
          \/ proto = "http" /\ Refuse(r, RefuseCode(proto))
          \/ \E body \in Bodies(proto) :
                \/ Refuse(r, FailCode(proto, "Create"))
                \/ /\ ValidProduct(body)
                   /\ \E id \in Ids \ minted :
                         /\ minted' = minted \cup {id}
                         /\ Submit(r, MakeCall(proto, "Create", id, body))
    BY <1>1 DEF Create
  <2>2. pc[r] = "idle"
    BY <1>1 DEF Create
  <2>3. CASE Refuse(r, RefuseCode(proto)) \/ Refuse(r, FailCode(proto, "Create"))
    BY <2>2, <2>3, RefuseStep, ErrorCodes DEF Ops
  <2>4. CASE \E body \in Bodies(proto) : /\ ValidProduct(body)
                                        /\ \E id \in Ids \ minted :
                                              /\ minted' = minted \cup {id}
                                              /\ Submit(r, MakeCall(proto, "Create", id, body))
    <3>1. PICK body \in Bodies(proto), id \in Ids \ minted :
             /\ ValidProduct(body)
             /\ minted' = minted \cup {id}
             /\ Submit(r, MakeCall(proto, "Create", id, body))
      BY <2>4
    <3>2. body \in Products
      BY <3>1 DEF Bodies
    <3> DEFINE c == MakeCall(proto, "Create", id, body)
    <3>3. /\ c \in Calls /\ c.op = "Create" /\ c.id = id /\ c.doc = body
      BY <3>2 DEF Calls, MakeCall, Ops
    <3>4. minted \subseteq minted' /\ minted' \subseteq Ids
      BY <3>1 DEF Inv, TypeOK
    <3> HIDE DEF c
    <3>5. Submit(r, c)
      BY <3>1 DEF c
    <3> QED
      BY <2>2, <3>1, <3>2, <3>3, <3>4, <3>5, SubmitStep
  <2> QED
    BY <2>1, <2>3, <2>4
<1>2. ASSUME NEW r \in Requests, GetAll(r) PROVE Inv'
  <2>1. PICK proto \in Protocols : Submit(r, MakeCall(proto, "GetAll", NoId, Absent))
    BY <1>2 DEF GetAll
  <2> DEFINE c == MakeCall(proto, "GetAll", NoId, Absent)
  <2>2. c \in Calls /\ c.op = "GetAll"
    BY DEF Calls, MakeCall, Ops
  <2>3. pc[r] = "idle" /\ minted' = minted
    BY <1>2 DEF GetAll
  <2> HIDE DEF c
  <2>4. Submit(r, c)
    BY <2>1 DEF c
  <2> QED
    BY <2>2, <2>3, <2>4, SubmitStep DEF Inv, TypeOK
<1>3. ASSUME NEW r \in Requests, GetByID(r) PROVE Inv'
  <2>1. PICK proto \in Protocols, id \in Ids \cup {NoId, BadId} :
          \/ Refuse(r, IdRefusal(proto, "GetByID", id))
          \/ /\ UsableId(id)
             /\ Submit(r, MakeCall(proto, "GetByID", id, Absent))
             /\ UNCHANGED minted
    BY <1>3 DEF GetByID
  <2>2. pc[r] = "idle"
    BY <1>3 DEF GetByID
  <2>3. CASE Refuse(r, IdRefusal(proto, "GetByID", id))
    BY <2>2, <2>3, RefuseStep, ErrorCodes DEF Ops, IdRefusal
  <2>4. CASE /\ UsableId(id)
             /\ Submit(r, MakeCall(proto, "GetByID", id, Absent))
             /\ UNCHANGED minted
    <3> DEFINE c == MakeCall(proto, "GetByID", id, Absent)
    <3>1. c \in Calls /\ c.op = "GetByID" /\ c.id = id /\ id \in Ids
      BY <2>4 DEF Calls, MakeCall, Ops, UsableId
    <3> HIDE DEF c
    <3>2. Submit(r, c)
      BY <2>4 DEF c
    <3> QED
      BY <2>2, <2>4, <3>1, <3>2, SubmitStep DEF Inv, TypeOK
  <2> QED
    BY <2>1, <2>3, <2>4
<1>4. ASSUME NEW r \in Requests, Update(r) PROVE Inv'
  <2>1. PICK proto \in Protocols, id \in Ids \cup {NoId, BadId} :
          \/ Refuse(r, RefuseCode(proto))
          \/ Refuse(r, IdRefusal(proto, "Update", id))
          \/ \E body \in Bodies(proto) :
                /\ UsableId(id)
                /\ Submit(r, MakeCall(proto, "Update", id, body))
                /\ UNCHANGED minted
    BY <1>4 DEF Update
  <2>2. pc[r] = "idle"
    BY <1>4 DEF Update
  <2>3. CASE Refuse(r, RefuseCode(proto)) \/ Refuse(r, IdRefusal(proto, "Update", id))
    BY <2>2, <2>3, RefuseStep, ErrorCodes DEF Ops, IdRefusal
  <2>4. ASSUME NEW body \in Bodies(proto), UsableId(id), UNCHANGED minted,
               Submit(r, MakeCall(proto, "Update", id, body))
        PROVE  Inv'
    <3> DEFINE c == MakeCall(proto, "Update", id, body)
    <3>1. c \in Calls /\ c.op = "Update" /\ c.id = id /\ id \in Ids /\ c.doc = body /\ body \in Products
      BY <2>4 DEF Calls, MakeCall, Ops, UsableId, Bodies
    <3> HIDE DEF c
    <3>2. Submit(r, c)
      BY <2>4 DEF c
    <3> QED
      BY <2>2, <2>4, <3>1, <3>2, SubmitStep DEF Inv, TypeOK
  <2> QED
    BY <2>1, <2>3, <2>4
<1>5. ASSUME NEW r \in Requests, Delete(r) PROVE Inv'
  <2>1. PICK proto \in Protocols, id \in Ids \cup {NoId, BadId} :
          \/ Refuse(r, IdRefusal(proto, "Delete", id))
          \/ /\ UsableId(id)
             /\ Submit(r, MakeCall(proto, "Delete", id, Absent))
             /\ UNCHANGED minted
    BY <1>5 DEF Delete
  <2>2. pc[r] = "idle"
    BY <1>5 DEF Delete
  <2>3. CASE Refuse(r, IdRefusal(proto, "Delete", id))
    BY <2>2, <2>3, RefuseStep, ErrorCodes DEF Ops, IdRefusal
  <2>4. CASE /\ UsableId(id)
             /\ Submit(r, MakeCall(proto, "Delete", id, Absent))
             /\ UNCHANGED minted
    <3> DEFINE c == MakeCall(proto, "Delete", id, Absent)
    <3>1. c \in Calls /\ c.op = "Delete" /\ c.id = id /\ id \in Ids /\ c.doc = Absent
      BY <2>4 DEF Calls, MakeCall, Ops, UsableId
    <3> HIDE DEF c
    <3>2. Submit(r, c)
      BY <2>4 DEF c
    <3> QED
      BY <2>2, <2>4, <3>1, <3>2, SubmitStep DEF Inv, TypeOK
  <2> QED
    BY <2>1, <2>3, <2>4
<1>6. ASSUME NEW r \in Requests, Execute(r) PROVE Inv'
  <2>1. call[r] \in Calls /\ link[r] = "sent" /\ link' = [link EXCEPT ![r] = "executed"]
    BY <1>6 DEF Execute, Inv, TypeOK, HandlerInv
  <2>2. /\ call[r].op \in Ops
        /\ call[r].doc \in Products \cup {Absent}
        /\ call[r].op # "GetAll" => call[r].id \in Ids
    BY <2>1 DEF Inv, CallInv, Calls, Ops
  <2>3. collection' \in [Ids -> Products \cup {Absent}]
    <3>1. CASE call[r].op = "Create"
      BY <1>6, <2>2, <3>1 DEF Execute, Inv, TypeOK
    <3>2. CASE call[r].op = "Update"
      BY <1>6, <2>2, <3>2 DEF Execute, Inv, TypeOK, UpdateOne
    <3>3. CASE call[r].op = "Delete"
      BY <1>6, <2>2, <3>3 DEF Execute, Inv, TypeOK
    <3>4. CASE call[r].op \in {"GetAll", "GetByID"}
      BY <1>6, <3>4 DEF Execute, Inv, TypeOK
    <3> QED
      BY <2>2, <3>1, <3>2, <3>3, <3>4 DEF Ops
  <2>4. listed' \in [Requests -> SUBSET (Ids \X Products)]
    <3>1. CASE call[r].op = "GetByID" /\ collection[call[r].id] # Absent
      <4>1. Document(call[r].id) \in Ids \X Products
        BY <2>2, <3>1 DEF Document, Inv, TypeOK
      <4> QED
        BY <1>6, <3>1, <4>1 DEF Execute, Inv, TypeOK
    <3>2. CASE ~(call[r].op = "GetByID" /\ collection[call[r].id] # Absent)
      BY <1>6, <3>2 DEF Execute, Inv, TypeOK
    <3> QED
      BY <3>1, <3>2
  <2>5. due' \in [Requests -> SUBSET Ids]
    BY <1>6 DEF Execute, Inv, TypeOK, Live
  <2>6. TypeOK'
    BY <1>6, <2>3, <2>4, <2>5 DEF Execute, Inv, TypeOK
  <2>7. HandlerInv'
    BY <1>6, <2>1 DEF Execute, Inv, TypeOK, HandlerInv
  <2>8. CallInv'
    BY <1>6 DEF Execute, Inv, CallInv
  <2> QED
    BY <2>6, <2>7, <2>8 DEF Inv
<1>7. ASSUME NEW r \in Requests, Lose(r) PROVE Inv'
  BY <1>7 DEF Lose, Inv, TypeOK, HandlerInv, CallInv
<1>8. ASSUME NEW r \in Requests, Return(r) PROVE Inv'
  <2>1. pc[r] = "await"
    BY <1>8 DEF Return
  <2> DEFINE no == Failure(FailCode(call[r].proto, call[r].op))
             yes == Success(call[r].proto, Body(r))
             Replies == [code : {"none", "200", "400", "404", "500", "OK", "Unknown"},
                         items : SUBSET Items, blank : BOOLEAN]
  <2>2. no \in Replies
    BY <2>1, CallType, ErrorCodes DEF Failure
  <2>3. yes \in Replies
    BY <2>1, CallType, BodyType, AnswerType
  <2>4. Answer(r, no) \/ Answer(r, yes)
    BY <1>8 DEF Return
  <2> HIDE DEF no, yes
  <2> QED
    BY <2>1, <2>2, <2>3, <2>4, AnswerStep
<1>9. ASSUME NEW r \in Requests, DriverError(r) PROVE Inv'
  <2>1. pc[r] = "await"
    BY <1>9 DEF DriverError
  <2> DEFINE no == Failure(FailCode(call[r].proto, call[r].op))
  <2>2. no \in [code : {"none", "200", "400", "404", "500", "OK", "Unknown"},
                items : SUBSET Items, blank : BOOLEAN]
    BY <2>1, CallType, ErrorCodes DEF Failure
  <2>3. Answer(r, no)
    BY <1>9 DEF DriverError
  <2> HIDE DEF no
  <2> QED
    BY <2>1, <2>2, <2>3, AnswerStep
<1>10. ASSUME NEW r \in Requests, OpenCursor(r) PROVE Inv'
  BY <1>10 DEF OpenCursor, Inv, TypeOK, HandlerInv, CallInv
<1>11. ASSUME NEW r \in Requests, NextBatch(r) PROVE Inv'
  <2>1. PICK batch \in SUBSET Live :
           listed' = [listed EXCEPT ![r] = @ \cup {Document(id) : id \in batch}]
    BY <1>11 DEF NextBatch
  <2>2. {Document(id) : id \in batch} \subseteq Ids \X Products
    BY DEF Document, Live, Inv, TypeOK
  <2>3. TypeOK'
    BY <1>11, <2>1, <2>2 DEF NextBatch, Inv, TypeOK
  <2>4. HandlerInv' /\ CallInv'
    BY <1>11 DEF NextBatch, Inv, HandlerInv, CallInv
  <2> QED
    BY <2>3, <2>4 DEF Inv
<1>12. ASSUME NEW r \in Requests, CursorEnd(r) PROVE Inv'
  <2>1. pc[r] = "scan"
    BY <1>12 DEF CursorEnd
  <2> DEFINE yes == Success(call[r].proto, Body(r))
  <2>2. yes \in [code : {"none", "200", "400", "404", "500", "OK", "Unknown"},
                 items : SUBSET Items, blank : BOOLEAN]
    BY <2>1, CallType, BodyType, AnswerType
  <2>3. Answer(r, yes)
    BY <1>12 DEF CursorEnd
  <2> HIDE DEF yes
  <2> QED
    BY <2>1, <2>2, <2>3, AnswerStep
<1>13. ASSUME NEW r \in Requests, CursorCut(r) PROVE Inv'
  <2>1. pc[r] = "scan"
    BY <1>13 DEF CursorCut
  <2>2. Success(call[r].proto, Body(r)) \in
            [code : {"none", "200", "400", "404", "500", "OK", "Unknown"},
             items : SUBSET Items, blank : BOOLEAN]
    BY <2>1, CallType, BodyType, AnswerType
  <2>3. TypeOK'
    BY <1>13, <2>2 DEF CursorCut, Inv, TypeOK
  <2>4. HandlerInv' /\ CallInv'
    BY <1>13 DEF CursorCut, Inv, TypeOK, HandlerInv, CallInv
  <2> QED
    BY <2>3, <2>4 DEF Inv
<1>14. ASSUME NEW proto \in Protocols, Die(proto) PROVE Inv'
  BY <1>14 DEF Die, Working, Inv, TypeOK, HandlerInv, CallInv
<1>15. CASE UNCHANGED vars
  BY <1>15 DEF vars, Inv, TypeOK, HandlerInv, CallInv, Live
<1> QED
  BY <1>1, <1>2, <1>3, <1>4, <1>5, <1>6, <1>7, <1>8, <1>9, <1>10, <1>11, <1>12, <1>13,
     <1>14, <1>15 DEF Next, Handle

LEMMA SpecInv == Spec => []Inv
  BY InitInv, NextInv, PTL DEF Spec

\* Every variable of the two servers, of the collection and of the commands
\* between them stays in its type.
THEOREM TypeCorrect == Spec => []TypeOK
<1>1. Inv => TypeOK
  BY DEF Inv
<1> QED
  BY SpecInv, <1>1, PTL
---------------------------------------------------------------------------
(* What a step may do to the commands and to the collection                *)

\* No step changes a call, takes back an execution or forgets an id.  The links
\* that are final stay as they are.
LEMMA History ==
    ASSUME Inv, [Next]_vars
    PROVE  /\ minted \subseteq minted'
           /\ \A r \in Requests :
                 /\ call[r] # NoCall => call'[r] = call[r]
                 /\ Executed(r) => Executed(r)'
                 /\ IsWrite(call[r]) /\ link[r] = "executed" => link'[r] = "executed"
                 /\ call[r] # call'[r] => link'[r] = "sent"
                 /\ link[r] # "sent" /\ link'[r] = "sent" => call[r] = NoCall
                 /\ call[r] = NoCall /\ call'[r] # NoCall => link'[r] = "sent"
<1> DEFINE Grows(r) == /\ call[r] # NoCall => call'[r] = call[r]
                       /\ Executed(r) => Executed(r)'
                       /\ IsWrite(call[r]) /\ link[r] = "executed" => link'[r] = "executed"
                       /\ call[r] # call'[r] => link'[r] = "sent"
                       /\ link[r] # "sent" /\ link'[r] = "sent" => call[r] = NoCall
           All == minted \subseteq minted' /\ \A r \in Requests : Grows(r)
<1> USE DEF Inv, TypeOK, HandlerInv, Executed
<1>1. ASSUME NEW r \in Requests, pc[r] = "idle", NEW c, Submit(r, c), minted \subseteq minted'
      PROVE  All
  BY <1>1 DEF Submit
<1>2. ASSUME NEW r \in Requests, NEW code, Refuse(r, code)
      PROVE  All
  BY <1>2 DEF Refuse
<1>3. ASSUME NEW r \in Requests, NEW rep, Answer(r, rep)
      PROVE  All
  BY <1>3 DEF Answer
<1>4. ASSUME NEW r \in Requests, Create(r) \/ GetAll(r) \/ GetByID(r) \/ Update(r) \/ Delete(r)
      PROVE  All
  <2>1. pc[r] = "idle"
    BY <1>4 DEF Create, GetAll, GetByID, Update, Delete
  <2>2. \/ \E code : Refuse(r, code)
        \/ \E c : Submit(r, c) /\ minted \subseteq minted'
    BY <1>4 DEF Create, GetAll, GetByID, Update, Delete
  <2> QED
    BY <1>1, <1>2, <2>1, <2>2
<1>5. ASSUME NEW r \in Requests, Execute(r) PROVE All
  BY <1>5 DEF Execute
<1>6. ASSUME NEW r \in Requests, Lose(r) PROVE All
  BY <1>6 DEF Lose
<1>7. ASSUME NEW r \in Requests, Return(r) \/ DriverError(r) \/ CursorEnd(r) PROVE All
  <2>1. \E rep : Answer(r, rep)
    BY <1>7 DEF Return, DriverError, CursorEnd
  <2> QED
    BY <2>1, <1>3
<1>8. ASSUME NEW r \in Requests, OpenCursor(r) \/ NextBatch(r) PROVE All
  BY <1>8 DEF OpenCursor, NextBatch
<1>9. ASSUME NEW r \in Requests, CursorCut(r) PROVE All
  BY <1>9 DEF CursorCut, IsWrite
<1>10. ASSUME NEW proto \in Protocols, Die(proto) PROVE All
  BY <1>10 DEF Die
<1>11. CASE UNCHANGED vars
  BY <1>11 DEF vars
<1>12. All
  BY <1>4, <1>5, <1>6, <1>7, <1>8, <1>9, <1>10, <1>11 DEF Next, Handle
<1>13. \A r \in Requests : call[r] = NoCall /\ call'[r] # NoCall => link'[r] = "sent"
  BY <1>12
<1> QED
  BY <1>12, <1>13

\* A command becomes executed by its execution only.
LEMMA ExecutionStep ==
    ASSUME Inv, [Next]_vars, NEW r \in Requests, ~Executed(r), Executed(r)'
    PROVE  Execute(r)
<1> USE DEF Inv, TypeOK, Executed
<1>1. ASSUME NEW q \in Requests, Create(q) \/ GetAll(q) \/ GetByID(q) \/ Update(q) \/ Delete(q)
      PROVE  FALSE
  <2>1. (\E c : Submit(q, c)) \/ (\E code : Refuse(q, code))
    BY <1>1 DEF Create, GetAll, GetByID, Update, Delete
  <2> QED
    BY <2>1 DEF Submit, Refuse
<1>2. ASSUME NEW q \in Requests, Execute(q) PROVE q = r
  BY <1>2 DEF Execute
<1>3. ASSUME NEW q \in Requests, Lose(q) PROVE FALSE
  BY <1>3 DEF Lose
<1>4. ASSUME NEW q \in Requests, Handle(q) PROVE FALSE
  BY <1>4 DEF Handle, Return, DriverError, OpenCursor, NextBatch, CursorEnd, CursorCut, Answer,
     HandlerInv
<1>5. ASSUME NEW proto \in Protocols, Die(proto) PROVE FALSE
  BY <1>5 DEF Die
<1>6. CASE UNCHANGED vars
  BY <1>6 DEF vars
<1> QED
  BY <1>1, <1>2, <1>3, <1>4, <1>5, <1>6 DEF Next

\* The collection changes only where MongoDB executes a write, and only in the
\* way that write asks for.
WrittenBy(w, id) ==
    /\ IsWrite(call[w]) /\ call[w].id = id
    /\ link[w] = "sent" /\ link'[w] = "executed" /\ call'[w] = call[w]
    /\ \/ call[w].op = "Create" /\ collection'[id] = call[w].doc
       \/ call[w].op = "Update" /\ collection[id] # Absent /\ collection'[id] = call[w].doc
       \/ call[w].op = "Delete" /\ collection'[id] = Absent

LEMMA CollectionStep ==
    ASSUME Inv, [Next]_vars, NEW id \in Ids, collection'[id] # collection[id]
    PROVE  \E w \in Requests : WrittenBy(w, id)
<1>1. PICK w \in Requests : Execute(w)
  BY DEF Next, vars, Create, GetAll, GetByID, Update, Delete, Submit, Refuse, Lose, Handle,
     Return, DriverError, OpenCursor, NextBatch, CursorEnd, CursorCut, Answer, Die
<1> USE DEF Inv, TypeOK
<1>2. /\ link[w] = "sent" /\ link'[w] = "executed" /\ call'[w] = call[w]
  BY <1>1 DEF Execute
<1>3. IsWrite(call[w]) /\ call[w].id = id
  BY <1>1 DEF Execute, IsWrite
<1>4. \/ call[w].op = "Create" /\ collection'[id] = call[w].doc
      \/ call[w].op = "Update" /\ collection[id] # Absent /\ collection'[id] = call[w].doc
      \/ call[w].op = "Delete" /\ collection'[id] = Absent
  <2>1. CASE call[w].op = "Create"
    BY <1>1, <1>3, <2>1 DEF Execute
  <2>2. CASE call[w].op = "Update"
    BY <1>1, <1>3, <2>2 DEF Execute, UpdateOne
  <2>3. CASE call[w].op = "Delete"
    BY <1>1, <1>3, <2>3 DEF Execute
  <2> QED
    BY <1>3, <2>1, <2>2, <2>3 DEF IsWrite
<1> QED
  BY <1>2, <1>3, <1>4 DEF WrittenBy
---------------------------------------------------------------------------
(* Success is final                                                        *)

\* Only Return acknowledges a write, and only an executed one; only the two
\* ends of a scan acknowledge a listing.
LEMMA AckStep ==
    ASSUME Inv, [Next]_vars, NEW r \in Requests, Acked(r)', ~Acked(r)
    PROVE  /\ call'[r] = call[r] /\ collection' = collection
           /\ Executed(r)
           /\ IsWrite(call[r]) => link'[r] = "executed"
<1> USE DEF Inv, TypeOK, HandlerInv, Acked, Executed
<1>1. ASSUME NEW q \in Requests, NEW c, Submit(q, c) PROVE FALSE
  BY <1>1 DEF Submit
<1>2. ASSUME NEW q \in Requests, NEW code \in {"400", "404", "500", "Unknown"}, Refuse(q, code)
      PROVE FALSE
  BY <1>2 DEF Refuse, Failure
<1>3. ASSUME NEW q \in Requests, Create(q) \/ GetAll(q) \/ GetByID(q) \/ Update(q) \/ Delete(q)
      PROVE FALSE
  <2>1. \/ \E code \in {"400", "404", "500", "Unknown"} : Refuse(q, code)
        \/ \E c : Submit(q, c)
    <3>1. CASE Create(q)
      BY <3>1, ErrorCodes DEF Create, Ops
    <3>2. CASE GetAll(q)
      BY <3>2 DEF GetAll
    <3>3. CASE GetByID(q)
      BY <3>3, ErrorCodes DEF GetByID, IdRefusal, Ops
    <3>4. CASE Update(q)
      BY <3>4, ErrorCodes DEF Update, IdRefusal, Ops
    <3>5. CASE Delete(q)
      BY <3>5, ErrorCodes DEF Delete, IdRefusal, Ops
    <3> QED
      BY <1>3, <3>1, <3>2, <3>3, <3>4, <3>5
  <2> QED
    BY <2>1, <1>1, <1>2
<1>4. ASSUME NEW q \in Requests, Execute(q) \/ Lose(q) \/ OpenCursor(q) \/ NextBatch(q)
      PROVE  FALSE
  BY <1>4 DEF Execute, Lose, OpenCursor, NextBatch
<1>5. ASSUME NEW q \in Requests, DriverError(q) PROVE FALSE
  <2>1. FailCode(call[q].proto, call[q].op) \in {"400", "404", "500", "Unknown"}
    BY <1>5, CallType, ErrorCodes DEF DriverError
  <2> QED
    BY <1>5, <2>1 DEF DriverError, Answer, Failure
<1>6. ASSUME NEW proto \in Protocols, Die(proto) PROVE FALSE
  BY <1>6 DEF Die
<1>7. CASE UNCHANGED vars
  BY <1>7 DEF vars
<1>8. ASSUME NEW q \in Requests, Return(q)
      PROVE  /\ call'[r] = call[r] /\ collection' = collection
             /\ link[r] = "executed" /\ link'[r] = "executed"
  BY <1>8 DEF Return, Answer
<1>9. ASSUME NEW q \in Requests, CursorEnd(q) \/ CursorCut(q)
      PROVE  /\ call'[r] = call[r] /\ collection' = collection
             /\ Executed(r) /\ ~IsWrite(call[r])
  BY <1>9 DEF CursorEnd, CursorCut, Answer, IsWrite
<1> QED
  BY <1>3, <1>4, <1>5, <1>6, <1>7, <1>8, <1>9 DEF Next, Handle

\* An answered request stays as it is, but for what MongoDB may still do with
\* its command.
LEMMA DoneStays ==
    ASSUME Inv, [Next]_vars, NEW r \in Requests, pc[r] = "done"
    PROVE  /\ pc'[r] = "done" /\ reply'[r] = reply[r] /\ call'[r] = call[r]
           /\ link[r] # "sent" => link'[r] = link[r] /\ due'[r] = due[r]
<1> USE DEF Inv, TypeOK
<1>1. ASSUME NEW q \in Requests, pc[q] # "done",
             \/ \E c : Submit(q, c)
             \/ \E code : Refuse(q, code)
             \/ \E rep : Answer(q, rep)
             \/ OpenCursor(q) \/ NextBatch(q) \/ CursorCut(q)
      PROVE  UNCHANGED <<pc[r], reply[r], call[r], link[r], due[r]>>
  BY <1>1 DEF Submit, Refuse, Answer, OpenCursor, NextBatch, CursorCut
<1>2. ASSUME NEW q \in Requests, Create(q) \/ GetAll(q) \/ GetByID(q) \/ Update(q) \/ Delete(q)
      PROVE  (\E c : Submit(q, c)) \/ (\E code : Refuse(q, code))
  BY <1>2 DEF Create, GetAll, GetByID, Update, Delete
<1>3. ASSUME NEW q \in Requests, Create(q) \/ GetAll(q) \/ GetByID(q) \/ Update(q) \/ Delete(q)
      PROVE  pc[q] # "done"
  BY <1>3 DEF Create, GetAll, GetByID, Update, Delete
<1>4. ASSUME NEW q \in Requests, Handle(q)
      PROVE  \/ \E rep : Answer(q, rep)
             \/ OpenCursor(q) \/ NextBatch(q) \/ CursorCut(q)
  BY <1>4 DEF Handle, Return, DriverError, CursorEnd
<1>5. ASSUME NEW q \in Requests, Handle(q)
      PROVE  pc[q] # "done"
  BY <1>5 DEF Handle, Return, DriverError, CursorEnd, OpenCursor, NextBatch, CursorCut
<1>6. ASSUME NEW q \in Requests, Execute(q) \/ Lose(q)
      PROVE  /\ UNCHANGED <<pc[r], reply[r], call[r]>>
             /\ link[r] # "sent" => UNCHANGED <<link[r], due[r]>>
  BY <1>6 DEF Execute, Lose
<1>7. ASSUME NEW proto \in Protocols, Die(proto)
      PROVE  UNCHANGED <<pc[r], reply[r], call[r], link[r], due[r]>>
  BY <1>7 DEF Die, Working
<1>8. CASE UNCHANGED vars
  BY <1>8 DEF vars
<1> QED
  BY <1>1, <1>2, <1>3, <1>4, <1>5, <1>6, <1>7, <1>8 DEF Next

\* A write that was answered with success has been executed by MongoDB and
\* cannot change the collection any more.
THEOREM SuccessFinal == Spec => []SuccessIsFinal
<1>1. Init => SuccessIsFinal
  BY DEF Init, SuccessIsFinal, Acked
<1>2. Inv /\ SuccessIsFinal /\ [Next]_vars => SuccessIsFinal'
  <2> SUFFICES ASSUME Inv, SuccessIsFinal, [Next]_vars,
                      NEW r \in Requests, IsWrite(call[r])', Acked(r)'
               PROVE  link'[r] = "executed"
    BY DEF SuccessIsFinal
  <2>1. CASE Acked(r)
    BY <2>1, DoneStays DEF Acked, SuccessIsFinal, IsWrite
  <2>2. CASE ~Acked(r)
    BY <2>2, AckStep DEF IsWrite
  <2> QED
    BY <2>1, <2>2
<1> QED
  BY <1>1, <1>2, SpecInv, PTL DEF Spec

---------------------------------------------------------------------------
(* Created products last, invalid ones come from updates                   *)

\* The inductive form of AckedCreateDurable: it holds of every executed
\* creation, whether or not its handler has heard of the execution.
CreatedInv ==
    \A r \in Requests :
        call[r].op = "Create" /\ Executed(r) =>
            \/ collection[call[r].id] # Absent
            \/ \E d \in Requests : DeletedBy(d, call[r].id)

\* An execution of a Delete is never taken back.
LEMMA DeletedStays ==
    ASSUME Inv, [Next]_vars, NEW id \in Ids, \E d \in Requests : DeletedBy(d, id)
    PROVE  (\E d \in Requests : DeletedBy(d, id))'
<1>1. PICK d \in Requests : DeletedBy(d, id)
  OBVIOUS
<1>2. call[d] # NoCall
  BY <1>1 DEF DeletedBy, NoCall
<1> QED
  BY <1>1, <1>2, History DEF DeletedBy

\* A document disappears only by a Delete.
LEMMA Disappears ==
    ASSUME Inv, [Next]_vars, NEW id \in Ids, collection[id] # Absent, collection'[id] = Absent
    PROVE  (\E d \in Requests : DeletedBy(d, id))'
<1>1. PICK w \in Requests : WrittenBy(w, id)
  BY CollectionStep
<1>2. call[w].op = "Delete"
  BY <1>1, CrudAssumption DEF WrittenBy, Inv, CallInv
<1> QED
  BY <1>1, <1>2 DEF WrittenBy, DeletedBy, Executed

\* A product whose creation was answered with success is in the collection
\* until a Delete of its id has been executed, whatever else is late, lost or
\* dies.
THEOREM CreateDurable == Spec => []AckedCreateDurable
<1>1. Init => CreatedInv
  BY DEF Init, CreatedInv, NoCall
<1>2. Inv /\ CreatedInv /\ [Next]_vars => CreatedInv'
  <2> SUFFICES ASSUME Inv, CreatedInv, [Next]_vars,
                      NEW r \in Requests, (call[r].op)' = "Create", Executed(r)'
               PROVE  \/ (collection[call[r].id] # Absent)'
                      \/ (\E d \in Requests : DeletedBy(d, call[r].id))'
    BY DEF CreatedInv
  <2>1. call'[r] = call[r] /\ call[r].op = "Create"
    BY History DEF Executed
  <2>2. PICK id \in Ids : id = call[r].id
    BY <2>1 DEF Inv, CallInv
  <2>3. CASE Executed(r)
    <3>1. (collection[id] # Absent) \/ (\E d \in Requests : DeletedBy(d, id))
      BY <2>1, <2>2, <2>3 DEF CreatedInv
    <3>2. (collection'[id] # Absent) \/ (\E d \in Requests : DeletedBy(d, id))'
      BY <3>1, DeletedStays, Disappears
    <3> QED
      BY <2>1, <2>2, <3>2
  <2>4. CASE ~Executed(r)
    <3>1. Execute(r)
      BY <2>4, ExecutionStep
    <3>2. collection'[id] = call[r].doc
      BY <2>1, <2>2, <3>1 DEF Execute, Inv, TypeOK
    <3>3. call[r].doc # Absent
      BY <2>1, CrudAssumption DEF Inv, CallInv
    <3> QED
      BY <2>1, <2>2, <3>2, <3>3
  <2> QED
    BY <2>3, <2>4
<1>3. CreatedInv /\ SuccessIsFinal => AckedCreateDurable
  BY DEF CreatedInv, SuccessIsFinal, AckedCreateDurable, IsWrite, Executed
<1> QED
  BY <1>1, <1>2, <1>3, SpecInv, SuccessFinal, PTL DEF Spec

\* The validation of Create holds of everything in the collection that no
\* executed Update put there.
THEOREM InvalidByUpdate == Spec => []InvalidOnlyByUpdate
<1>1. Init => InvalidOnlyByUpdate
  BY CrudAssumption DEF Init, InvalidOnlyByUpdate, Live
<1>2. Inv /\ InvalidOnlyByUpdate /\ [Next]_vars => InvalidOnlyByUpdate'
  <2> DEFINE Updated(u, id) == /\ call[u].op = "Update" /\ Executed(u)
                               /\ call[u].id = id /\ call[u].doc = collection[id]
  <2> SUFFICES ASSUME Inv, InvalidOnlyByUpdate, [Next]_vars, NEW id \in Ids,
                      collection'[id] # Absent, ~ValidProduct(collection'[id])
               PROVE  \E u \in Requests : Updated(u, id)'
    BY DEF InvalidOnlyByUpdate, Live, ValidProduct
  <2>1. CASE collection'[id] = collection[id]
    <3>1. PICK u \in Requests : Updated(u, id)
      BY <2>1 DEF InvalidOnlyByUpdate, Live
    <3>2. call[u] # NoCall
      BY <3>1 DEF NoCall
    <3> QED
      BY <2>1, <3>1, <3>2, History
  <2>2. CASE collection'[id] # collection[id]
    <3>1. PICK w \in Requests : WrittenBy(w, id)
      BY <2>2, CollectionStep
    <3>2. call[w].op = "Update"
      BY <3>1 DEF WrittenBy, Inv, CallInv
    <3> QED
      BY <3>1, <3>2 DEF WrittenBy, Executed
  <2> QED
    BY <2>1, <2>2
<1> QED
  BY <1>1, <1>2, SpecInv, PTL DEF Spec

\* What was deleted stays deleted: no late Update brings it back and no later
\* product gets its id.
THEOREM NoneResurrected == Spec => NoResurrection
<1>1. Inv /\ [Next]_vars => [\A id \in Ids : Gone(id) => Gone(id)']_vars
  <2> SUFFICES ASSUME Inv, [Next]_vars, NEW id \in Ids, Gone(id) PROVE Gone(id)'
    OBVIOUS
  <2>1. id \in minted'
    BY History DEF Gone
  <2>2. collection'[id] = Absent
    <3>1. ASSUME NEW w \in Requests, WrittenBy(w, id) PROVE collection'[id] = Absent
      BY <3>1 DEF WrittenBy, Gone
    <3> QED
      BY <3>1, CollectionStep DEF Gone
  <2>3. ASSUME NEW r \in Requests, (call[r].op)' = "Create", (call[r].id)' = id
        PROVE  link'[r] # "sent"
    <3>1. CASE call[r] # NoCall
      BY <2>3, <3>1, History DEF Gone
    <3>2. CASE call[r] = NoCall
      <4>1. call'[r] # NoCall
        BY <2>3 DEF NoCall
      <4>2. PICK q \in Requests, c \in Calls :
               /\ Submit(q, c)
               /\ c.op = "Create" => c.id \notin minted
        <5>1. ASSUME NEW q \in Requests, NEW proto, NEW body, NEW i \in Ids \ minted,
                     proto \in Protocols, body \in Products
              PROVE  /\ MakeCall(proto, "Create", i, body) \in Calls
                     /\ MakeCall(proto, "Create", i, body).id \notin minted
          BY <5>1 DEF MakeCall, Calls, Ops
        <5>2. ASSUME NEW q \in Requests, NEW proto \in Protocols,
                     NEW op \in Ops \ {"Create"}, NEW i \in Ids \cup {NoId},
                     NEW doc \in Products \cup {Absent}
              PROVE  /\ MakeCall(proto, op, i, doc) \in Calls
                     /\ MakeCall(proto, op, i, doc).op # "Create"
          BY <5>2 DEF MakeCall, Calls, Ops
        <5>3. PICK q \in Requests : Create(q) \/ GetAll(q) \/ GetByID(q) \/ Update(q) \/ Delete(q)
          BY <3>2, <4>1 DEF Next, vars, Execute, Lose, Handle, Return, DriverError,
             OpenCursor, NextBatch, CursorEnd, CursorCut, Answer, Die
        <5>4. ~(\E code : Refuse(q, code))
          BY <3>2, <4>1 DEF Refuse
        <5>5. CASE Create(q)
          BY <5>1, <5>4, <5>5 DEF Create, Bodies
        <5>6. CASE GetAll(q)
          BY <5>2, <5>6 DEF GetAll, Ops
        <5>7. CASE GetByID(q)
          BY <5>2, <5>4, <5>7 DEF GetByID, UsableId, Ops
        <5>8. CASE Update(q)
          BY <5>2, <5>4, <5>8 DEF Update, UsableId, Bodies, Ops
        <5>9. CASE Delete(q)
          BY <5>2, <5>4, <5>9 DEF Delete, UsableId, Ops
        <5> QED
          BY <5>3, <5>5, <5>6, <5>7, <5>8, <5>9
      <4>3. r = q /\ call'[r] = c
        BY <3>2, <4>1, <4>2 DEF Submit, Inv, TypeOK
      <4> QED
        BY <2>3, <4>2, <4>3 DEF Gone
    <3> QED
      BY <3>1, <3>2
  <2> QED
    BY <2>1, <2>2, <2>3 DEF Gone
<1> QED
  BY <1>1, SpecInv, PTL DEF Spec, NoResurrection

---------------------------------------------------------------------------
(* The CRUD core implements ProductStore: an initial state maps to an      *)
(* initial state, and every step to a step of the store or to a stutter.   *)

\* A request whose handler, call and command do not change is not seen to move.
LEMMA Unmoved ==
    ASSUME NEW r \in Requests, UNCHANGED <<pc[r], call[r], link[r], reply[r]>>
    PROVE  phase'[r] = phase[r] /\ task'[r] = task[r]
  BY DEF phase, task, IsWrite, Executed, Acked

\* Nor is a request that is not a write before and after.
LEMMA Unseen ==
    ASSUME NEW r \in Requests, ~IsWrite(call[r]), ~IsWrite(call[r])'
    PROVE  phase'[r] = phase[r] /\ task'[r] = task[r]
  BY DEF phase, task

\* If one request moves, the store's view of the others stays.
LEMMA OneMoves ==
    ASSUME NEW r \in Requests,
           \A q \in Requests \ {r} : UNCHANGED <<pc[q], call[q], link[q], reply[q]>>
    PROVE  /\ phase' = [phase EXCEPT ![r] = phase'[r]]
           /\ task' = [task EXCEPT ![r] = task'[r]]
<1>1. \A q \in Requests \ {r} : phase'[q] = phase[q] /\ task'[q] = task[q]
  BY Unmoved
<1>2. phase = [q \in Requests |-> phase[q]] /\ task = [q \in Requests |-> task[q]]
  BY DEF phase, task
<1>3. phase' = [q \in Requests |-> phase'[q]] /\ task' = [q \in Requests |-> task'[q]]
  BY DEF phase, task
<1> QED
  BY <1>1, <1>2, <1>3

\* If no request is seen to move and the store stays, the step is a stutter.
LEMMA StoreStutters ==
    ASSUME UNCHANGED <<collection, minted>>,
           \A q \in Requests : phase'[q] = phase[q] /\ task'[q] = task[q]
    PROVE  UNCHANGED Store!vars
<1>1. phase = [q \in Requests |-> phase[q]] /\ task = [q \in Requests |-> task[q]]
  BY DEF phase, task
<1>2. phase' = [q \in Requests |-> phase'[q]] /\ task' = [q \in Requests |-> task'[q]]
  BY DEF phase, task
<1> QED
  BY <1>1, <1>2 DEF Store!vars

\* The phases a write passes through.
LEMMA WritePhase ==
    ASSUME Inv, NEW r \in Requests, IsWrite(call[r])
    PROVE  /\ task[r] = [op |-> call[r].op, id |-> call[r].id, doc |-> call[r].doc]
           /\ pc[r] \in {"await", "done", "gone"}
           /\ pc[r] = "await" => phase[r] = IF Executed(r) THEN "effected" ELSE "open"
           /\ Acked(r) => phase[r] = "acked"
           /\ pc[r] # "await" /\ ~Acked(r) =>
                 phase[r] = IF Executed(r) THEN "failed" ELSE "doubtful"
  BY DEF phase, task, IsWrite, Inv, TypeOK, HandlerInv, NoCall, Acked

---------------------------------------------------------------------------
(* The steps                                                               *)

\* A handler that submits a read, or refuses: a stutter.
LEMMA ReadUnseen ==
    ASSUME Inv, NEW r \in Requests, ~IsWrite(call[r]), ~IsWrite(call[r])',
           UNCHANGED <<collection, minted>>,
           \A q \in Requests \ {r} : UNCHANGED <<pc[q], call[q], link[q], reply[q]>>
    PROVE  UNCHANGED Store!vars
  BY Unmoved, Unseen, StoreStutters

\* A handler that submits a write begins a task of the store.
LEMMA BeginStep ==
    ASSUME Inv, NEW r \in Requests, pc[r] = "idle", NEW c \in Calls, Submit(r, c),
           IsWrite(c), c.id \in Ids,
           \/ c.op = "Create" /\ c.doc \in {p \in Products : ValidProduct(p)}
                /\ c.id \notin minted /\ minted' = minted \cup {c.id}
           \/ c.op # "Create" /\ minted' = minted
    PROVE  Store!Begin(r)
<1> DEFINE t == [op |-> c.op, id |-> c.id, doc |-> c.doc]
<1>1. t \in Store!Tasks
  BY DEF Store!Tasks, Calls, IsWrite
<1>2. call'[r] = c /\ pc'[r] = "await" /\ link'[r] = "sent" /\ collection' = collection
  BY DEF Submit, Inv, TypeOK
<1>3. phase[r] = "idle"
  BY DEF phase, Inv, HandlerInv, NoCall, IsWrite
<1>4. task'[r] = t /\ phase'[r] = "open"
  BY <1>2 DEF task, phase, IsWrite, Executed
<1>5. /\ phase' = [phase EXCEPT ![r] = "open"]
      /\ task' = [task EXCEPT ![r] = t]
  BY <1>4, OneMoves DEF Submit, Inv, TypeOK
<1> HIDE DEF t
<1>6. t.op = c.op /\ t.id = c.id /\ t.doc = c.doc
  BY DEF t
<1> QED
  BY <1>1, <1>2, <1>3, <1>5, <1>6 DEF Store!Begin

\* MongoDB executes a write: the effect, of a request that waits or is in doubt.
LEMMA EffectStep ==
    ASSUME Inv, SuccessIsFinal, NEW r \in Requests, Execute(r), IsWrite(call[r])
    PROVE  Store!TakeEffect(r)
<1> USE DEF Inv, TypeOK
<1>1. /\ link[r] = "sent" /\ link' = [link EXCEPT ![r] = "executed"]
      /\ UNCHANGED <<minted, pc, call, reply>>
  BY DEF Execute
<1>2. ~Acked(r) /\ ~Executed(r) /\ Executed(r)'
  BY <1>1 DEF SuccessIsFinal, Executed
<1>3. \/ phase[r] = "open" /\ phase'[r] = "effected"
      \/ phase[r] = "doubtful" /\ phase'[r] = "failed"
  <2>1. task'[r] = task[r] /\ ~Acked(r)' /\ IsWrite(call[r])'
    BY <1>1, <1>2 DEF task, Acked, IsWrite
  <2>2. /\ pc[r] \in {"await", "done", "gone"}
        /\ phase[r] = IF pc[r] = "await" THEN "open" ELSE "doubtful"
    BY <1>2, WritePhase
  <2>3. phase'[r] = IF pc[r] = "await" THEN "effected" ELSE "failed"
    BY <1>1, <1>2, <2>1 DEF phase
  <2> QED
    BY <2>2, <2>3
<1>4. phase' = [phase EXCEPT ![r] = phase'[r]] /\ task' = task
  <2>1. phase' = [phase EXCEPT ![r] = phase'[r]]
    BY <1>1, OneMoves
  <2>2. task' = task
    BY <1>1 DEF task, IsWrite
  <2> QED
    BY <2>1, <2>2
<1>5. /\ task[r].op = call[r].op /\ task[r].id = call[r].id /\ task[r].doc = call[r].doc
      /\ task[r].op \in {"Create", "Update", "Delete"}
  <2>1. task[r] = [op |-> call[r].op, id |-> call[r].id, doc |-> call[r].doc]
    BY DEF task
  <2> QED
    BY <2>1 DEF IsWrite
<1>6. collection' =
         CASE task[r].op = "Create" -> [collection EXCEPT ![task[r].id] = task[r].doc]
           [] task[r].op = "Update" ->
                 [collection EXCEPT ![task[r].id] = IF @ = Absent THEN Absent ELSE task[r].doc]
           [] task[r].op = "Delete" -> [collection EXCEPT ![task[r].id] = Absent]
  <2>1. CASE call[r].op = "Create"
    BY <1>5, <2>1 DEF Execute
  <2>2. CASE call[r].op = "Update"
    BY <1>5, <2>2 DEF Execute, UpdateOne
  <2>3. CASE call[r].op = "Delete"
    BY <1>5, <2>3 DEF Execute
  <2> QED
    BY <1>5, <2>1, <2>2, <2>3
<1> QED
  BY <1>1, <1>3, <1>4, <1>6 DEF Store!TakeEffect

\* A read that MongoDB executes and a command that is lost are not seen.
LEMMA UnseenStep ==
    ASSUME Inv, NEW r \in Requests, Lose(r) \/ (Execute(r) /\ ~IsWrite(call[r]))
    PROVE  UNCHANGED Store!vars
<1>1. CASE Lose(r)
  <2>1. link[r] = "sent" /\ link' = [link EXCEPT ![r] = "lost"] /\ UNCHANGED <<pc, call, reply>>
    BY <1>1 DEF Lose
  <2>2. \A q \in Requests : Executed(q)' = Executed(q)
    BY <2>1 DEF Executed, Inv, TypeOK
  <2>3. \A q \in Requests : phase'[q] = phase[q] /\ task'[q] = task[q]
    BY <2>1, <2>2 DEF phase, task, IsWrite, Acked
  <2> QED
    BY <1>1, <2>3, StoreStutters DEF Lose
<1>2. CASE Execute(r) /\ ~IsWrite(call[r])
  <2>1. /\ UNCHANGED <<minted, pc, call, reply>>
        /\ \A q \in Requests \ {r} : link'[q] = link[q]
    BY <1>2 DEF Execute, Inv, TypeOK
  <2>2. collection' = collection
    BY <1>2 DEF Execute, IsWrite
  <2> QED
    BY <1>2, <2>1, <2>2, ReadUnseen DEF IsWrite
<1> QED
  BY <1>1, <1>2

\* A success answer to a write acknowledges it.
LEMMA AcknowledgeStep ==
    ASSUME Inv, NEW r \in Requests, pc[r] = "await", IsWrite(call[r]), Executed(r),
           NEW rep, rep.code \in {"200", "OK"}, Answer(r, rep)
    PROVE  Store!Acknowledge(r)
<1>1. phase[r] = "effected"
  BY WritePhase
<1>2. /\ pc' = [pc EXCEPT ![r] = "done"] /\ reply' = [reply EXCEPT ![r] = rep]
      /\ UNCHANGED <<collection, minted, call, link>>
  BY DEF Answer
<1>3. phase'[r] = "acked"
  BY <1>2 DEF phase, Acked, IsWrite, Inv, TypeOK
<1>4. phase' = [phase EXCEPT ![r] = "acked"]
  BY <1>2, <1>3, OneMoves DEF Inv, TypeOK
<1>5. task' = task
  BY <1>2 DEF task, IsWrite
<1> QED
  BY <1>1, <1>2, <1>4, <1>5 DEF Store!Acknowledge

\* An error answer to a write, whatever became of its command, fails it.
LEMMA FailStep ==
    ASSUME Inv, NEW r \in Requests, pc[r] = "await", IsWrite(call[r]),
           NEW rep, rep.code \notin {"200", "OK"}, Answer(r, rep)
    PROVE  Store!Fail({r})
<1>1. phase[r] = IF Executed(r) THEN "effected" ELSE "open"
  BY WritePhase
<1>2. /\ pc' = [pc EXCEPT ![r] = "done"] /\ reply' = [reply EXCEPT ![r] = rep]
      /\ UNCHANGED <<collection, minted, call, link>>
  BY DEF Answer
<1>3. phase'[r] = IF Executed(r) THEN "failed" ELSE "doubtful"
  BY <1>2 DEF phase, Acked, IsWrite, Executed, Inv, TypeOK
<1>4. \A q \in Requests \ {r} : phase'[q] = phase[q]
  BY <1>2, Unmoved DEF Inv, TypeOK
<1>5. phase' = [q \in Requests |-> phase'[q]]
  BY DEF phase
<1>6. phase' = [q \in Requests |-> IF q \notin {r} THEN phase[q]
                                   ELSE IF phase[q] = "open" THEN "doubtful" ELSE "failed"]
  BY <1>1, <1>3, <1>4, <1>5
<1>7. task' = task
  BY <1>2 DEF task, IsWrite
<1> QED
  BY <1>1, <1>2, <1>6, <1>7 DEF Store!Fail

\* A process that dies fails all the writes its handlers wait for at once.
LEMMA DieStep ==
    ASSUME Inv, NEW proto \in Protocols, Die(proto)
    PROVE  \E R \in SUBSET Requests : Store!Fail(R)
<1> DEFINE R == {r \in Working(proto) : IsWrite(call[r])}
<1>1. \A r \in R : /\ r \in Requests /\ pc[r] = "await"
                   /\ phase[r] = IF Executed(r) THEN "effected" ELSE "open"
  BY WritePhase DEF Working
<1>2. /\ pc' = [r \in Requests |-> IF r \in Working(proto) THEN "gone" ELSE pc[r]]
      /\ UNCHANGED <<collection, minted, call, link, reply>>
  BY DEF Die
<1>3. \A r \in R : phase'[r] = IF Executed(r) THEN "failed" ELSE "doubtful"
  BY <1>2 DEF phase, Acked, IsWrite, Executed, Working
<1>4. \A r \in Requests \ R : phase'[r] = phase[r]
  <2> SUFFICES ASSUME NEW r \in Requests \ R PROVE phase'[r] = phase[r]
    OBVIOUS
  <2>1. CASE IsWrite(call[r])
    BY <1>2, <2>1, Unmoved DEF Inv, TypeOK
  <2>2. CASE ~IsWrite(call[r])
    BY <1>2, <2>2, Unseen DEF IsWrite
  <2> QED
    BY <2>1, <2>2
<1>5. phase' = [r \in Requests |-> phase'[r]]
  BY DEF phase
<1> HIDE DEF R
<1>6. phase' = [r \in Requests |-> IF r \notin R THEN phase[r]
                                   ELSE IF phase[r] = "open" THEN "doubtful" ELSE "failed"]
  BY <1>1, <1>3, <1>4, <1>5
<1>7. task' = task
  BY <1>2 DEF task, IsWrite
<1>8. R \in SUBSET Requests
  BY <1>1
<1> QED
  BY <1>1, <1>2, <1>6, <1>7, <1>8 DEF Store!Fail

---------------------------------------------------------------------------
(* The refinement                                                          *)

\* Every step of the service, of MongoDB and of a failing process is one step
\* of the store or is not seen by it.
LEMMA StoreStep ==
    Inv /\ SuccessIsFinal /\ [Next]_vars => [Store!Next]_(Store!vars)
<1> SUFFICES ASSUME Inv, SuccessIsFinal, [Next]_vars PROVE [Store!Next]_(Store!vars)
  OBVIOUS
<1>1. ASSUME NEW r \in Requests, pc[r] = "idle", NEW code, Refuse(r, code)
      PROVE  UNCHANGED Store!vars
  <2>1. ~IsWrite(call[r]) /\ ~IsWrite(call[r])'
    BY <1>1 DEF Inv, HandlerInv, Refuse, NoCall, IsWrite
  <2> QED
    BY <1>1, <2>1, ReadUnseen DEF Refuse, Inv, TypeOK
<1>2. ASSUME NEW r \in Requests, pc[r] = "idle", NEW c, Submit(r, c), ~IsWrite(c),
             UNCHANGED minted
      PROVE  UNCHANGED Store!vars
  <2>1. ~IsWrite(call[r]) /\ ~IsWrite(call[r])'
    BY <1>2 DEF Inv, TypeOK, HandlerInv, Submit, NoCall, IsWrite
  <2> QED
    BY <1>2, <2>1, ReadUnseen DEF Submit, Inv, TypeOK
<1>3. ASSUME NEW r \in Requests, Create(r) PROVE [Store!Next]_(Store!vars)
  <2>1. PICK proto \in Protocols :
          \/ \E code : Refuse(r, code)
          \/ \E body \in Bodies(proto) :
                /\ ValidProduct(body)
                /\ \E id \in Ids \ minted :
                      /\ minted' = minted \cup {id}
                      /\ Submit(r, MakeCall(proto, "Create", id, body))
    BY <1>3 DEF Create
  <2>2. pc[r] = "idle"
    BY <1>3 DEF Create
  <2>3. ASSUME NEW body \in Bodies(proto), ValidProduct(body), NEW id \in Ids \ minted,
               minted' = minted \cup {id}, Submit(r, MakeCall(proto, "Create", id, body))
        PROVE  Store!Begin(r)
    <3> DEFINE c == MakeCall(proto, "Create", id, body)
    <3>1. c \in Calls /\ c.op = "Create" /\ c.id = id /\ c.doc = body /\ body \in Products
      BY DEF Calls, MakeCall, Ops, Bodies
    <3>2. Submit(r, c)
      BY <2>3
    <3> HIDE DEF c
    <3> QED
      BY <2>2, <2>3, <3>1, <3>2, BeginStep DEF IsWrite
  <2> QED
    BY <1>1, <2>1, <2>2, <2>3 DEF Store!Next
<1>4. ASSUME NEW r \in Requests, GetAll(r) PROVE UNCHANGED Store!vars
  <2>1. PICK proto \in Protocols : Submit(r, MakeCall(proto, "GetAll", NoId, Absent))
    BY <1>4 DEF GetAll
  <2>2. ~IsWrite(MakeCall(proto, "GetAll", NoId, Absent))
    BY DEF MakeCall, IsWrite
  <2> QED
    BY <1>2, <1>4, <2>1, <2>2 DEF GetAll
<1>5. ASSUME NEW r \in Requests, GetByID(r) PROVE UNCHANGED Store!vars
  <2>1. PICK proto \in Protocols, id \in Ids \cup {NoId, BadId} :
          \/ \E code : Refuse(r, code)
          \/ Submit(r, MakeCall(proto, "GetByID", id, Absent)) /\ UNCHANGED minted
    BY <1>5 DEF GetByID
  <2>2. ~IsWrite(MakeCall(proto, "GetByID", id, Absent))
    BY DEF MakeCall, IsWrite
  <2> QED
    BY <1>1, <1>2, <1>5, <2>1, <2>2 DEF GetByID
<1>6. ASSUME NEW r \in Requests, NEW proto \in Protocols, NEW op \in {"Update", "Delete"},
             NEW id \in Ids, NEW doc \in Products \cup {Absent},
             pc[r] = "idle", Submit(r, MakeCall(proto, op, id, doc)), UNCHANGED minted
      PROVE  Store!Begin(r)
  <2> DEFINE c == MakeCall(proto, op, id, doc)
  <2>1. c \in Calls /\ c.op = op /\ c.id = id
    BY DEF Calls, MakeCall, Ops
  <2>2. Submit(r, c)
    BY <1>6
  <2> HIDE DEF c
  <2> QED
    BY <1>6, <2>1, <2>2, BeginStep DEF IsWrite
<1>7. ASSUME NEW r \in Requests, Update(r) PROVE [Store!Next]_(Store!vars)
  <2>1. PICK proto \in Protocols, id \in Ids \cup {NoId, BadId} :
          \/ \E code : Refuse(r, code)
          \/ \E body \in Bodies(proto) :
                /\ UsableId(id)
                /\ Submit(r, MakeCall(proto, "Update", id, body))
                /\ UNCHANGED minted
    BY <1>7 DEF Update
  <2>2. pc[r] = "idle"
    BY <1>7 DEF Update
  <2> QED
    BY <1>1, <1>6, <2>1, <2>2 DEF Store!Next, UsableId, Bodies
<1>8. ASSUME NEW r \in Requests, Delete(r) PROVE [Store!Next]_(Store!vars)
  <2>1. PICK proto \in Protocols, id \in Ids \cup {NoId, BadId} :
          \/ \E code : Refuse(r, code)
          \/ /\ UsableId(id)
             /\ Submit(r, MakeCall(proto, "Delete", id, Absent))
             /\ UNCHANGED minted
    BY <1>8 DEF Delete
  <2>2. pc[r] = "idle"
    BY <1>8 DEF Delete
  <2> QED
    BY <1>1, <1>6, <2>1, <2>2 DEF Store!Next, UsableId
<1>9. ASSUME NEW r \in Requests, Execute(r) \/ Lose(r) PROVE [Store!Next]_(Store!vars)
  BY <1>9, EffectStep, UnseenStep DEF Store!Next
<1>10. ASSUME NEW r \in Requests, pc[r] \in {"await", "scan"}, ~IsWrite(call[r]),
              \/ \E rep : Answer(r, rep)
              \/ OpenCursor(r) \/ NextBatch(r) \/ CursorCut(r)
       PROVE  UNCHANGED Store!vars
  <2>1. /\ UNCHANGED <<collection, minted, call>>
        /\ \A q \in Requests \ {r} : UNCHANGED <<pc[q], link[q], reply[q]>>
    BY <1>10 DEF Answer, OpenCursor, NextBatch, CursorCut, Inv, TypeOK
  <2> QED
    BY <1>10, <2>1, ReadUnseen DEF IsWrite
<1>11. ASSUME NEW r \in Requests, Return(r) PROVE [Store!Next]_(Store!vars)
  <2>1. pc[r] = "await" /\ Executed(r)
    BY <1>11 DEF Return, Executed
  <2>2. CASE ~IsWrite(call[r])
    BY <1>10, <1>11, <2>1, <2>2 DEF Return
  <2>3. CASE IsWrite(call[r])
    <3> DEFINE rep == Success(call[r].proto, Body(r))
    <3>1. Answer(r, rep)
      BY <1>11, <2>3 DEF Return, IsWrite
    <3>2. rep.code \in {"200", "OK"}
      BY <2>1, CallType, BodyType, AnswerType
    <3> HIDE DEF rep
    <3> QED
      BY <2>1, <2>3, <3>1, <3>2, AcknowledgeStep DEF Store!Next
  <2> QED
    BY <2>2, <2>3
<1>12. ASSUME NEW r \in Requests, DriverError(r) PROVE [Store!Next]_(Store!vars)
  <2>1. pc[r] = "await"
    BY <1>12 DEF DriverError
  <2>2. CASE ~IsWrite(call[r])
    BY <1>10, <1>12, <2>1, <2>2 DEF DriverError
  <2>3. CASE IsWrite(call[r])
    <3> DEFINE rep == Failure(FailCode(call[r].proto, call[r].op))
    <3>1. Answer(r, rep)
      BY <1>12 DEF DriverError
    <3>2. rep.code \notin {"200", "OK"}
      BY <2>1, CallType, ErrorCodes DEF Failure
    <3> HIDE DEF rep
    <3>3. Store!Fail({r})
      BY <2>1, <2>3, <3>1, <3>2, FailStep
    <3> QED
      BY <3>3 DEF Store!Next
  <2> QED
    BY <2>2, <2>3
<1>13. ASSUME NEW r \in Requests, OpenCursor(r) \/ NextBatch(r) \/ CursorEnd(r) \/ CursorCut(r)
       PROVE  UNCHANGED Store!vars
  <2>1. pc[r] \in {"await", "scan"} /\ call[r].op = "GetAll"
    BY <1>13 DEF OpenCursor, NextBatch, CursorEnd, CursorCut, Inv, HandlerInv
  <2> QED
    BY <1>10, <1>13, <2>1 DEF CursorEnd, IsWrite
<1>14. ASSUME NEW proto \in Protocols, Die(proto) PROVE [Store!Next]_(Store!vars)
  BY <1>14, DieStep DEF Store!Next
<1>15. CASE UNCHANGED vars
  <2>1. phase' = phase /\ task' = task
    BY <1>15 DEF vars, phase, task, Acked, IsWrite, Executed
  <2> QED
    BY <1>15, <2>1 DEF vars, Store!vars
<1> QED
  BY <1>3, <1>4, <1>5, <1>7, <1>8, <1>9, <1>11, <1>12, <1>13, <1>14, <1>15 DEF Next, Handle

\* What http-server, grpc-server and MongoDB do to the collection, under any
\* interleaving, loss, error and crash, is what ProductStore allows.
THEOREM StoreImplemented == Spec => ImplementsStore
<1>1. Init => Store!Init
  <2> SUFFICES ASSUME Init PROVE Store!Init
    OBVIOUS
  <2>1. collection \in [Ids -> {p \in Products : ValidProduct(p)} \cup {Absent}]
    BY CrudAssumption DEF Init
  <2>2. \A r \in Requests : ~IsWrite(call[r])
    BY DEF Init, IsWrite, NoCall
  <2>3. task = [r \in Requests |-> NoCall] /\ phase = [r \in Requests |-> "idle"]
    BY <2>2 DEF task, phase
  <2> QED
    BY <2>1, <2>3 DEF Init, Store!Init
<1> QED
  BY <1>1, StoreStep, SpecInv, SuccessFinal, PTL DEF Spec, ImplementsStore, Store!Spec

---------------------------------------------------------------------------
(* What readers are shown: listings are complete, and an odd answer has    *)
(* its origin in a write that was let through.                             *)

\* The steps of a handler that has not reached the repository leave what it
\* and the others have read alone, and answer with an error at most.
LEMMA SubmitOrRefuse ==
    ASSUME NEW q \in Requests,
           Create(q) \/ GetAll(q) \/ GetByID(q) \/ Update(q) \/ Delete(q)
    PROVE  /\ UNCHANGED <<collection, listed, due>>
           /\ \/ reply' = reply
              \/ \E code \in {"400", "404", "500", "Unknown"} :
                    reply' = [reply EXCEPT ![q] = Failure(code)]
<1>1. \/ \E code \in {"400", "404", "500", "Unknown"} : Refuse(q, code)
      \/ \E c : Submit(q, c)
  <2>1. CASE Create(q)
    BY <2>1, ErrorCodes DEF Create, Ops
  <2>2. CASE GetAll(q)
    BY <2>2 DEF GetAll
  <2>3. CASE GetByID(q)
    BY <2>3, ErrorCodes DEF GetByID, IdRefusal, Ops
  <2>4. CASE Update(q)
    BY <2>4, ErrorCodes DEF Update, IdRefusal, Ops
  <2>5. CASE Delete(q)
    BY <2>5, ErrorCodes DEF Delete, IdRefusal, Ops
  <2> QED
    BY <2>1, <2>2, <2>3, <2>4, <2>5
<1> QED
  BY <1>1 DEF Refuse, Submit

\* A handler reads documents that are in the collection as it reads them.
LEMMA ReadStep ==
    ASSUME Inv, [Next]_vars, NEW r \in Requests, NEW i \in listed'[r], i \notin listed[r]
    PROVE  \E id \in Live : i = Document(id)
<1> USE DEF Inv, TypeOK
<1>1. ASSUME NEW q \in Requests, Create(q) \/ GetAll(q) \/ GetByID(q) \/ Update(q) \/ Delete(q)
      PROVE  FALSE
  BY <1>1, SubmitOrRefuse
<1>2. ASSUME NEW q \in Requests, Execute(q) PROVE \E id \in Live : i = Document(id)
  <2>1. q = r /\ call[q].op = "GetByID" /\ collection[call[q].id] # Absent
    BY <1>2 DEF Execute
  <2>2. i = Document(call[q].id) /\ call[q].id \in Ids
    BY <1>2, <2>1 DEF Execute, CallInv
  <2> QED
    BY <2>1, <2>2 DEF Live
<1>3. ASSUME NEW q \in Requests, NextBatch(q) PROVE \E id \in Live : i = Document(id)
  <2>1. PICK batch \in SUBSET Live :
           listed' = [listed EXCEPT ![q] = @ \cup {Document(id) : id \in batch}]
    BY <1>3 DEF NextBatch
  <2> QED
    BY <2>1
<1>4. CASE listed' = listed
  BY <1>4
<1>5. ASSUME NEW q \in Requests,
             Lose(q) \/ Return(q) \/ DriverError(q) \/ OpenCursor(q) \/ CursorEnd(q) \/ CursorCut(q)
      PROVE  listed' = listed
  BY <1>5 DEF Lose, Return, DriverError, OpenCursor, CursorEnd, CursorCut, Answer
<1>6. ASSUME NEW proto \in Protocols, Die(proto) PROVE listed' = listed
  BY <1>6 DEF Die
<1> QED
  BY <1>1, <1>2, <1>3, <1>4, <1>5, <1>6 DEF Next, Handle, vars

\* A cursor is opened over all the documents there are.
LEMMA OpenStep ==
    ASSUME Inv, [Next]_vars, NEW r \in Requests, due'[r] # due[r]
    PROVE  due'[r] = Live /\ collection' = collection
<1> USE DEF Inv, TypeOK
<1>1. ASSUME NEW q \in Requests, Create(q) \/ GetAll(q) \/ GetByID(q) \/ Update(q) \/ Delete(q)
      PROVE  FALSE
  BY <1>1, SubmitOrRefuse
<1>2. ASSUME NEW q \in Requests, Execute(q) PROVE due'[r] = Live /\ collection' = collection
  BY <1>2 DEF Execute
<1>3. ASSUME NEW q \in Requests, Lose(q) \/ Handle(q) PROVE FALSE
  BY <1>3 DEF Lose, Handle, Return, DriverError, OpenCursor, NextBatch, CursorEnd, CursorCut, Answer
<1>4. ASSUME NEW proto \in Protocols, Die(proto) PROVE FALSE
  BY <1>4 DEF Die
<1>5. CASE UNCHANGED vars
  BY <1>5 DEF vars
<1> QED
  BY <1>1, <1>2, <1>3, <1>4, <1>5 DEF Next

\* An answer, once it is given, is an error or the success the handler makes of
\* what MongoDB has executed for it.
LEMMA ReplyStep ==
    ASSUME Inv, [Next]_vars, NEW r \in Requests, reply'[r] # reply[r]
    PROVE  \/ \E code \in {"400", "404", "500", "Unknown"} : reply'[r] = Failure(code)
           \/ /\ pc[r] \in {"await", "scan"} /\ Executed(r) /\ call[r].proto \in Protocols
              /\ reply'[r] = Success(call[r].proto, Body(r))
              /\ UNCHANGED <<collection, minted, call, listed, due>>
<1> DEFINE Goal == \/ \E code \in {"400", "404", "500", "Unknown"} : reply'[r] = Failure(code)
                   \/ /\ pc[r] \in {"await", "scan"} /\ Executed(r) /\ call[r].proto \in Protocols
                      /\ reply'[r] = Success(call[r].proto, Body(r))
                      /\ UNCHANGED <<collection, minted, call, listed, due>>
<1> USE DEF Inv, TypeOK
<1>1. ASSUME NEW q \in Requests, Create(q) \/ GetAll(q) \/ GetByID(q) \/ Update(q) \/ Delete(q)
      PROVE  Goal
  BY <1>1, SubmitOrRefuse
<1>2. ASSUME NEW q \in Requests, Execute(q) \/ Lose(q) \/ OpenCursor(q) \/ NextBatch(q)
      PROVE  FALSE
  BY <1>2 DEF Execute, Lose, OpenCursor, NextBatch
<1>3. ASSUME NEW q \in Requests, pc[q] = "await", NEW rep, Answer(q, rep),
             rep = Failure(FailCode(call[q].proto, call[q].op))
      PROVE  Goal
  <2>1. FailCode(call[q].proto, call[q].op) \in {"400", "404", "500", "Unknown"}
    BY <1>3, CallType, ErrorCodes
  <2>2. q = r /\ reply'[r] = rep
    BY <1>3 DEF Answer
  <2> QED
    BY <1>3, <2>1, <2>2
<1>4. ASSUME NEW q \in Requests, Executed(q), pc[q] \in {"await", "scan"},
             reply' = [reply EXCEPT ![q] = Success(call[q].proto, Body(q))],
             UNCHANGED <<collection, minted, call, listed, due>>
      PROVE  Goal
  BY <1>4, CallType
<1>5. ASSUME NEW q \in Requests, Return(q) \/ DriverError(q) PROVE Goal
  <2>1. pc[q] = "await"
    BY <1>5 DEF Return, DriverError
  <2>2. \/ Answer(q, Failure(FailCode(call[q].proto, call[q].op)))
        \/ Executed(q) /\ Answer(q, Success(call[q].proto, Body(q)))
    BY <1>5 DEF Return, DriverError, Executed
  <2> QED
    BY <1>3, <1>4, <2>1, <2>2 DEF Answer
<1>6. ASSUME NEW q \in Requests, CursorEnd(q) \/ CursorCut(q) PROVE Goal
  <2>1. pc[q] = "scan" /\ Executed(q)
    BY <1>6 DEF CursorEnd, CursorCut, HandlerInv, Executed
  <2> QED
    BY <1>4, <1>6, <2>1 DEF CursorEnd, CursorCut, Answer
<1>7. ASSUME NEW proto \in Protocols, Die(proto) PROVE FALSE
  BY <1>7 DEF Die
<1>8. CASE UNCHANGED vars
  BY <1>8 DEF vars
<1> QED
  BY <1>1, <1>2, <1>5, <1>6, <1>7, <1>8 DEF Next, Handle

---------------------------------------------------------------------------
(* Listings                                                                *)

\* The inductive form of CompleteListing.  What was there when a cursor was
\* opened is there or has been deleted, and everything that is stored or was
\* read has an id from NewObjectID.
ListingInv ==
    /\ Live \subseteq minted
    /\ \A r \in Requests :
          /\ Visited(r) \subseteq minted
          /\ Acked(r) => Executed(r)
          /\ \A id \in due[r] \ Live : \E d \in Requests : DeletedBy(d, id)

\* An answer with a body shows the documents the handler has, each under its id.
LEMMA ShownIds ==
    ASSUME NEW proto \in Protocols, NEW items \in SUBSET Items, ~Success(proto, items).blank
    PROVE  {i[1] : i \in Success(proto, items).items} = {i[1] : i \in items}
<1>1. CASE proto = "grpc"
  <2> DEFINE Shown(i) == <<i[1], [i[2] EXCEPT !.stock = ToInt32(@)]>>
  <2>1. Success(proto, items).items = {Shown(i) : i \in items}
    BY <1>1 DEF Success
  <2>2. \A i \in items : Shown(i)[1] = i[1]
    OBVIOUS
  <2> HIDE DEF Shown
  <2> QED
    BY <2>1, <2>2
<1>2. CASE proto = "http"
  BY <1>2 DEF Success
<1> QED
  BY <1>1, <1>2 DEF Protocols

LEMMA ListingInit == Init => ListingInv
  BY DEF Init, ListingInv, Live, Visited, Acked

LEMMA ListingNext == Inv /\ ListingInv /\ [Next]_vars => ListingInv'
<1> SUFFICES ASSUME Inv, ListingInv, [Next]_vars PROVE ListingInv'
  OBVIOUS
<1>1. Live' \subseteq minted'
  <2> SUFFICES ASSUME NEW id \in Ids, collection'[id] # Absent PROVE id \in minted'
    BY DEF Live
  <2>1. CASE collection'[id] = collection[id]
    BY <2>1, History DEF ListingInv, Live
  <2>2. CASE collection'[id] # collection[id]
    <3>1. PICK w \in Requests : WrittenBy(w, id)
      BY <2>2, CollectionStep
    <3>2. \/ call[w].op = "Create" /\ id \in minted
          \/ collection[id] # Absent
      BY <3>1 DEF WrittenBy, Inv, CallInv
    <3> QED
      BY <3>2, History DEF ListingInv, Live
  <2> QED
    BY <2>1, <2>2
<1>2. ASSUME NEW r \in Requests PROVE Visited(r)' \subseteq minted'
  <2> SUFFICES ASSUME NEW i \in listed'[r] PROVE i[1] \in minted'
    BY DEF Visited
  <2>1. CASE i \in listed[r]
    BY <2>1, History DEF ListingInv, Visited
  <2>2. CASE i \notin listed[r]
    <3>1. PICK id \in Live : i = Document(id)
      BY <2>2, ReadStep
    <3> QED
      BY <3>1, History DEF ListingInv, Document
  <2> QED
    BY <2>1, <2>2
<1>3. ASSUME NEW r \in Requests, Acked(r)' PROVE Executed(r)'
  <2>1. Executed(r)
    BY <1>3, AckStep DEF ListingInv
  <2> QED
    BY <2>1, History
<1>4. ASSUME NEW r \in Requests, NEW id \in due'[r] \ Live'
      PROVE  (\E d \in Requests : DeletedBy(d, id))'
  <2>1. id \in Ids /\ collection'[id] = Absent
    BY <1>4, NextInv DEF Inv, TypeOK, Live
  <2>2. CASE due'[r] = due[r]
    <3>1. CASE collection[id] = Absent
      <4>1. \E d \in Requests : DeletedBy(d, id)
        BY <1>4, <2>2, <3>1 DEF ListingInv, Live
      <4> QED
        BY <2>1, <4>1, DeletedStays
    <3>2. CASE collection[id] # Absent
      BY <2>1, <3>2, Disappears
    <3> QED
      BY <3>1, <3>2
  <2>3. CASE due'[r] # due[r]
    BY <1>4, <2>3, OpenStep DEF Live
  <2> QED
    BY <2>2, <2>3
<1> QED
  BY <1>1, <1>2, <1>3, <1>4 DEF ListingInv

\* A listing is acknowledged by one of the two ends of its scan.
LEMMA ListingEnds ==
    ASSUME Inv, [Next]_vars, NEW r \in Requests, call'[r].op = "GetAll", Acked(r)', ~Acked(r)
    PROVE  /\ CursorEnd(r) \/ CursorCut(r)
           /\ UNCHANGED <<call, due, minted, collection>>
           /\ reply'[r] = Success(call[r].proto, listed[r])
           /\ call[r].proto \in Protocols /\ listed[r] \in SUBSET Items
<1> USE DEF Inv, TypeOK
<1>1. call'[r] = call[r] /\ call[r].op = "GetAll"
  BY AckStep
<1>2. reply'[r] # reply[r] /\ pc[r] # "done"
  <2>1. pc[r] # "done"
    BY DoneStays DEF Acked
  <2> QED
    BY <2>1 DEF Acked, HandlerInv, NoReply
<1>3. /\ pc[r] \in {"await", "scan"} /\ call[r].proto \in Protocols
      /\ reply'[r] = Success(call[r].proto, Body(r))
      /\ UNCHANGED <<collection, minted, call, listed, due>>
  BY <1>2, ReplyStep DEF Acked, Failure
<1>4. Body(r) = listed[r]
  BY <1>1 DEF Body
<1>5. listed[r] \in SUBSET Items
  BY CrudAssumption DEF Items
<1>6. CursorEnd(r) \/ CursorCut(r)
  <2>1. ASSUME NEW q \in Requests,
               Create(q) \/ GetAll(q) \/ GetByID(q) \/ Update(q) \/ Delete(q)
        PROVE  FALSE
    BY <1>2, <2>1, SubmitOrRefuse DEF Acked, Failure
  <2>2. ASSUME NEW q \in Requests, Execute(q) \/ Lose(q) \/ OpenCursor(q) \/ NextBatch(q)
        PROVE  FALSE
    BY <1>2, <2>2 DEF Execute, Lose, OpenCursor, NextBatch
  <2>3. ASSUME NEW q \in Requests, Return(q) PROVE FALSE
    BY <1>1, <1>2, <2>3 DEF Return, Answer
  <2>4. ASSUME NEW q \in Requests, DriverError(q) PROVE FALSE
    <3>1. FailCode(call[q].proto, call[q].op) \in {"400", "404", "500", "Unknown"}
      BY <2>4, CallType, ErrorCodes DEF DriverError
    <3> QED
      BY <1>2, <2>4, <3>1 DEF DriverError, Answer, Failure, Acked
  <2>5. ASSUME NEW q \in Requests, CursorEnd(q) \/ CursorCut(q) PROVE q = r
    BY <1>2, <2>5 DEF CursorEnd, CursorCut, Answer
  <2>6. ASSUME NEW proto \in Protocols, Die(proto) PROVE FALSE
    BY <1>2, <2>6 DEF Die
  <2>7. CASE UNCHANGED vars
    BY <1>2, <2>7 DEF vars
  <2> QED
    BY <2>1, <2>2, <2>3, <2>4, <2>5, <2>6, <2>7 DEF Next, Handle
<1> QED
  BY <1>1, <1>3, <1>4, <1>5, <1>6

\* A listing whose cursor was read to its end misses nothing that was there
\* when the cursor was opened and has not been deleted, whatever else was
\* written, deleted or lost while the cursor was read.
THEOREM ListingComplete == Spec => []CompleteListing
<1>1. Init => CompleteListing
  BY DEF Init, CompleteListing, NoCall
<1>2. Inv /\ ListingInv /\ CompleteListing /\ [Next]_vars => CompleteListing'
  <2> DEFINE Shown(r) == {i[1] : i \in reply[r].items}
             Complete(r) == /\ Shown(r) \subseteq minted
                            /\ \/ link[r] = "cut"
                               \/ \A id \in due[r] \ Shown(r) : \E d \in Requests : DeletedBy(d, id)
  <2> SUFFICES ASSUME Inv, ListingInv, CompleteListing, [Next]_vars, NEW r \in Requests,
                      (call[r].op)' = "GetAll", Acked(r)', ~reply'[r].blank
               PROVE  Complete(r)'
    BY DEF CompleteListing
  <2>1. Inv'
    BY NextInv
  <2>2. CASE Acked(r)
    <3>1. /\ pc[r] = "done" /\ reply'[r] = reply[r] /\ call'[r] = call[r]
          /\ link'[r] = link[r] /\ due'[r] = due[r]
      BY <2>2, DoneStays DEF Acked, ListingInv, Executed
    <3>2. Complete(r)
      BY <2>2, <3>1 DEF CompleteListing
    <3>3. Shown(r)' = Shown(r)
      BY <3>1
    <3>4. \A id \in due[r] : (\E d \in Requests : DeletedBy(d, id)) =>
                                (\E d \in Requests : DeletedBy(d, id))'
      BY DeletedStays DEF Inv, TypeOK
    <3> QED
      BY <3>1, <3>2, <3>3, <3>4, History
  <2>3. CASE ~Acked(r)
    <3>1. CursorEnd(r) \/ CursorCut(r)
      BY <2>3, ListingEnds
    <3>2. /\ call'[r] = call[r] /\ due'[r] = due[r] /\ minted' = minted /\ collection' = collection
          /\ reply'[r] = Success(call[r].proto, listed[r])
          /\ call[r].proto \in Protocols /\ listed[r] \in SUBSET Items
      BY <2>3, ListingEnds
    <3>3. Shown(r)' = Visited(r)
      <4>1. ~Success(call[r].proto, listed[r]).blank
        BY <3>2
      <4>2. {i[1] : i \in Success(call[r].proto, listed[r]).items} = {i[1] : i \in listed[r]}
        BY <3>2, <4>1, ShownIds
      <4> QED
        BY <3>2, <4>2 DEF Visited
    <3>4. CASE CursorCut(r)
      BY <3>2, <3>3, <3>4 DEF CursorCut, ListingInv, Inv, TypeOK
    <3>5. CASE CursorEnd(r)
      <4>1. \A id \in due[r] \ Visited(r) : id \in due[r] \ Live
        BY <3>5 DEF CursorEnd
      <4>2. \A id \in due[r] \ Visited(r) : (\E d \in Requests : DeletedBy(d, id))'
        BY <4>1, DeletedStays DEF ListingInv, Inv, TypeOK
      <4> QED
        BY <3>2, <3>3, <4>2 DEF ListingInv
    <3> QED
      BY <3>1, <3>4, <3>5
  <2> QED
    BY <2>2, <2>3
<1> QED
  BY <1>1, <1>2, ListingInit, ListingNext, SpecInv, PTL DEF Spec

---------------------------------------------------------------------------
(* Where odd answers come from                                             *)

\* A remainder below the divisor is the number itself.
LEMMA SmallRemainder ==
    ASSUME NEW m \in Nat \ {0}, NEW n \in 0 .. (m - 1)
    PROVE  n % m = n
<1>1. n % m \in 0 .. (m - 1) /\ n = m * (n \div m) + (n % m) /\ n \div m \in Int
  BY SMT
<1>2. n \div m = 0
  BY SMT
<1> QED
  BY <1>1, <1>2, SMT

\* int32() leaves a stock alone that fits.
LEMMA ToInt32Fits ==
    ASSUME NEW n \in Int, 0 <= n, n < Half
    PROVE  ToInt32(n) = n
<1>1. Half \in Nat \ {0}
  BY CrudAssumption
<1>2. 2 * Half \in Nat \ {0} /\ n + Half \in 0 .. (2 * Half - 1)
  BY <1>1, SMT
<1>3. (n + Half) % (2 * Half) = n + Half
  BY <1>2, SmallRemainder
<1> QED
  BY <1>1, <1>3, SMT DEF ToInt32

\* A product that the processes found in the collection, or that some executed
\* write put there.
Stored(p) ==
    \/ p \in Seed
    \/ \E w \in Requests : /\ call[w].op \in {"Create", "Update"} /\ Executed(w)
                           /\ call[w].doc = p

\* What an RPC makes of a product it shows.
AsInt32(p) == [p EXCEPT !.stock = ToInt32(@)]

\* What a client can be shown of a stored product.
Shows(x, p) == x = p \/ x = AsInt32(p)

\* Every document that is in the collection, was read or is in an answer comes
\* from a stored product, and a body that had no JSON text from one without.
OriginInv ==
    /\ \A id \in Live : Stored(collection[id])
    /\ \A r \in Requests :
          /\ call[r].op \in {"Create", "Update"} =>
                call[r].proto \in Protocols /\ call[r].doc \in Bodies(call[r].proto)
          /\ \A i \in listed[r] : Stored(i[2])
          /\ \A i \in reply[r].items : \E p \in Products : Stored(p) /\ Shows(i[2], p)
          /\ reply[r].blank => \E p \in Products : Stored(p) /\ ~Encodable(p)

\* An RPC's answer shows stocks as int32() makes them.
Int32Inv ==
    \A r \in Requests :
        call[r].proto = "grpc" =>
            \A i \in reply[r].items : \E p \in Products :
                Stored(p) /\ i[2] = AsInt32(p)

\* What was stored once stays so, and seeds and writes are products.
LEMMA StoredStays ==
    ASSUME Inv, [Next]_vars, NEW p, Stored(p)
    PROVE  Stored(p)'
<1>1. CASE p \in Seed
  BY <1>1 DEF Stored
<1>2. ASSUME NEW w \in Requests, call[w].op \in {"Create", "Update"}, Executed(w), call[w].doc = p
      PROVE  Stored(p)'
  <2>1. call[w] # NoCall
    BY <1>2 DEF NoCall
  <2> QED
    BY <1>2, <2>1, History DEF Stored
<1> QED
  BY <1>1, <1>2 DEF Stored

LEMMA StoredProduct ==
    ASSUME Inv, NEW p, Stored(p)
    PROVE  p \in Products
  BY CrudAssumption DEF Stored, Inv, CallInv

\* What a success answer shows is read or was asked for, wrapped to int32 by an
\* RPC, and it is blank only if a product in it has no JSON text.
LEMMA SuccessShows ==
    ASSUME NEW proto \in Protocols, NEW items \in SUBSET Items
    PROVE  /\ proto = "http" => Success(proto, items).items \subseteq items
           /\ proto = "grpc" => \A x \in Success(proto, items).items : \E i \in items :
                                   x[2] = AsInt32(i[2])
           /\ Success(proto, items).blank => \E i \in items : ~Encodable(i[2])
<1>1. CASE proto = "http"
  BY <1>1 DEF Success
<1>2. CASE proto = "grpc"
  <2> DEFINE Shown(i) == <<i[1], AsInt32(i[2])>>
  <2>1. Success(proto, items).items = {Shown(i) : i \in items} /\ ~Success(proto, items).blank
    BY <1>2 DEF Success, AsInt32
  <2>2. \A i \in items : Shown(i)[2] = AsInt32(i[2])
    OBVIOUS
  <2> HIDE DEF Shown
  <2> QED
    BY <1>2, <2>1, <2>2
<1> QED
  BY <1>1, <1>2 DEF Protocols

\* What the handlers make a success answer of is stored.
LEMMA BodyStored ==
    ASSUME Inv, OriginInv, NEW r \in Requests, pc[r] \in {"await", "scan"}, Executed(r)
    PROVE  \A i \in Body(r) : i[2] \in Products /\ Stored(i[2])
<1>1. ASSUME NEW i \in Body(r) PROVE Stored(i[2])
  <2>1. CASE call[r].op \in {"Create", "Update"}
    BY <1>1, <2>1 DEF Body, Stored
  <2>2. CASE call[r].op = "Delete"
    BY <1>1, <2>2 DEF Body
  <2>3. CASE call[r].op \in {"GetAll", "GetByID"}
    BY <1>1, <2>3 DEF Body, OriginInv
  <2> QED
    BY <2>1, <2>2, <2>3, CallType DEF Ops
<1> QED
  BY <1>1, StoredProduct

LEMMA OriginInit == Init => OriginInv /\ Int32Inv
  BY CrudAssumption DEF Init, OriginInv, Int32Inv, Live, Stored, NoCall, NoReply

\* The bodies that pass a handler's decoding.
LEMMA DecodedStep ==
    ASSUME Inv, [Next]_vars, NEW r \in Requests, call'[r] # call[r],
           call'[r].op \in {"Create", "Update"}
    PROVE  call'[r].proto \in Protocols /\ call'[r].doc \in Bodies(call'[r].proto)
<1> USE DEF Inv, TypeOK
<1>1. ASSUME NEW q \in Requests, NEW c, Submit(q, c) PROVE call'[r] = c
  BY <1>1 DEF Submit
<1>2. ASSUME NEW q \in Requests, NEW code, Refuse(q, code) PROVE FALSE
  BY <1>2 DEF Refuse
<1>3. ASSUME NEW q \in Requests, Create(q) \/ Update(q)
      PROVE  \E id : \E proto \in Protocols, op \in Ops : \E body \in Bodies(proto) :
                Submit(q, MakeCall(proto, op, id, body))
  BY <1>2, <1>3 DEF Create, Update, Ops
<1>4. ASSUME NEW q \in Requests, GetAll(q) \/ GetByID(q) \/ Delete(q)
      PROVE  \E id : \E proto \in Protocols, op \in Ops \ {"Create", "Update"} :
                Submit(q, MakeCall(proto, op, id, Absent))
  BY <1>2, <1>4 DEF GetAll, GetByID, Delete, Ops
<1>5. \E q \in Requests : Create(q) \/ Update(q) \/ GetAll(q) \/ GetByID(q) \/ Delete(q)
  BY DEF Next, vars, Execute, Lose, Handle, Return, DriverError, OpenCursor, NextBatch,
     CursorEnd, CursorCut, Answer, Die
<1>6. ASSUME NEW q \in Requests, Create(q) \/ Update(q)
      PROVE  call'[r].proto \in Protocols /\ call'[r].doc \in Bodies(call'[r].proto)
  <2>0. PICK id : \E proto \in Protocols, op \in Ops : \E body \in Bodies(proto) :
           Submit(q, MakeCall(proto, op, id, body))
    BY <1>3, <1>6
  <2>1. PICK proto \in Protocols, op \in Ops : \E body \in Bodies(proto) :
           Submit(q, MakeCall(proto, op, id, body))
    BY <2>0
  <2>2. PICK body \in Bodies(proto) : call'[r] = MakeCall(proto, op, id, body)
    BY <1>1, <2>1
  <2>3. call'[r].proto = proto /\ call'[r].doc = body
    BY <2>2 DEF MakeCall
  <2> QED
    BY <2>2, <2>3
<1>7. ASSUME NEW q \in Requests, GetAll(q) \/ GetByID(q) \/ Delete(q)
      PROVE  FALSE
  <2>0. PICK id : \E proto \in Protocols, op \in Ops \ {"Create", "Update"} :
           Submit(q, MakeCall(proto, op, id, Absent))
    BY <1>4, <1>7
  <2>1. PICK proto \in Protocols, op \in Ops \ {"Create", "Update"} :
           Submit(q, MakeCall(proto, op, id, Absent))
    BY <2>0
  <2>2. call'[r] = MakeCall(proto, op, id, Absent)
    BY <1>1, <2>1
  <2>3. call'[r].op = op
    BY <2>2 DEF MakeCall
  <2> QED
    BY <2>3
<1> QED
  BY <1>5, <1>6, <1>7

LEMMA OriginNext == Inv /\ OriginInv /\ Int32Inv /\ [Next]_vars => OriginInv' /\ Int32Inv'
<1> SUFFICES ASSUME Inv, OriginInv, Int32Inv, [Next]_vars PROVE OriginInv' /\ Int32Inv'
  OBVIOUS
<1>1. ASSUME NEW id \in Ids, collection'[id] # Absent PROVE Stored(collection[id])'
  <2>1. CASE collection'[id] = collection[id]
    BY <1>1, <2>1, StoredStays DEF OriginInv, Live
  <2>2. CASE collection'[id] # collection[id]
    <3>1. PICK w \in Requests : WrittenBy(w, id)
      BY <2>2, CollectionStep
    <3>2. call[w].op \in {"Create", "Update"} /\ collection'[id] = call[w].doc
      BY <1>1, <3>1 DEF WrittenBy
    <3> QED
      BY <3>1, <3>2 DEF WrittenBy, Stored, Executed
  <2> QED
    BY <2>1, <2>2
<1>2. ASSUME NEW r \in Requests, call'[r].op \in {"Create", "Update"}
      PROVE  call'[r].proto \in Protocols /\ call'[r].doc \in Bodies(call'[r].proto)
  BY <1>2, DecodedStep DEF OriginInv
<1>3. ASSUME NEW r \in Requests, NEW i \in listed'[r] PROVE Stored(i[2])'
  <2>1. CASE i \in listed[r]
    BY <2>1, StoredStays DEF OriginInv
  <2>2. CASE i \notin listed[r]
    <3>1. PICK id \in Live : i = Document(id)
      BY <2>2, ReadStep
    <3>2. Stored(i[2])
      BY <3>1 DEF OriginInv, Document
    <3> QED
      BY <3>2, StoredStays
  <2> QED
    BY <2>1, <2>2
<1> DEFINE Origin(r) == /\ \A i \in reply[r].items : \E p \in Products : Stored(p) /\ Shows(i[2], p)
                        /\ reply[r].blank => \E p \in Products : Stored(p) /\ ~Encodable(p)
           Wrapped(r) == call[r].proto = "grpc" =>
                            \A i \in reply[r].items : \E p \in Products :
                                Stored(p) /\ i[2] = AsInt32(p)
<1>4. ASSUME NEW r \in Requests PROVE Origin(r)' /\ Wrapped(r)'
  <2>1. CASE reply'[r] = reply[r]
    <3>1. Origin(r)'
      BY <2>1, StoredStays DEF OriginInv, Shows
    <3>2. CASE call'[r] = call[r]
      BY <2>1, <3>1, <3>2, StoredStays DEF Int32Inv
    <3>3. CASE call'[r] # call[r]
      <4>1. pc[r] # "done"
        BY <3>3, DoneStays
      <4>2. reply'[r].items = {}
        BY <2>1, <4>1 DEF Inv, HandlerInv, NoReply
      <4> QED
        BY <3>1, <4>2
    <3> QED
      BY <3>2, <3>3
  <2>2. CASE \E code : reply'[r] = Failure(code)
    BY <2>2 DEF Failure
  <2>3. CASE /\ pc[r] \in {"await", "scan"} /\ Executed(r) /\ call[r].proto \in Protocols
             /\ reply'[r] = Success(call[r].proto, Body(r))
             /\ UNCHANGED call
    <3> DEFINE proto == call[r].proto
               items == Body(r)
    <3>1. proto \in Protocols /\ items \in SUBSET Items /\ reply'[r] = Success(proto, items)
      BY <2>3, BodyType
    <3>2. \A i \in items : i[2] \in Products /\ Stored(i[2])'
      BY <2>3, BodyStored, StoredStays
    <3>3. call'[r].proto = proto
      BY <2>3
    <3> HIDE DEF proto, items
    <3>4. reply'[r].blank => \E p \in Products : Stored(p)' /\ ~Encodable(p)
      BY <3>1, <3>2, SuccessShows
    <3>5. CASE proto = "http"
      <4>1. reply'[r].items \subseteq items
        BY <3>1, <3>5, SuccessShows
      <4>2. \A i \in reply'[r].items : \E p \in Products : Stored(p)' /\ i[2] = p
        BY <3>2, <4>1
      <4> QED
        BY <3>3, <3>4, <3>5, <4>2 DEF Shows, Encodable
    <3>6. CASE proto = "grpc"
      <4>1. \A x \in reply'[r].items : \E i \in items : x[2] = AsInt32(i[2])
        BY <3>1, <3>6, SuccessShows
      <4>2. \A x \in reply'[r].items : \E p \in Products :
               Stored(p)' /\ x[2] = AsInt32(p)
        BY <3>2, <4>1
      <4> QED
        BY <3>4, <4>2 DEF Shows, Encodable
    <3> QED
      BY <3>1, <3>5, <3>6 DEF Protocols
  <2> QED
    BY <2>1, <2>2, <2>3, ReplyStep
<1> QED
  BY <1>1, <1>2, <1>3, <1>4 DEF OriginInv, Int32Inv, Live

LEMMA SpecOrigin == Spec => [](OriginInv /\ Int32Inv)
  BY OriginInit, OriginNext, SpecInv, PTL DEF Spec

\* An HTTP answer without a body has its origin in a product that an RPC
\* stored: no JSON body is decoded to a price that has no JSON text.
THEOREM BlankBodyFromRPC == Spec => []BlankBodyOrigin
<1>1. Inv /\ OriginInv => BlankBodyOrigin
  <2> SUFFICES ASSUME Inv, OriginInv, NEW r \in Requests, reply[r].blank
               PROVE  \E w \in Requests : /\ IsWrite(call[w]) /\ Executed(w) /\ call[w].proto = "grpc"
                                          /\ call[w].doc # Absent /\ ~Encodable(call[w].doc)
    BY DEF BlankBodyOrigin
  <2>1. PICK p \in Products : Stored(p) /\ ~Encodable(p)
    BY DEF OriginInv
  <2>2. p \notin Seed
    BY <2>1, CrudAssumption DEF Encodable
  <2>3. PICK w \in Requests : /\ call[w].op \in {"Create", "Update"} /\ Executed(w)
                              /\ call[w].doc = p
    BY <2>1, <2>2 DEF Stored
  <2>4. call[w].proto \in Protocols /\ p \in Bodies(call[w].proto)
    BY <2>3 DEF OriginInv
  <2>5. call[w].proto = "grpc"
    BY <2>1, <2>4 DEF Bodies, Protocols, Encodable
  <2> QED
    BY <2>1, <2>3, <2>5, CrudAssumption DEF IsWrite
<1> QED
  BY <1>1, SpecInv, SpecOrigin, PTL

\* A negative stock in an RPC's answer has its origin in an Update that stored
\* one, or in an HTTP body whose stock does not fit in an int32.
THEOREM NegativeStockFromWrite == Spec => []NegativeStockOrigin
<1>1. Inv /\ OriginInv /\ Int32Inv => NegativeStockOrigin
  <2> DEFINE Origin(w) == /\ IsWrite(call[w]) /\ Executed(w) /\ call[w].doc # Absent
                          /\ \/ call[w].op = "Update" /\ call[w].doc.stock < 0
                             \/ call[w].proto = "http" /\ call[w].doc.stock >= Half
  <2> SUFFICES ASSUME Inv, OriginInv, Int32Inv, NEW r \in Requests, call[r].proto = "grpc",
                      NEW i \in reply[r].items, i[2].stock < 0
               PROVE  \E w \in Requests : Origin(w)
    BY DEF NegativeStockOrigin
  <2>1. PICK p \in Products : Stored(p) /\ i[2] = AsInt32(p)
    BY DEF Int32Inv
  <2>2. p \in Product /\ p.stock \in Int /\ Half \in Nat
    BY CrudAssumption DEF Product
  <2>3. i[2].stock = ToInt32(p.stock)
    BY <2>1, <2>2 DEF AsInt32, Product
  <2>4. p.stock < 0 \/ p.stock >= Half
    BY <2>2, <2>3, ToInt32Fits
  <2>5. p \notin Seed
    BY <2>2, <2>4, CrudAssumption DEF ValidProduct
  <2>6. PICK w \in Requests : /\ call[w].op \in {"Create", "Update"} /\ Executed(w)
                              /\ call[w].doc = p
    BY <2>1, <2>5 DEF Stored
  <2>7. call[w].proto \in Protocols /\ p \in Bodies(call[w].proto)
    BY <2>6 DEF OriginInv
  <2>8. p.stock < 0 => call[w].op = "Update"
    BY <2>2, <2>6 DEF Inv, CallInv, ValidProduct
  <2>9. p.stock >= Half => call[w].proto = "http"
    BY <2>2, <2>7 DEF Bodies, Protocols
  <2> QED
    BY <2>2, <2>4, <2>6, <2>8, <2>9, CrudAssumption DEF IsWrite
<1> QED
  BY <1>1, SpecInv, SpecOrigin, PTL
=============================================================================
