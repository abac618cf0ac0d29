------------------------------ MODULE CrudService ------------------------------
(***************************************************************************)
(* The CRUD core: http-server and grpc-server, two processes that run the  *)
(* same ProductService and ProductRepository over one MongoDB collection.  *)
(* Each request is a handler goroutine.  A handler decodes and checks its  *)
(* call, sends one command to MongoDB (GetAll: opens a cursor and reads it *)
(* batch by batch), waits and answers.  Nothing but MongoDB orders two     *)
(* requests, so between any two steps of one handler every other handler   *)
(* may run, either process may die, and a command may be executed after    *)
(* its handler has already given up on it.                                 *)
(***************************************************************************)
EXTENDS Integers

CONSTANTS
    Requests,   \* the HTTP requests and RPCs
    Ids,        \* primitive.ObjectID values
    Products,   \* the products that clients send or that are stored
    Half,       \* 2^31: an int32 is in -Half .. Half-1
    Seed,       \* those that may be stored before the processes start
    Absent,     \* "no document under this id"
    NoId,       \* an id parameter that is empty
    BadId       \* an id parameter that is not 24 hexadecimal digits

Protocols == {"http", "grpc"}

\* model.Product by what the code tells apart: whether there is a name, and
\* whether the price is at most zero, finite and positive, or neither (NaN or
\* +Inf, for which Price <= 0 is false and encoding/json has no text).  The
\* stock is a Go int.
Product == [named : BOOLEAN, price : {"nonpos", "pos", "nonfinite"}, stock : Int]

ValidProduct(p) == p.named /\ p.price # "nonpos" /\ p.stock >= 0

ASSUME CrudAssumption ==
    /\ Half \in Nat \ {0}
    /\ Products \subseteq Product
    /\ Seed \subseteq {p \in Products : ValidProduct(p) /\ p.price = "pos" /\ p.stock < Half}
    /\ Absent \notin Product
    /\ NoId \notin Ids /\ BadId \notin Ids /\ NoId # BadId

VARIABLES
    collection, \* MongoDB's "product" collection: the document under each id
    minted,     \* the ids NewObjectID has returned, and those stored before
    pc,         \* "idle", "await" MongoDB, "scan" a cursor, "done" or "gone"
    call,       \* what the handler asks of the repository once checks passed
    link,       \* the command: "none", "sent", "executed", "lost", or "cut"
    listed,     \* the documents a read has returned to its handler so far
    due,        \* the documents there were when FindAll's cursor was opened
    reply       \* what the handler answered; it may not reach the client

vars == <<collection, minted, pc, call, link, listed, due, reply>>

---------------------------------------------------------------------------
(* Calls and answers                                                       *)

Ops == {"Create", "GetAll", "GetByID", "Update", "Delete"}
Calls == [proto : Protocols, op : Ops, id : Ids \cup {NoId}, doc : Products \cup {Absent}]
NoCall == [proto |-> "none", op |-> "none", id |-> NoId, doc |-> Absent]

MakeCall(proto, op, id, doc) == [proto |-> proto, op |-> op, id |-> id, doc |-> doc]

\* pb.Product carries an int32 stock and any double; a JSON body an int64
\* stock and a number, which is never NaN or infinite.
Bodies(proto) ==
    IF proto = "grpc" THEN {p \in Products : p.stock >= -Half /\ p.stock < Half}
                      ELSE {p \in Products : p.price # "nonfinite"}

\* The status of an error found by the service or below it.
FailCode(proto, op) ==
    IF proto = "grpc" THEN "Unknown"
    ELSE CASE op = "GetByID" -> "404"
           [] op = "Create" -> "400"
           [] OTHER -> "500"

\* The status of a call the HTTP handler itself refuses.  An RPC has no such
\* distinction: every error is a plain Go error, code Unknown.
RefuseCode(proto) == IF proto = "grpc" THEN "Unknown" ELSE "400"

OkCode(proto) == IF proto = "grpc" THEN "OK" ELSE "200"

\* Mutant of ToInt32: the field is 16 bits wide.
ToInt16(n) == ((n + (Half \div 2)) % Half) - (Half \div 2)

\* int32(p.Stock)
ToInt32(n) == ((n + Half) % (2 * Half)) - Half

\* encoding/json has no representation of NaN or infinity: Encode returns an
\* error, which the handlers ignore, and writes nothing.
Encodable(p) == p.price # "nonfinite"

NoReply == [code |-> "none", items |-> {}, blank |-> FALSE]

\* Mutant of Failure: the error path returns without http.Error.
SilentFailure(code) == [code |-> "200", items |-> {}, blank |-> TRUE]

Failure(code) == [code |-> code, items |-> {}, blank |-> FALSE]

\* The success answer that carries the documents "items", pairs of an id and
\* the product under it.
Success(proto, items) ==
    IF proto = "grpc"
    THEN [code |-> OkCode(proto), blank |-> FALSE,
          items |-> {<<i[1], [i[2] EXCEPT !.stock = ToInt32(@)]>> : i \in items}]
    ELSE IF \A i \in items : Encodable(i[2])
         THEN [code |-> OkCode(proto), blank |-> FALSE, items |-> items]
         ELSE [code |-> OkCode(proto), blank |-> TRUE, items |-> {}]

Live == {id \in Ids : collection[id] # Absent}
Document(id) == <<id, collection[id]>>
IsWrite(c) == c.op \in {"Create", "Update", "Delete"}
Executed(r) == link[r] \in {"executed", "cut"}

---------------------------------------------------------------------------
(* Handlers: what happens before the repository is reached                 *)

\* An early return of a handler or of the service.
Refuse(r, code) ==
    /\ pc' = [pc EXCEPT ![r] = "done"]
    /\ reply' = [reply EXCEPT ![r] = Failure(code)]
    /\ UNCHANGED <<collection, minted, call, link, listed, due>>

\* The repository hands one command to the MongoDB driver.
Submit(r, c) ==
    /\ pc' = [pc EXCEPT ![r] = "await"]
    /\ call' = [call EXCEPT ![r] = c]
    /\ link' = [link EXCEPT ![r] = "sent"]
    /\ UNCHANGED <<collection, listed, due, reply>>

\* Mutant of Create: the stock is not validated.
CreateAnyStock(r) ==
    /\ pc[r] = "idle"
    /\ \E proto \in Protocols, id \in Ids \ minted : \E body \in Bodies(proto) :
          /\ body.named /\ body.price # "nonpos"
          /\ minted' = minted \cup {id}
          /\ Submit(r, MakeCall(proto, "Create", id, body))

\* The product gets its id in Insert, after validation.
Create(r) ==
    /\ pc[r] = "idle"
    /\ \E proto \in Protocols :
          \/ proto = "http" /\ Refuse(r, RefuseCode(proto))     \* undecodable body
          \/ \E body \in Bodies(proto) :
                \/ /\ ~ValidProduct(body)
                   /\ Refuse(r, FailCode(proto, "Create"))
                \/ /\ ValidProduct(body)
                   /\ \E id \in Ids \ minted :
                         /\ minted' = minted \cup {id}
                         /\ Submit(r, MakeCall(proto, "Create", id, body))

GetAll(r) ==
    /\ pc[r] = "idle"
    /\ \E proto \in Protocols : Submit(r, MakeCall(proto, "GetAll", NoId, Absent))
    /\ UNCHANGED minted

\* Mutant of UsableId: the error of ObjectIDFromHex is not looked at.
UsableIdUnparsed(id) == id # NoId

\* The id parameter of GetByID, Update and Delete.
UsableId(id) == id \in Ids

\* The HTTP handlers and the gRPC Update refuse an empty id themselves; the
\* other RPCs leave it to ObjectIDFromHex, with the same answer.
IdRefusal(proto, op, id) == IF id = NoId THEN RefuseCode(proto) ELSE FailCode(proto, op)

GetByID(r) ==
    /\ pc[r] = "idle"
    /\ \E proto \in Protocols, id \in Ids \cup {NoId, BadId} :
          \/ ~UsableId(id) /\ Refuse(r, IdRefusal(proto, "GetByID", id))
          \/ /\ UsableId(id)
             /\ Submit(r, MakeCall(proto, "GetByID", id, Absent))
             /\ UNCHANGED minted

\* Unlike Create, Update passes the body on unchecked.
Update(r) ==
    /\ pc[r] = "idle"
    /\ \E proto \in Protocols, id \in Ids \cup {NoId, BadId} :
          \/ id # NoId /\ proto = "http" /\ Refuse(r, RefuseCode(proto))   \* undecodable body
          \/ ~UsableId(id) /\ Refuse(r, IdRefusal(proto, "Update", id))
          \/ \E body \in Bodies(proto) :
                /\ UsableId(id)
                /\ Submit(r, MakeCall(proto, "Update", id, body))
                /\ UNCHANGED minted

Delete(r) ==
    /\ pc[r] = "idle"
    /\ \E proto \in Protocols, id \in Ids \cup {NoId, BadId} :
          \/ ~UsableId(id) /\ Refuse(r, IdRefusal(proto, "Delete", id))
          \/ /\ UsableId(id)
             /\ Submit(r, MakeCall(proto, "Delete", id, Absent))
             /\ UNCHANGED minted

---------------------------------------------------------------------------
(* MongoDB                                                                 *)

\* Mutant of UpdateOne: with the upsert option.
Upsert(old, doc) == doc

\* UpdateOne with $set of all three fields, no upsert: without a match, no
\* document and no error.
UpdateOne(old, doc) == IF old = Absent THEN Absent ELSE doc

\* MongoDB executes a command atomically on one document.  Its handler may
\* have given up on it, or its process may be dead.  Find only opens the
\* cursor.
Execute(r) ==
    /\ link[r] = "sent"
    /\ link' = [link EXCEPT ![r] = "executed"]
    /\ LET c == call[r] IN
       /\ collection' = CASE c.op = "Create" -> [collection EXCEPT ![c.id] = c.doc]
                           [] c.op = "Update" -> [collection EXCEPT ![c.id] = UpdateOne(@, c.doc)]
                           [] c.op = "Delete" -> [collection EXCEPT ![c.id] = Absent]
                           [] OTHER -> collection
       /\ listed' = IF c.op = "GetByID" /\ collection[c.id] # Absent
                     THEN [listed EXCEPT ![r] = {Document(c.id)}] ELSE listed
       /\ due' = IF c.op = "GetAll" THEN [due EXCEPT ![r] = Live] ELSE due
    /\ UNCHANGED <<minted, pc, call, reply>>

\* The command never reaches MongoDB, or MongoDB drops it with a step-down.
Lose(r) ==
    /\ link[r] = "sent"
    /\ link' = [link EXCEPT ![r] = "lost"]
    /\ UNCHANGED <<collection, minted, pc, call, listed, due, reply>>

---------------------------------------------------------------------------
(* Handlers: what happens once MongoDB or the driver has answered          *)

Answer(r, rep) ==
    /\ pc' = [pc EXCEPT ![r] = "done"]
    /\ reply' = [reply EXCEPT ![r] = rep]
    /\ UNCHANGED <<collection, minted, call, link, listed, due>>

\* What each handler writes when the service returns no error.  The update
\* echoes the request, over gRPC, whether or not a document matched.
Body(r) ==
    LET c == call[r] IN
    CASE c.op = "Create" -> {<<c.id, c.doc>>}
      [] c.op = "Update" -> IF c.proto = "grpc" THEN {<<c.id, c.doc>>} ELSE {}
      [] c.op = "Delete" -> {}
      [] OTHER -> listed[r]

\* Mutant of Return: the handler does not wait for the acknowledgement.
ReturnUnawaited(r) ==
    /\ pc[r] = "await"
    /\ call[r].op # "GetAll"
    /\ Answer(r, Success(call[r].proto, Body(r)))

\* The driver returns MongoDB's answer.  FindOne without a match is the error
\* ErrNoDocuments; UpdateOne and DeleteOne without a match are successes.
Return(r) ==
    /\ pc[r] = "await"
    /\ link[r] = "executed"
    /\ call[r].op # "GetAll"
    /\ LET c == call[r] IN
       IF c.op = "GetByID" /\ listed[r] = {}
       THEN Answer(r, Failure(FailCode(c.proto, c.op)))
       ELSE Answer(r, Success(c.proto, Body(r)))

\* Mutant of DriverError: the error is not looked at.
DriverErrorIgnored(r) ==
    /\ pc[r] = "await"
    /\ Answer(r, Success(call[r].proto, Body(r)))

\* Mutant of DriverError: the repository sends the command again after any error.
DriverErrorRetried(r) ==
    /\ pc[r] = "await"
    /\ link' = [link EXCEPT ![r] = "sent"]
    /\ UNCHANGED <<collection, minted, pc, call, listed, due, reply>>

\* The driver returns an error: the connection broke, no server could be
\* selected, or the request's context was cancelled because the client left.
\* What became of the command is not known.
DriverError(r) ==
    /\ pc[r] = "await"
    /\ Answer(r, Failure(FailCode(call[r].proto, call[r].op)))

\* FindAll enters its loop over the cursor.
OpenCursor(r) ==
    /\ pc[r] = "await"
    /\ link[r] = "executed"
    /\ call[r].op = "GetAll"
    /\ pc' = [pc EXCEPT ![r] = "scan"]
    /\ UNCHANGED <<collection, minted, call, link, listed, due, reply>>

Visited(r) == {item[1] : item \in listed[r]}

\* cursor.Next over one batch: MongoDB returns documents as they are now, none
\* twice, and the loop appends them.
NextBatch(r) ==
    /\ pc[r] = "scan"
    /\ \E batch \in SUBSET (Live \ Visited(r)) :
          /\ batch # {}
          /\ listed' = [listed EXCEPT ![r] = @ \cup {Document(id) : id \in batch}]
    /\ UNCHANGED <<collection, minted, pc, call, link, due, reply>>

\* Mutant of CursorEnd: the loop stops after any batch.
CursorEndEarly(r) ==
    /\ pc[r] = "scan"
    /\ Answer(r, Success(call[r].proto, Body(r)))

\* cursor.Next returns false at the end: every document that was there when
\* the cursor was opened has been visited or deleted.
CursorEnd(r) ==
    /\ pc[r] = "scan"
    /\ due[r] \cap Live \subseteq Visited(r)
    /\ Answer(r, Success(call[r].proto, Body(r)))

\* cursor.Next also returns false when fetching a batch fails or the context is
\* cancelled; FindAll does not look at cursor.Err() and returns what it has.
CursorCut(r) ==
    /\ pc[r] = "scan"
    /\ pc' = [pc EXCEPT ![r] = "done"]
    /\ link' = [link EXCEPT ![r] = "cut"]
    /\ reply' = [reply EXCEPT ![r] = Success(call[r].proto, Body(r))]
    /\ UNCHANGED <<collection, minted, call, listed, due>>

\* http-server or grpc-server dies with its requests: os.Exit on a signal
\* outside production, the end of main, a kill, a panic in an RPC.
Working(proto) == {r \in Requests : pc[r] \in {"await", "scan"} /\ call[r].proto = proto}
Die(proto) ==
    /\ Working(proto) # {}
    /\ pc' = [r \in Requests |-> IF r \in Working(proto) THEN "gone" ELSE pc[r]]
    /\ UNCHANGED <<collection, minted, call, link, listed, due, reply>>

---------------------------------------------------------------------------

Init ==
    /\ collection \in [Ids -> Seed \cup {Absent}]
    /\ minted = {id \in Ids : collection[id] # Absent}
    /\ pc = [r \in Requests |-> "idle"]
    /\ call = [r \in Requests |-> NoCall]
    /\ link = [r \in Requests |-> "none"]
    /\ listed = [r \in Requests |-> {}]
    /\ due = [r \in Requests |-> {}]
    /\ reply = [r \in Requests |-> NoReply]

Handle(r) == Return(r) \/ DriverError(r) \/ OpenCursor(r) \/ NextBatch(r) \/ CursorEnd(r) \/ CursorCut(r)

Next ==
    \/ \E r \in Requests :
          \/ Create(r) \/ GetAll(r) \/ GetByID(r) \/ Update(r) \/ Delete(r)
          \/ Execute(r) \/ Lose(r)
          \/ Handle(r)
    \/ \E proto \in Protocols : Die(proto)

Spec == Init /\ [][Next]_vars

\* Clients need not send anything, processes need not die, connections need not
\* break, and MongoDB may hold a command for ever: no operation on the collection
\* has a deadline.  A driver whose command is lost notices, and a handler whose
\* command MongoDB is done with goes on.
Progress(r) ==
    \/ Return(r) \/ OpenCursor(r) \/ NextBatch(r) \/ CursorEnd(r)
    \/ link[r] = "lost" /\ DriverError(r)

Fairness == \A r \in Requests : WF_vars(Progress(r))

FairSpec == Spec /\ Fairness

---------------------------------------------------------------------------
(* Properties                                                              *)

Items == Ids \X Product

\* Every variable stays in its type: what a read shows is always a product, never
\* the absence of one.
TypeOK ==
    /\ collection \in [Ids -> Products \cup {Absent}]
    /\ minted \subseteq Ids
    /\ pc \in [Requests -> {"idle", "await", "scan", "done", "gone"}]
    /\ call \in [Requests -> Calls \cup {NoCall}]
    /\ link \in [Requests -> {"none", "sent", "executed", "lost", "cut"}]
    /\ listed \in [Requests -> SUBSET (Ids \X Products)]
    /\ due \in [Requests -> SUBSET Ids]
    /\ reply \in [Requests -> [code : {"none", "200", "400", "404", "500", "OK", "Unknown"},
                                items : SUBSET Items, blank : BOOLEAN]]

Acked(r) == pc[r] = "done" /\ reply[r].code \in {"200", "OK"}
DeletedBy(r, id) == call[r].op = "Delete" /\ call[r].id = id /\ Executed(r)

\* A product whose creation was answered with success stays in the collection
\* until a Delete of its id has been executed: no late command, no other
\* request and no crash of either process makes it disappear.
AckedCreateDurable ==
    \A r \in Requests :
        call[r].op = "Create" /\ Acked(r) =>
            \/ collection[call[r].id] # Absent
            \/ \E d \in Requests : DeletedBy(d, call[r].id)

\* A write that was answered with success has been executed by MongoDB, hence
\* cannot change the collection any more.
SuccessIsFinal ==
    \A r \in Requests : IsWrite(call[r]) /\ Acked(r) => link[r] = "executed"

\* Validation guards creation only: an invalid product is in the collection
\* only because an executed Update put exactly that product there.
InvalidOnlyByUpdate ==
    \A id \in Live :
        \/ ValidProduct(collection[id])
        \/ \E u \in Requests : /\ call[u].op = "Update" /\ Executed(u)
                                 /\ call[u].id = id /\ call[u].doc = collection[id]

\* An RPC shows a negative stock only when some Update stored one, or when a
\* stock that does not fit in an int32 came in over HTTP and int32() wrapped it.
NegativeStockOrigin ==
    \A r \in Requests :
        call[r].proto = "grpc" /\ (\E i \in reply[r].items : i[2].stock < 0) =>
            \E w \in Requests :
                /\ IsWrite(call[w]) /\ Executed(w) /\ call[w].doc # Absent
                /\ \/ call[w].op = "Update" /\ call[w].doc.stock < 0
                   \/ call[w].proto = "http" /\ call[w].doc.stock >= Half

\* An HTTP request is answered 200 with an empty body only when an RPC has
\* stored a product whose price has no JSON text: Price <= 0 is false of NaN.
BlankBodyOrigin ==
    \A r \in Requests :
        reply[r].blank =>
            \E w \in Requests : /\ IsWrite(call[w]) /\ Executed(w) /\ call[w].proto = "grpc"
                                 /\ call[w].doc # Absent /\ ~Encodable(call[w].doc)

\* A listing whose cursor was read to its end has every document that was there
\* when the cursor was opened and has not been deleted meanwhile, and nothing
\* that was never a product.
CompleteListing ==
    \A r \in Requests :
        call[r].op = "GetAll" /\ Acked(r) /\ ~reply[r].blank =>
            LET shown == {i[1] : i \in reply[r].items} IN
            /\ shown \subseteq minted
            /\ \/ link[r] = "cut"
               \/ \A id \in due[r] \ shown : \E d \in Requests : DeletedBy(d, id)

\* An id that had a product and has none, with no creation of it on its way,
\* never has one again: a late Update does not bring a deleted product back,
\* and no new product gets an old id.
Gone(id) ==
    /\ id \in minted
    /\ collection[id] = Absent
    /\ \A r \in Requests : call[r].op = "Create" /\ call[r].id = id => link[r] # "sent"
NoResurrection == [][\A id \in Ids : Gone(id) => Gone(id)']_vars

\* A handler waits for MongoDB's answer to its own command and for nothing else:
\* once the command is executed or lost, or its cursor open, the request is
\* answered or its process dies, whatever becomes of the commands of others.
Answered ==
    \A r \in Requests :
        pc[r] = "scan" \/ (pc[r] = "await" /\ link[r] # "sent") ~> pc[r] \in {"done", "gone"}

---------------------------------------------------------------------------
(* The service implements ProductStore                                     *)

task == [r \in Requests |->
            IF IsWrite(call[r])
            THEN [op |-> call[r].op, id |-> call[r].id, doc |-> call[r].doc]
            ELSE NoCall]

phase == [r \in Requests |->
            IF ~IsWrite(call[r]) THEN "idle"
            ELSE IF pc[r] = "await"
                 THEN IF Executed(r) THEN "effected" ELSE "open"
            ELSE IF Acked(r) THEN "acked"
            ELSE IF Executed(r) THEN "failed" ELSE "doubtful"]

Store == INSTANCE ProductStore
            WITH store <- collection, used <- minted, Valid <- {p \in Products : ValidProduct(p)},
                 NoTask <- NoCall

\* What the two processes do to the collection, under any interleaving, loss of
\* a command, error and crash, is what ProductStore promises.
ImplementsStore == Store!Spec
===============================================================================
