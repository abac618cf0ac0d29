----------------------------- MODULE ProductStore -----------------------------
(***************************************************************************)
(* What the product service promises about the "product" collection,       *)
(* whatever the protocol a request came by and however requests interleave *)
(* or fail.  A write request takes effect atomically and at most once.     *)
(* Once it has been answered with success it has taken effect and will not *)
(* touch the store again; answered with an error, or never answered        *)
(* because its process died, it is in doubt: it may have taken effect, it  *)
(* may still do so, it may never.  Reads do not appear: they leave the     *)
(* store alone.                                                            *)
(***************************************************************************)
CONSTANTS
    Requests,   \* the write requests
    Ids,        \* primitive.ObjectID values
    Products,   \* what a document can hold
    Valid,      \* the products the service accepts for creation
    Absent,     \* "no document under this id"
    NoTask      \* the task of a request that has not started

VARIABLES
    store,      \* the document under each id, or Absent
    used,       \* the ids that have ever been given to a product
    task,       \* what each request was asked to do
    phase       \* how far each request has come

vars == <<store, used, task, phase>>

Tasks == [op : {"Create", "Update", "Delete"}, id : Ids, doc : Products \cup {Absent}]

Init ==
    /\ store \in [Ids -> Valid \cup {Absent}]
    /\ used = {id \in Ids : store[id] # Absent}
    /\ task = [r \in Requests |-> NoTask]
    /\ phase = [r \in Requests |-> "idle"]

\* A request enters the store's responsibility: a new product gets an id no
\* product ever had, and only a valid product is created.
Begin(r) ==
    /\ phase[r] = "idle"
    /\ phase' = [phase EXCEPT ![r] = "open"]
    /\ \E t \in Tasks :
          /\ task' = [task EXCEPT ![r] = t]
          /\ \/ /\ t.op = "Create"
                /\ t.doc \in Valid
                /\ t.id \notin used
                /\ used' = used \cup {t.id}
             \/ /\ t.op # "Create"
                /\ UNCHANGED used
    /\ UNCHANGED store

\* The one moment at which the request changes the store.  An update of a
\* missing product changes nothing.
TakeEffect(r) ==
    /\ \/ phase[r] = "open" /\ phase' = [phase EXCEPT ![r] = "effected"]
       \/ phase[r] = "doubtful" /\ phase' = [phase EXCEPT ![r] = "failed"]
    /\ LET t == task[r] IN
       store' = CASE t.op = "Create" -> [store EXCEPT ![t.id] = t.doc]
                  [] t.op = "Update" -> [store EXCEPT ![t.id] = IF @ = Absent THEN Absent ELSE t.doc]
                  [] t.op = "Delete" -> [store EXCEPT ![t.id] = Absent]
    /\ UNCHANGED <<used, task>>

\* Success is reported only after the effect.
Acknowledge(r) ==
    /\ phase[r] = "effected"
    /\ phase' = [phase EXCEPT ![r] = "acked"]
    /\ UNCHANGED <<store, used, task>>

\* Requests can fail at any moment before they are acknowledged: one alone
\* (an error answer) or several together (their process dies).
Fail(R) ==
    /\ \A r \in R : phase[r] \in {"open", "effected"}
    /\ phase' = [r \in Requests |->
                    IF r \notin R THEN phase[r]
                    ELSE IF phase[r] = "open" THEN "doubtful" ELSE "failed"]
    /\ UNCHANGED <<store, used, task>>

Next ==
    \/ \E r \in Requests :
          Begin(r) \/ TakeEffect(r) \/ Acknowledge(r)
    \/ \E R \in SUBSET Requests : Fail(R)

Spec == Init /\ [][Next]_vars
===============================================================================
