----------------------------- MODULE TracingProofs -----------------------------
(***************************************************************************)
(* Proofs about Tracing for any number of requests and any queues.         *)
(***************************************************************************)
EXTENDS Tracing, SequenceTheorems, TLAPS

Kinds == {"main", "do", "rpc", "middleware", "interceptor", "handler", "service", "health", "rpcHandler"}
Statuses == {"open", "ended", "unended", "panicked", "killed"}
Chains == Seq([kind : Kinds, process : Processes])

\* Handlers, and the functions that are given a context, run in the process of
\* their caller, and the clients' own spans begin a request.
Sound(c) ==
    \A i \in 1 .. Len(c) :
        /\ c[i].kind \in {"do", "handler", "service", "rpcHandler", "health"} => i > 1 /\ c[i - 1].process = c[i].process
        /\ c[i].kind = "health" => i > 2 /\ c[i - 2].process = c[i].process
        /\ c[i].kind \in {"main", "rpc"} => i = 1

---------------------------------------------------------------------------
(* The invariant                                                           *)

Spanned == [kind : Kinds, process : Processes, status : Statuses, answer : {<<>>} \cup {<<n>> : n \in Nat},
            parent : Nat, trace : Nat]

TypeOK ==
    /\ on \subseteq Processes
    /\ path \in [Requests -> Paths]
    /\ stranger \subseteq {r \in Requests : path[r] # "GetAll"}
    /\ frames \in [Requests -> Seq(Spanned)]
    /\ queue \in [Processes -> SUBSET (Requests \X Nat)]

\* The frames of a request are those of its chain, as far as it has got.
ChainInv ==
    \A r \in Requests :
        /\ Len(frames[r]) <= Len(Todo(r))
        /\ \A i \in 1 .. Len(frames[r]) :
              frames[r][i].kind = Todo(r)[i].kind /\ frames[r][i].process = Todo(r)[i].process

\* Whether a span has a trace depends on its process; its parent is a span
\* that has one, and the frame above where both have telemetry.
ParentInv ==
    \A r \in Requests : \A i \in 1 .. Len(frames[r]) :
        /\ Live(r, i) <=> frames[r][i].trace # 0
        /\ frames[r][i].parent # 0 => frames[r][i].parent < i /\ frames[r][frames[r][i].parent].trace # 0
        /\ i > 1 /\ Live(r, i - 1) /\ Live(r, i) =>
              /\ frames[r][i].trace = frames[r][i - 1].trace
              /\ frames[r][i].parent = IF frames[r][i].kind = "health" THEN i - 2 ELSE i - 1

\* A span that has ended is exported, queued or lost, and only Do's never ends;
\* who has an answer has called.
EndedInv ==
    \A r \in Requests : \A i \in 1 .. Len(frames[r]) :
        /\ frames[r][i].answer # <<>> => i < Len(frames[r])
        /\ frames[r][i].status = "unended" => frames[r][i].kind = "do"
        /\ frames[r][i].status = "ended" /\ frames[r][i].trace # 0 =>
              <<r, i>> \in exported \cup lost \cup queue[frames[r][i].process]

\* What has left a process is a span of a frame.
KnownInv ==
    \A s \in exported \cup lost \cup UNION {queue[p] : p \in Processes} :
        s \in Requests \X Nat /\ s[2] \in 1 .. Len(frames[s[1]])

Inv ==
    /\ TypeOK /\ ChainInv /\ ParentInv /\ EndedInv /\ KnownInv
    /\ OneTrace /\ TraceIdAnswered

---------------------------------------------------------------------------
(* The chains                                                              *)

LEMMA ChainsAreSound ==
    ASSUME NEW p \in Paths
    PROVE  Chain(p) \in Chains /\ Sound(Chain(p))
<1>1. CASE p = "/products"
  BY <1>1 DEF Chain, Frame, Chains, Sound, Kinds, Processes
<1>2. CASE p = "/external"
  BY <1>2 DEF Chain, Frame, Chains, Sound, Kinds, Processes
<1>3. CASE p = "/health"
  BY <1>3 DEF Chain, Frame, Chains, Sound, Kinds, Processes
<1>4. CASE p = "/unknown"
  BY <1>4 DEF Chain, Frame, Chains, Sound, Kinds, Processes
<1>5. CASE p = "GetAll"
  BY <1>5 DEF Chain, Frame, Chains, Sound, Kinds, Processes
<1>. QED  BY <1>1, <1>2, <1>3, <1>4, <1>5 DEF Paths

\* How every HTTP request begins.
LEMMA ChainsBegin ==
    ASSUME NEW p \in Paths \ {"GetAll"}
    PROVE  LET c == Chain(p) IN
           /\ Len(c) \in Nat /\ Len(c) >= 3
           /\ c[3].kind = "middleware"
           /\ 4 <= Len(c) => c[4].kind = "handler"
<1>1. CASE p = "/products"
  BY <1>1 DEF Chain, Frame
<1>2. CASE p = "/external"
  BY <1>2 DEF Chain, Frame
<1>3. CASE p = "/health"
  BY <1>3 DEF Chain, Frame
<1>4. CASE p = "/unknown"
  BY <1>4 DEF Chain, Frame
<1>. QED  BY <1>1, <1>2, <1>3, <1>4 DEF Paths

LEMMA TodoIsSound ==
    ASSUME TypeOK, NEW r \in Requests
    PROVE  Todo(r) \in Chains /\ Sound(Todo(r))
<1>. DEFINE c == Chain(path[r])
            t == SubSeq(c, 3, Len(c))
<1>1. path[r] \in Paths /\ (r \in stranger => path[r] # "GetAll")
  BY DEF TypeOK
<1>2. c \in Chains /\ Sound(c)
  BY <1>1, ChainsAreSound
<1>3. CASE r \notin stranger
  BY <1>2, <1>3 DEF Todo
<1>4. CASE r \in stranger
  <2>1. /\ Len(c) \in Nat /\ Len(c) >= 3 /\ c[3].kind = "middleware"
        /\ 4 <= Len(c) => c[4].kind = "handler"
    BY <1>1, <1>4, ChainsBegin
  <2>. DEFINE S == [kind : Kinds, process : Processes]
  <2>0. c \in Seq(S)
    BY <1>2 DEF Chains
  <2>. HIDE DEF c, S
  <2>2. \A i \in 1 .. Len(c) : c[i] \in S
    BY <2>0
  <2>3. 3 \in Int /\ Len(c) \in Int /\ \A i \in 3 .. Len(c) : c[i] \in S
    BY <2>1, <2>2
  <2>4. t \in Seq(S)
    BY <2>3, SubSeqProperties
  <2>5. Len(t) = IF 3 <= Len(c) THEN Len(c) - 3 + 1 ELSE 0
    BY <2>3, SubSeqProperties
  <2>6. \A i \in 1 .. Len(c) - 3 + 1 : t[i] = c[3 + i - 1]
    BY <2>3, SubSeqProperties
  <2>7. Todo(r) = t
    BY <1>4 DEF Todo, c
  <2>. HIDE DEF t
  <2>8. 3 <= Len(c)
    BY <2>1
  <2>9. Len(t) = Len(c) - 3 + 1
    BY <2>5, <2>8, Zenon
  <2>10. \A i \in 1 .. Len(t) : i + 2 \in 1 .. Len(c) /\ t[i] = c[i + 2] /\ (i + 2) - 1 = i + 1 /\ (i + 2) - 2 = i
    <3>. TAKE i \in 1 .. Len(t)
    <3>1. i \in 1 .. Len(c) - 3 + 1 /\ 3 + i - 1 = i + 2 /\ i + 2 \in 1 .. Len(c)
      BY <2>1, <2>9
    <3>. QED  BY <2>1, <2>6, <3>1
  <2>11. Sound(t)
    <3>. SUFFICES ASSUME NEW i \in 1 .. Len(t)
                  PROVE  /\ t[i].kind \in {"do", "handler", "service", "rpcHandler", "health"} =>
                               i > 1 /\ t[i - 1].process = t[i].process
                         /\ t[i].kind = "health" => i > 2 /\ t[i - 2].process = t[i].process
                         /\ t[i].kind \in {"main", "rpc"} => i = 1
      BY DEF Sound
    <3>1. t[i] = c[i + 2] /\ i + 2 \in 1 .. Len(c)
      BY <2>10
    <3>2. CASE i = 1
      BY <2>1, <3>1, <3>2
    <3>3. CASE i = 2
      <4>1. i - 1 \in 1 .. Len(t) /\ t[i - 1] = c[3] /\ t[i] = c[4] /\ c[4].kind = "handler"
        BY <2>1, <2>9, <2>10, <3>1, <3>3
      <4>2. c[4 - 1].process = c[4].process /\ 4 - 1 = 3
        BY <1>2, <3>1, <3>3, <4>1 DEF Sound
      <4>. QED  BY <3>3, <4>1, <4>2
    <3>4. CASE i > 2
      <4>1. i - 1 \in 1 .. Len(t) /\ i - 2 \in 1 .. Len(t)
        BY <2>1, <2>9, <3>4
      <4>2. t[i - 1] = c[(i - 1) + 2] /\ t[i - 2] = c[(i - 2) + 2]
        BY <2>10, <4>1
      <4>3. (i - 1) + 2 = (i + 2) - 1 /\ (i - 2) + 2 = (i + 2) - 2
        OBVIOUS
      <4>4. t[i - 1] = c[(i + 2) - 1] /\ t[i - 2] = c[(i + 2) - 2]
        BY <4>2, <4>3
      <4>5. /\ c[i + 2].kind \in {"do", "handler", "service", "rpcHandler", "health"} =>
                  c[(i + 2) - 1].process = c[i + 2].process
            /\ c[i + 2].kind = "health" => c[(i + 2) - 2].process = c[i + 2].process
            /\ c[i + 2].kind \in {"main", "rpc"} => i + 2 = 1
        BY <1>2, <3>1 DEF Sound
      <4>. QED  BY <3>1, <3>4, <4>4, <4>5
    <3>. QED  BY <2>1, <2>9, <3>2, <3>3, <3>4
  <2>. QED  BY <2>4, <2>7, <2>11 DEF Chains, S
<1>. QED  BY <1>3, <1>4

---------------------------------------------------------------------------
(* A frame begins                                                          *)

\* The span context a frame starts with is none, or that of a frame above; if
\* the frame above and its own process have telemetry, it is that frame's, or
\* for the health service that of the one above it, which is the same trace.
ComesFrom(r, i, f, parent) ==
    /\ parent \in {None} \cup {Own(r, k) : k \in 1 .. Len(frames[r])}
    /\ i > 1 /\ Live(r, i - 1) /\ f.process \in on =>
         \E k \in 1 .. Len(frames[r]) :
             /\ parent = Own(r, k)
             /\ Live(r, k) /\ frames[r][k].trace = frames[r][i - 1].trace
             /\ k = IF f.kind = "health" THEN i - 2 ELSE i - 1

LEMMA ParentIs ==
    ASSUME Inv, NEW r \in Requests, NEW i, i = Len(frames[r]) + 1, i <= Len(Todo(r))
    PROVE  ComesFrom(r, i, Todo(r)[i], Parent(r, i, Todo(r)[i]))
<1>. DEFINE f == Todo(r)[i]
<1>. SUFFICES ComesFrom(r, i, f, Parent(r, i, f))
  OBVIOUS
<1>. USE DEF ComesFrom
<1>1. Len(frames[r]) \in Nat /\ i \in 1 .. Len(Todo(r))
  BY DEF Inv, TypeOK
<1>2. /\ f.kind \in {"do", "handler", "service", "rpcHandler", "health"} => i > 1 /\ Todo(r)[i - 1].process = f.process
      /\ f.kind = "health" => i > 2 /\ Todo(r)[i - 2].process = f.process
      /\ f.kind \in {"main", "rpc"} => i = 1
      /\ f.kind \in Kinds
  <2>1. Sound(Todo(r)) /\ Todo(r) \in Chains
    BY TodoIsSound DEF Inv
  <2>2. f \in [kind : Kinds, process : Processes]
    BY <1>1, <2>1, ElementOfSeq DEF Chains
  <2>. QED  BY <1>1, <2>1, <2>2 DEF Sound
<1>. HIDE DEF f
<1>3. i > 1 => i - 1 \in 1 .. Len(frames[r])
  BY <1>1
<1>4. i > 2 => i - 2 \in 1 .. Len(frames[r]) /\ i - 1 > 1 /\ (i - 1) - 1 = i - 2
  BY <1>1
<1>5. i > 1 => Incoming(r, i) = Own(r, i - 1)
  BY <1>1 DEF Incoming
<1>6. i = 1 => Incoming(r, i) = None
  BY DEF Incoming
<1>7. CASE f.kind \in {"middleware", "interceptor", "handler"}
  <2>1. Parent(r, i, f) = IF f.process \in on THEN Incoming(r, i) ELSE None
    BY <1>7 DEF Parent, Extract
  <2>2. i = 1 \/ i > 1
    BY <1>1
  <2>. QED  BY <1>1, <1>3, <1>5, <1>6, <1>7, <2>1, <2>2
<1>8. CASE f.kind \in {"do", "service", "rpcHandler"}
  <2>1. Parent(r, i, f) = Own(r, i - 1)
    BY <1>8 DEF Parent
  <2>. QED  BY <1>2, <1>3, <1>8, <2>1
<1>9. CASE f.kind = "health"
  <2>1. Parent(r, i, f) = Own(r, i - 2)
    BY <1>9 DEF Parent
  <2>2. i - 1 \in 1 .. Len(frames[r]) /\ i - 2 \in 1 .. Len(frames[r]) /\ i - 1 > 1 /\ (i - 1) - 1 = i - 2
    BY <1>1, <1>2, <1>4, <1>9
  <2>3. frames[r][i - 2].process = frames[r][i - 1].process
    BY <1>2, <1>9, <2>2 DEF Inv, ChainInv, f
  <2>4. Live(r, i - 1) => Live(r, i - 2)
    BY <2>3 DEF Live
  <2>5. Live(r, i - 1) => frames[r][i - 1].trace = frames[r][i - 2].trace
    BY <2>2, <2>4 DEF Inv, ParentInv
  <2>. QED  BY <1>9, <2>1, <2>2, <2>4, <2>5
<1>10. CASE f.kind \in {"main", "rpc"}
  <2>1. Parent(r, i, f) = None
    BY <1>10 DEF Parent
  <2>. QED  BY <1>2, <1>10, <2>1
<1>. QED  BY <1>2, <1>7, <1>8, <1>9, <1>10 DEF Kinds

LEMMA FrameIsSpanned ==
    ASSUME TypeOK, NEW q \in Requests, NEW j \in 1 .. Len(frames[q])
    PROVE  frames[q][j] \in Spanned
<1>1. frames[q] \in Seq(Spanned)
  BY DEF TypeOK
<1>. QED  BY <1>1

LEMMA OwnIs ==
    ASSUME TypeOK, NEW r \in Requests, NEW k \in 1 .. Len(frames[r])
    PROVE  /\ Own(r, k).trace = frames[r][k].trace /\ frames[r][k].trace \in Nat
           /\ frames[r][k].trace = 0 => Own(r, k) = None
           /\ frames[r][k].trace # 0 => Own(r, k).span = k /\ Own(r, k) # None
<1>1. frames[r][k].trace \in Nat
  BY FrameIsSpanned DEF Spanned
<1>2. Own(r, k).trace = frames[r][k].trace
  BY DEF Own
<1>3. frames[r][k].trace = 0 => Own(r, k) = None
  BY DEF Own, None
<1>4. frames[r][k].trace # 0 => Own(r, k).span = k /\ Own(r, k) # None
  BY DEF Own, None
<1>. QED  BY <1>1, <1>2, <1>3, <1>4

\* The span a frame starts.
Began(r) ==
    LET i == Len(frames[r]) + 1
        f == Todo(r)[i]
        parent == Parent(r, i, f)
    IN [kind |-> f.kind, process |-> f.process, status |-> "open", answer |-> <<>>, parent |-> parent.span,
        trace |-> IF f.process \notin on THEN 0 ELSE IF parent = None THEN i ELSE parent.trace]

LEMMA BeganIs ==
    ASSUME Inv, NEW r \in Requests, NEW i, i = Len(frames[r]) + 1, i <= Len(Todo(r))
    PROVE  /\ Began(r) \in Spanned
           /\ Began(r).status = "open" /\ Began(r).answer = <<>>
           /\ Began(r).kind = Todo(r)[i].kind /\ Began(r).process = Todo(r)[i].process
           /\ Began(r).process \in on <=> Began(r).trace # 0
           /\ Began(r).parent # 0 =>
                 Began(r).parent \in 1 .. Len(frames[r]) /\ frames[r][Began(r).parent].trace # 0
           /\ i > 1 /\ Live(r, i - 1) /\ Began(r).process \in on =>
                 /\ Began(r).trace = frames[r][i - 1].trace
                 /\ Began(r).parent = IF Began(r).kind = "health" THEN i - 2 ELSE i - 1
<1>. DEFINE f == Todo(r)[i]
            parent == Parent(r, i, f)
            trace == IF f.process \notin on THEN 0 ELSE IF parent = None THEN i ELSE parent.trace
<1>1. TypeOK /\ i \in Nat \ {0} /\ i \in 1 .. Len(Todo(r)) /\ Len(frames[r]) \in Nat
  BY DEF Inv, TypeOK
<1>2. f \in [kind : Kinds, process : Processes]
  BY <1>1, TodoIsSound, ElementOfSeq DEF Chains
<1>3. Began(r) = [kind |-> f.kind, process |-> f.process, status |-> "open", answer |-> <<>>,
                  parent |-> parent.span, trace |-> trace]
  BY DEF Began
<1>4. /\ parent \in {None} \cup {Own(r, k) : k \in 1 .. Len(frames[r])}
      /\ i > 1 /\ Live(r, i - 1) /\ f.process \in on =>
           \E k \in 1 .. Len(frames[r]) :
               /\ parent = Own(r, k)
               /\ Live(r, k) /\ frames[r][k].trace = frames[r][i - 1].trace
               /\ k = IF f.kind = "health" THEN i - 2 ELSE i - 1
  <2>1. ComesFrom(r, i, f, parent)
    BY ParentIs
  <2>. QED  BY <2>1 DEF ComesFrom
<1>5. None.trace = 0 /\ None.span = 0
  BY DEF None
<1>. HIDE DEF f, parent
<1>6. /\ parent.trace \in Nat /\ parent.span \in Nat
      /\ parent # None => parent.trace # 0
      /\ parent.span # 0 => parent.span \in 1 .. Len(frames[r]) /\ frames[r][parent.span].trace # 0
  <2>1. CASE parent = None
    BY <1>5, <2>1
  <2>2. CASE parent # None
    <3>1. PICK k \in 1 .. Len(frames[r]) : parent = Own(r, k)
      BY <1>4, <2>2
    <3>2. /\ parent.trace = frames[r][k].trace /\ frames[r][k].trace \in Nat
          /\ frames[r][k].trace # 0 /\ parent.span = k
      BY <1>1, <2>2, <3>1, OwnIs
    <3>. QED  BY <3>2
  <2>. QED  BY <2>1, <2>2
<1>7. trace \in Nat /\ (f.process \in on <=> trace # 0)
  BY <1>1, <1>6
<1>8. i > 1 /\ Live(r, i - 1) /\ f.process \in on =>
         trace = frames[r][i - 1].trace /\ parent.span = IF f.kind = "health" THEN i - 2 ELSE i - 1
  <2>. SUFFICES ASSUME i > 1, Live(r, i - 1), f.process \in on
                PROVE  trace = frames[r][i - 1].trace /\ parent.span = IF f.kind = "health" THEN i - 2 ELSE i - 1
    OBVIOUS
  <2>1. PICK k \in 1 .. Len(frames[r]) :
               /\ parent = Own(r, k)
               /\ Live(r, k) /\ frames[r][k].trace = frames[r][i - 1].trace
               /\ k = IF f.kind = "health" THEN i - 2 ELSE i - 1
    BY <1>4
  <2>2. frames[r][k].trace # 0
    BY <2>1 DEF Inv, ParentInv
  <2>3. parent.span = k /\ parent # None /\ parent.trace = frames[r][k].trace
    BY <1>1, <2>1, <2>2, OwnIs
  <2>4. trace = parent.trace
    BY <2>3
  <2>. QED  BY <2>1, <2>3, <2>4
<1>. HIDE DEF trace
<1>9. Began(r) \in Spanned
  BY <1>2, <1>3, <1>6, <1>7 DEF Spanned, Statuses
<1>10. /\ Began(r).status = "open" /\ Began(r).answer = <<>>
       /\ Began(r).kind = f.kind /\ Began(r).process = f.process
       /\ Began(r).trace = trace /\ Began(r).parent = parent.span
  BY <1>3
<1>. QED  BY <1>6, <1>7, <1>8, <1>9, <1>10 DEF f

\* What Start leaves of a request's frames, and what it adds.
LEMMA StartStep ==
    ASSUME Inv, NEW r \in Requests, Start(r)
    PROVE  Inv'
<1>. DEFINE i == Len(frames[r]) + 1
            b == Began(r)
<1>1. /\ i <= Len(Todo(r))
      /\ frames' = [frames EXCEPT ![r] = Append(@, b)]
      /\ on' = on /\ path' = path /\ stranger' = stranger
      /\ queue' = queue /\ exported' = exported /\ lost' = lost
  BY DEF Start, Began
<1>2. /\ b \in Spanned /\ b.status = "open" /\ b.answer = <<>>
      /\ b.kind = Todo(r)[i].kind /\ b.process = Todo(r)[i].process
      /\ b.process \in on <=> b.trace # 0
      /\ b.parent # 0 => b.parent \in 1 .. Len(frames[r]) /\ frames[r][b.parent].trace # 0
      /\ i > 1 /\ Live(r, i - 1) /\ b.process \in on =>
            /\ b.trace = frames[r][i - 1].trace
            /\ b.parent = IF b.kind = "health" THEN i - 2 ELSE i - 1
  BY <1>1, BeganIs
<1>. HIDE DEF b
<1>3. frames[r] \in Seq(Spanned) /\ Len(frames[r]) \in Nat
  BY DEF Inv, TypeOK
<1>4. /\ Append(frames[r], b) \in Seq(Spanned)
      /\ Len(Append(frames[r], b)) = Len(frames[r]) + 1
      /\ \A j \in 1 .. Len(frames[r]) : Append(frames[r], b)[j] = frames[r][j]
      /\ Append(frames[r], b)[Len(frames[r]) + 1] = b
  BY <1>2, <1>3, AppendProperties
<1>5. /\ \A q \in Requests : q # r => frames'[q] = frames[q]
      /\ frames'[r] = Append(frames[r], b)
  BY <1>1 DEF Inv, TypeOK
<1>6. frames' \in [Requests -> Seq(Spanned)]
  BY <1>1, <1>4, <1>5 DEF Inv, TypeOK
<1>7. /\ Len(frames'[r]) = i /\ i \in Nat /\ i >= 1
      /\ \A j \in 1 .. Len(frames[r]) : frames'[r][j] = frames[r][j]
      /\ frames'[r][i] = b
      /\ \A j \in 1 .. i : j \in 1 .. Len(frames[r]) \/ j = i
      /\ 1 .. Len(frames[r]) \subseteq 1 .. i
  BY <1>3, <1>4, <1>5
<1>8. TypeOK'
  BY <1>1, <1>6 DEF Inv, TypeOK
<1>9. \A q \in Requests : Todo(q)' = Todo(q)
  BY <1>1 DEF Todo
<1>10. ChainInv'
  BY <1>1, <1>2, <1>5, <1>7, <1>9 DEF Inv, ChainInv
<1>11. ParentInv'
  <2>. SUFFICES ASSUME NEW q \in Requests, NEW j \in 1 .. Len(frames'[q])
                PROVE  /\ frames'[q][j].process \in on <=> frames'[q][j].trace # 0
                       /\ frames'[q][j].parent # 0 =>
                             frames'[q][j].parent < j /\ frames'[q][frames'[q][j].parent].trace # 0
                       /\ j > 1 /\ frames'[q][j - 1].process \in on /\ frames'[q][j].process \in on =>
                             /\ frames'[q][j].trace = frames'[q][j - 1].trace
                             /\ frames'[q][j].parent = IF frames'[q][j].kind = "health" THEN j - 2 ELSE j - 1
    BY <1>1 DEF ParentInv, Live
  <2>1. CASE q = r /\ j = i
    <3>1. j > 1 => j - 1 \in 1 .. Len(frames[r])
      BY <1>3, <2>1
    <3>2. frames'[q][j] = b /\ (j > 1 => frames'[q][j - 1] = frames[r][j - 1])
      BY <1>7, <2>1, <3>1
    <3>3. b.parent # 0 => b.parent < j /\ frames'[q][b.parent] = frames[r][b.parent]
      BY <1>2, <1>3, <1>7, <2>1
    <3>4. frames'[q][j].process \in on <=> frames'[q][j].trace # 0
      BY <1>2, <3>2
    <3>5. frames'[q][j].parent # 0 =>
             frames'[q][j].parent < j /\ frames'[q][frames'[q][j].parent].trace # 0
      BY <1>2, <2>1, <3>2, <3>3
    <3>6. j > 1 /\ frames'[q][j - 1].process \in on /\ frames'[q][j].process \in on =>
             /\ frames'[q][j].trace = frames'[q][j - 1].trace
             /\ frames'[q][j].parent = IF frames'[q][j].kind = "health" THEN j - 2 ELSE j - 1
      <4>. SUFFICES ASSUME j > 1, frames'[q][j - 1].process \in on, frames'[q][j].process \in on
                    PROVE  /\ frames'[q][j].trace = frames'[q][j - 1].trace
                           /\ frames'[q][j].parent = IF frames'[q][j].kind = "health" THEN j - 2 ELSE j - 1
        BY Zenon
      <4>1. i > 1 /\ Live(r, i - 1) /\ b.process \in on
        BY <2>1, <3>2 DEF Live
      <4>2. b.trace = frames[r][i - 1].trace /\ b.parent = IF b.kind = "health" THEN i - 2 ELSE i - 1
        BY <1>2, <4>1
      <4>. QED  BY <2>1, <3>2, <4>2
    <3>. QED  BY <3>4, <3>5, <3>6, Zenon
  <2>2. CASE ~(q = r /\ j = i)
    <3>1. j \in 1 .. Len(frames[q]) /\ Len(frames[q]) \in Nat
      BY <1>5, <1>7, <2>2 DEF Inv, TypeOK
    <3>2. j > 1 => j - 1 \in 1 .. Len(frames[q])
      BY <3>1
    <3>3. \A k \in 1 .. Len(frames[q]) : frames'[q][k] = frames[q][k]
      BY <1>5, <1>7
    <3>4. frames[q][j].parent \in Nat
      BY <3>1, FrameIsSpanned DEF Inv, Spanned
    <3>5. frames[q][j].parent # 0 /\ frames[q][j].parent < j => frames[q][j].parent \in 1 .. Len(frames[q])
      BY <3>1, <3>4
    <3>6. /\ frames[q][j].process \in on <=> frames[q][j].trace # 0
          /\ frames[q][j].parent # 0 => frames[q][j].parent < j /\ frames[q][frames[q][j].parent].trace # 0
          /\ j > 1 /\ frames[q][j - 1].process \in on /\ frames[q][j].process \in on =>
                /\ frames[q][j].trace = frames[q][j - 1].trace
                /\ frames[q][j].parent = IF frames[q][j].kind = "health" THEN j - 2 ELSE j - 1
      BY <3>1 DEF Inv, ParentInv, Live
    <3>7. frames'[q][j] = frames[q][j] /\ (j > 1 => frames'[q][j - 1] = frames[q][j - 1])
      BY <3>1, <3>2, <3>3
    <3>8. frames[q][j].parent # 0 => frames'[q][frames[q][j].parent] = frames[q][frames[q][j].parent]
      BY <3>3, <3>5, <3>6
    <3>. QED  BY <3>6, <3>7, <3>8, Zenon
  <2>. QED  BY <2>1, <2>2
<1>12. EndedInv'
  <2>. SUFFICES ASSUME NEW q \in Requests, NEW j \in 1 .. Len(frames'[q])
                PROVE  /\ frames'[q][j].answer # <<>> => j < Len(frames'[q])
                       /\ frames'[q][j].status = "unended" => frames'[q][j].kind = "do"
                       /\ frames'[q][j].status = "ended" /\ frames'[q][j].trace # 0 =>
                             <<q, j>> \in exported \cup lost \cup queue[frames'[q][j].process]
    BY <1>1 DEF EndedInv
  <2>1. CASE q = r /\ j = i
    BY <1>2, <1>7, <2>1
  <2>2. CASE ~(q = r /\ j = i)
    <3>1. j \in 1 .. Len(frames[q]) /\ frames'[q][j] = frames[q][j]
      BY <1>5, <1>7, <2>2
    <3>2. j < Len(frames[q]) => j < Len(frames'[q])
      BY <1>3, <1>5, <1>7, <3>1
    <3>. QED  BY <3>1, <3>2 DEF Inv, EndedInv
  <2>. QED  BY <2>1, <2>2
<1>14. KnownInv'
  <2>. SUFFICES ASSUME NEW s \in exported \cup lost \cup UNION {queue[p] : p \in Processes}
                PROVE  s \in Requests \X Nat /\ s[2] \in 1 .. Len(frames'[s[1]])
    BY <1>1 DEF KnownInv
  <2>1. s \in Requests \X Nat /\ s[2] \in 1 .. Len(frames[s[1]])
    BY DEF Inv, KnownInv
  <2>2. s[1] \in Requests
    BY <2>1
  <2>. QED  BY <1>5, <1>7, <2>1, <2>2
<1>15. OneTrace'
  <2>. SUFFICES ASSUME NEW q \in Requests, NEW h \in DOMAIN frames'[q], NEW j \in DOMAIN frames'[q],
                       h <= j, \A k \in h .. j : frames'[q][k].process \in on
                PROVE  /\ frames'[q][h].trace = frames'[q][j].trace
                       /\ h = j - 1 => frames'[q][j].parent = IF frames'[q][j].kind = "health" THEN h - 1 ELSE h
    BY <1>1 DEF OneTrace, Live
  <2>0. h \in 1 .. Len(frames'[q]) /\ j \in 1 .. Len(frames'[q])
    BY <1>8 DEF TypeOK
  <2>1. CASE q = r /\ j = i /\ h = j
    <3>1. h # j - 1
      BY <1>3, <2>1
    <3>. QED  BY <2>1, <3>1
  <2>2. CASE q = r /\ j = i /\ h # j
    <3>1. h \in 1 .. Len(frames[r]) /\ j - 1 \in 1 .. Len(frames[r]) /\ h <= j - 1 /\ i > 1
      BY <1>3, <1>7, <2>0, <2>2
    <3>2. \A k \in h .. j - 1 : k \in h .. j /\ k \in 1 .. Len(frames[r])
      BY <1>3, <2>2, <3>1
    <3>3. \A k \in h .. j - 1 : Live(r, k)
      BY <1>7, <2>2, <3>2 DEF Live
    <3>4. h \in DOMAIN frames[r] /\ j - 1 \in DOMAIN frames[r]
      BY <1>3, <3>1
    <3>5. frames[r][h].trace = frames[r][j - 1].trace
      BY <3>1, <3>3, <3>4 DEF Inv, OneTrace
    <3>6. Live(r, i - 1) /\ b.process \in on
      BY <1>3, <1>7, <2>0, <2>2, <3>1, <3>3
    <3>7. b.trace = frames[r][i - 1].trace /\ b.parent = IF b.kind = "health" THEN i - 2 ELSE i - 1
      BY <1>2, <3>1, <3>6
    <3>8. frames'[q][h] = frames[r][h] /\ frames'[q][j] = b
      BY <1>7, <2>2, <3>1
    <3>9. h = j - 1 => h - 1 = i - 2
      BY <1>3, <2>2
    <3>. QED  BY <2>2, <3>5, <3>7, <3>8, <3>9
  <2>3. CASE ~(q = r /\ j = i)
    <3>1. j \in 1 .. Len(frames[q]) /\ h \in 1 .. Len(frames[q]) /\ Len(frames[q]) \in Nat
      BY <1>3, <1>5, <1>7, <2>0, <2>3 DEF Inv, TypeOK
    <3>2. \A k \in 1 .. Len(frames[q]) : frames'[q][k] = frames[q][k]
      BY <1>5, <1>7
    <3>3. \A k \in h .. j : k \in 1 .. Len(frames[q])
      BY <3>1
    <3>4. \A k \in h .. j : Live(q, k)
      BY <3>2, <3>3 DEF Live
    <3>5. h \in DOMAIN frames[q] /\ j \in DOMAIN frames[q]
      BY <3>1 DEF Inv, TypeOK
    <3>6. /\ frames[q][h].trace = frames[q][j].trace
          /\ h = j - 1 => frames[q][j].parent = IF frames[q][j].kind = "health" THEN h - 1 ELSE h
      BY <3>4, <3>5 DEF Inv, OneTrace
    <3>7. frames'[q][h] = frames[q][h] /\ frames'[q][j] = frames[q][j]
      BY <3>1, <3>2
    <3>. QED  BY <3>6, <3>7
  <2>. QED  BY <2>1, <2>2, <2>3
<1>16. TraceIdAnswered'
  <2>. SUFFICES ASSUME NEW q \in Requests, NEW j \in DOMAIN frames'[q], frames'[q][j].answer # <<>>
                PROVE  /\ frames'[q][j].answer = <<frames'[q][j + 1].trace>>
                       /\ frames'[q][j + 1].process \in on <=> frames'[q][j].answer # <<0>>
                       /\ frames'[q][j].process \in on /\ frames'[q][j + 1].process \in on =>
                             frames'[q][j].answer = <<frames'[q][j].trace>>
    BY <1>1 DEF TraceIdAnswered, Live
  <2>1. j \in 1 .. Len(frames'[q])
    BY <1>8 DEF TypeOK
  <2>2. ~(q = r /\ j = i)
    BY <1>2, <1>7
  <2>3. j \in 1 .. Len(frames[q]) /\ j \in DOMAIN frames[q] /\ frames'[q][j] = frames[q][j]
    BY <1>5, <1>7, <2>1, <2>2 DEF Inv, TypeOK
  <2>4. j + 1 \in 1 .. Len(frames[q])
    <3>1. frames[q][j].answer # <<>>
      BY <2>3
    <3>2. j < Len(frames[q])
      BY <2>3, <3>1 DEF Inv, EndedInv
    <3>3. Len(frames[q]) \in Nat
      BY DEF Inv, TypeOK
    <3>. QED  BY <2>3, <3>2, <3>3
  <2>5. frames'[q][j + 1] = frames[q][j + 1]
    BY <1>5, <1>7, <2>4
  <2>. QED  BY <2>3, <2>5 DEF Inv, TraceIdAnswered, Live
<1>. QED  BY <1>8, <1>10, <1>11, <1>12, <1>14, <1>15, <1>16 DEF Inv

---------------------------------------------------------------------------
(* A frame ends                                                            *)

\* Nothing but statuses and answers of the frames changes.
Retold ==
    /\ on' = on /\ path' = path /\ stranger' = stranger
    /\ frames' \in [Requests -> Seq(Spanned)]
    /\ \A q \in Requests :
          /\ Len(frames'[q]) = Len(frames[q])
          /\ \A j \in 1 .. Len(frames[q]) :
                /\ frames'[q][j].kind = frames[q][j].kind /\ frames'[q][j].process = frames[q][j].process
                /\ frames'[q][j].parent = frames[q][j].parent /\ frames'[q][j].trace = frames[q][j].trace

LEMMA RetoldKeeps ==
    ASSUME Inv, Retold
    PROVE  ChainInv' /\ ParentInv' /\ OneTrace'
<1>. USE DEF Retold
<1>1. ChainInv'
  <2>1. \A q \in Requests : Todo(q)' = Todo(q)
    BY DEF Todo
  <2>. QED  BY <2>1 DEF Inv, ChainInv
<1>2. \A q \in Requests : DOMAIN frames[q] = 1 .. Len(frames[q]) /\ DOMAIN frames'[q] = 1 .. Len(frames[q]) /\ Len(frames[q]) \in Nat
  BY DEF Inv, TypeOK
<1>3. ParentInv'
  <2>. SUFFICES ASSUME NEW q \in Requests, NEW j \in 1 .. Len(frames[q])
                PROVE  /\ frames'[q][j].process \in on <=> frames'[q][j].trace # 0
                       /\ frames'[q][j].parent # 0 =>
                             frames'[q][j].parent < j /\ frames'[q][frames'[q][j].parent].trace # 0
                       /\ j > 1 /\ frames'[q][j - 1].process \in on /\ frames'[q][j].process \in on =>
                             /\ frames'[q][j].trace = frames'[q][j - 1].trace
                             /\ frames'[q][j].parent = IF frames'[q][j].kind = "health" THEN j - 2 ELSE j - 1
    BY DEF ParentInv, Live
  <2>1. Len(frames[q]) \in Nat /\ (j > 1 => j - 1 \in 1 .. Len(frames[q]))
    BY <1>2
  <2>2. /\ frames[q][j].process \in on <=> frames[q][j].trace # 0
        /\ frames[q][j].parent # 0 => frames[q][j].parent < j /\ frames[q][frames[q][j].parent].trace # 0
        /\ j > 1 /\ frames[q][j - 1].process \in on /\ frames[q][j].process \in on =>
              /\ frames[q][j].trace = frames[q][j - 1].trace
              /\ frames[q][j].parent = IF frames[q][j].kind = "health" THEN j - 2 ELSE j - 1
    BY DEF Inv, ParentInv, Live
  <2>3. frames[q][j].parent \in Nat
    BY FrameIsSpanned DEF Inv, Spanned
  <2>4. frames[q][j].parent # 0 => frames[q][j].parent \in 1 .. Len(frames[q])
    BY <2>1, <2>2, <2>3
  <2>5. /\ frames'[q][j].kind = frames[q][j].kind /\ frames'[q][j].process = frames[q][j].process
        /\ frames'[q][j].parent = frames[q][j].parent /\ frames'[q][j].trace = frames[q][j].trace
    OBVIOUS
  <2>6. j > 1 => frames'[q][j - 1].process = frames[q][j - 1].process /\ frames'[q][j - 1].trace = frames[q][j - 1].trace
    BY <2>1
  <2>7. frames[q][j].parent # 0 => frames'[q][frames[q][j].parent].trace = frames[q][frames[q][j].parent].trace
    BY <2>4
  <2>. QED  BY <2>2, <2>5, <2>6, <2>7, Zenon
<1>4. OneTrace'
  <2>. SUFFICES ASSUME NEW q \in Requests, NEW h \in DOMAIN frames'[q], NEW j \in DOMAIN frames'[q],
                       h <= j, \A k \in h .. j : frames'[q][k].process \in on
                PROVE  /\ frames'[q][h].trace = frames'[q][j].trace
                       /\ h = j - 1 => frames'[q][j].parent = IF frames'[q][j].kind = "health" THEN h - 1 ELSE h
    BY DEF OneTrace, Live
  <2>1. h \in 1 .. Len(frames[q]) /\ j \in 1 .. Len(frames[q]) /\ \A k \in h .. j : k \in 1 .. Len(frames[q])
    BY <1>2
  <2>2. \A k \in h .. j : Live(q, k)
    BY <2>1 DEF Live
  <2>3. h \in DOMAIN frames[q] /\ j \in DOMAIN frames[q]
    BY <1>2
  <2>4. /\ frames[q][h].trace = frames[q][j].trace
        /\ h = j - 1 => frames[q][j].parent = IF frames[q][j].kind = "health" THEN h - 1 ELSE h
    BY <2>2, <2>3 DEF Inv, OneTrace
  <2>. QED  BY <2>1, <2>4
<1>. QED  BY <1>1, <1>3, <1>4

\* span.End puts the span into the queue of its process or drops it, and
\* touches no other.
LEMMA EndKeeps ==
    ASSUME Inv, NEW r \in Requests, NEW i \in 1 .. Len(frames[r]), End(r, i)
    PROVE  /\ queue' \in [Processes -> SUBSET (Requests \X Nat)]
           /\ lost \subseteq lost' /\ \A p \in Processes : queue[p] \subseteq queue'[p]
           /\ frames[r][i].trace # 0 => <<r, i>> \in lost' \cup queue'[frames[r][i].process]
           /\ \A s \in lost' \cup UNION {queue'[p] : p \in Processes} :
                 s = <<r, i>> \/ s \in lost \cup UNION {queue[p] : p \in Processes}
<1>. DEFINE p == frames[r][i].process
            kept == IF frames[r][i].trace # 0 THEN {<<r, i>>} ELSE {}
<1>1. p \in Processes
  BY FrameIsSpanned DEF Inv, Spanned
<1>2. kept \subseteq Requests \X Nat /\ kept \subseteq {<<r, i>>}
  OBVIOUS
<1>3. frames[r][i].trace # 0 => <<r, i>> \in kept
  OBVIOUS
<1>4. \/ queue' = [queue EXCEPT ![p] = @ \cup kept] /\ lost' = lost
      \/ queue' = queue /\ lost' = lost \cup kept
  BY DEF End
<1>5. queue \in [Processes -> SUBSET (Requests \X Nat)]
  BY DEF Inv, TypeOK
<1>. HIDE DEF p, kept
<1>6. CASE queue' = [queue EXCEPT ![p] = @ \cup kept] /\ lost' = lost
  <2>1. /\ queue' \in [Processes -> SUBSET (Requests \X Nat)]
        /\ queue'[p] = queue[p] \cup kept
        /\ \A x \in Processes : x # p => queue'[x] = queue[x]
    BY <1>1, <1>2, <1>5, <1>6
  <2>. QED  BY <1>1, <1>2, <1>3, <1>6, <2>1 DEF p
<1>7. CASE queue' = queue /\ lost' = lost \cup kept
  BY <1>2, <1>3, <1>5, <1>7
<1>. QED  BY <1>4, <1>6, <1>7

\* If the spans that a step ends are put away, so are all that have ended.
LEMMA EndedKeeps ==
    ASSUME Inv, Retold,
           exported \cup lost \subseteq exported' \cup lost',
           \A p \in Processes : queue[p] \subseteq queue'[p] \cup exported' \cup lost',
           \A q \in Requests : \A j \in 1 .. Len(frames[q]) :
               /\ frames'[q][j].answer = frames[q][j].answer \/ j < Len(frames[q])
               /\ \/ frames'[q][j].status \in {frames[q][j].status, "panicked", "killed"}
                  \/ frames'[q][j].status = "unended" /\ frames[q][j].kind = "do"
                  \/ /\ frames'[q][j].status = "ended"
                     /\ frames[q][j].trace # 0 => <<q, j>> \in lost' \cup queue'[frames[q][j].process]
    PROVE  EndedInv'
<1>. SUFFICES ASSUME NEW q \in Requests, NEW j \in 1 .. Len(frames'[q])
              PROVE  /\ frames'[q][j].answer # <<>> => j < Len(frames'[q])
                     /\ frames'[q][j].status = "unended" => frames'[q][j].kind = "do"
                     /\ frames'[q][j].status = "ended" /\ frames'[q][j].trace # 0 =>
                           <<q, j>> \in exported' \cup lost' \cup queue'[frames'[q][j].process]
  BY DEF EndedInv
<1>1. j \in 1 .. Len(frames[q]) /\ Len(frames'[q]) = Len(frames[q])
  BY DEF Retold
<1>2. frames'[q][j].kind = frames[q][j].kind /\ frames'[q][j].process = frames[q][j].process /\ frames'[q][j].trace = frames[q][j].trace
  BY <1>1 DEF Retold
<1>3. frames[q][j].process \in Processes
  BY <1>1, FrameIsSpanned DEF Inv, Spanned
<1>4. /\ frames[q][j].answer # <<>> => j < Len(frames[q])
      /\ frames[q][j].status = "unended" => frames[q][j].kind = "do"
      /\ frames[q][j].status = "ended" /\ frames[q][j].trace # 0 =>
            <<q, j>> \in exported \cup lost \cup queue[frames[q][j].process]
  BY <1>1 DEF Inv, EndedInv
<1>5. frames'[q][j].answer # <<>> => j < Len(frames'[q])
  <2>1. CASE frames'[q][j].answer = frames[q][j].answer
    BY <1>1, <1>4, <2>1
  <2>2. CASE j < Len(frames[q])
    BY <1>1, <2>2
  <2>. QED  BY <1>1, <2>1, <2>2
<1>6. frames'[q][j].status = "unended" => frames'[q][j].kind = "do"
  BY <1>1, <1>2, <1>4
<1>7. frames'[q][j].status = "ended" /\ frames'[q][j].trace # 0 =>
         <<q, j>> \in exported' \cup lost' \cup queue'[frames'[q][j].process]
  <2>. DEFINE s == <<q, j>>
  <2>. HIDE DEF s
  <2>1. frames[q][j].status = "ended" /\ frames[q][j].trace # 0 =>
           s \in exported \cup lost \cup queue[frames[q][j].process]
    BY <1>4 DEF s
  <2>2. frames'[q][j].status = "ended" /\ frames[q][j].trace # 0 =>
           frames[q][j].status = "ended" \/ s \in lost' \cup queue'[frames[q][j].process]
    BY <1>1 DEF s
  <2>3. frames'[q][j].status = "ended" /\ frames[q][j].trace # 0 =>
           s \in exported' \cup lost' \cup queue'[frames[q][j].process]
    BY <1>3, <2>1, <2>2
  <2>. QED  BY <1>2, <2>3 DEF s
<1>. QED  BY <1>5, <1>6, <1>7

LEMMA KnownKeeps ==
    ASSUME Inv, Retold,
           \A s \in exported' \cup lost' \cup UNION {queue'[p] : p \in Processes} :
               \/ s \in exported \cup lost \cup UNION {queue[p] : p \in Processes}
               \/ s \in Requests \X Nat /\ s[2] \in 1 .. Len(frames[s[1]])
    PROVE  KnownInv'
<1>. SUFFICES ASSUME NEW s \in exported' \cup lost' \cup UNION {queue'[p] : p \in Processes}
              PROVE  s \in Requests \X Nat /\ s[2] \in 1 .. Len(frames'[s[1]])
  BY DEF KnownInv
<1>1. s \in Requests \X Nat /\ s[2] \in 1 .. Len(frames[s[1]])
  BY DEF Inv, KnownInv
<1>2. s[1] \in Requests
  BY <1>1
<1>. QED  BY <1>1, <1>2 DEF Retold

\* The answers of the frames are still true if none is new.
LEMMA AnswersKeep ==
    ASSUME Inv, Retold,
           \A q \in Requests : \A j \in 1 .. Len(frames[q]) :
               \/ frames'[q][j].answer = frames[q][j].answer
               \/ frames'[q][j].answer = <<>>
               \/ j < Len(frames[q]) /\ frames'[q][j].answer = <<frames[q][j + 1].trace>>
    PROVE  TraceIdAnswered'
<1>. SUFFICES ASSUME NEW q \in Requests, NEW j \in DOMAIN frames'[q], frames'[q][j].answer # <<>>
              PROVE  /\ frames'[q][j].answer = <<frames'[q][j + 1].trace>>
                     /\ frames'[q][j + 1].process \in on <=> frames'[q][j].answer # <<0>>
                     /\ frames'[q][j].process \in on /\ frames'[q][j + 1].process \in on =>
                           frames'[q][j].answer = <<frames'[q][j].trace>>
  BY DEF TraceIdAnswered, Live, Retold
<1>1. j \in 1 .. Len(frames[q]) /\ j \in DOMAIN frames[q] /\ Len(frames[q]) \in Nat
  BY DEF Inv, TypeOK, Retold
<1>2. j < Len(frames[q]) /\ frames'[q][j].answer = <<frames[q][j + 1].trace>>
  <2>1. CASE frames'[q][j].answer = frames[q][j].answer
    <3>1. frames[q][j].answer # <<>>
      BY <2>1
    <3>2. j < Len(frames[q]) /\ frames[q][j].answer = <<frames[q][j + 1].trace>>
      BY <1>1, <3>1 DEF Inv, EndedInv, TraceIdAnswered
    <3>. QED  BY <2>1, <3>2
  <2>2. CASE frames'[q][j].answer # frames[q][j].answer
    BY <1>1, <2>2
  <2>. QED  BY <2>1, <2>2
<1>3. j + 1 \in 1 .. Len(frames[q]) /\ j + 1 > 1 /\ (j + 1) - 1 = j
  BY <1>1, <1>2
<1>4. /\ frames'[q][j].process = frames[q][j].process /\ frames'[q][j].trace = frames[q][j].trace
      /\ frames'[q][j + 1].process = frames[q][j + 1].process /\ frames'[q][j + 1].trace = frames[q][j + 1].trace
  BY <1>1, <1>3 DEF Retold
<1>5. /\ frames[q][j + 1].process \in on <=> frames[q][j + 1].trace # 0
      /\ frames[q][j].process \in on /\ frames[q][j + 1].process \in on => frames[q][j + 1].trace = frames[q][j].trace
  BY <1>3 DEF Inv, ParentInv, Live
<1>6. \A n : <<frames[q][j + 1].trace>> = <<n>> <=> frames[q][j + 1].trace = n
  OBVIOUS
<1>7. frames[q][j + 1].process \in on <=> <<frames[q][j + 1].trace>> # <<0>>
  BY <1>5, <1>6
<1>8. frames[q][j].process \in on /\ frames[q][j + 1].process \in on =>
         <<frames[q][j + 1].trace>> = <<frames[q][j].trace>>
  BY <1>5
<1>. QED  BY <1>2, <1>4, <1>7, <1>8

\* One frame of a sequence gets another status and another answer.
Told(F, i, st, answer) == [F EXCEPT ![i] = [F[i] EXCEPT !.answer = answer, !.status = st]]

LEMMA Changed ==
    ASSUME NEW F \in Seq(Spanned), NEW i \in 1 .. Len(F),
           NEW st \in Statuses, NEW answer \in {<<>>} \cup {<<n>> : n \in Nat}
    PROVE  LET G == Told(F, i, st, answer) IN
           /\ G \in Seq(Spanned) /\ Len(G) = Len(F)
           /\ \A j \in 1 .. Len(F) : j # i => G[j] = F[j]
           /\ G[i].kind = F[i].kind /\ G[i].process = F[i].process
           /\ G[i].parent = F[i].parent /\ G[i].trace = F[i].trace
           /\ G[i].status = st /\ G[i].answer = answer
<1>. DEFINE e == [F[i] EXCEPT !.answer = answer, !.status = st]
            G == Told(F, i, st, answer)
<1>1. F[i] \in Spanned
  BY ElementOfSeq
<1>2. /\ e \in Spanned
      /\ e.kind = F[i].kind /\ e.process = F[i].process /\ e.parent = F[i].parent /\ e.trace = F[i].trace
      /\ e.status = st /\ e.answer = answer
  BY <1>1 DEF Spanned
<1>. HIDE DEF e
<1>3. G = [F EXCEPT ![i] = e]
  BY DEF e, Told
<1>4. /\ [F EXCEPT ![i] = e] \in Seq(Spanned)
      /\ Len([F EXCEPT ![i] = e]) = Len(F)
      /\ \A j \in 1 .. Len(F) : [F EXCEPT ![i] = e][j] = IF j = i THEN e ELSE F[j]
  BY <1>2, ExceptSeq
<1>. HIDE DEF G
<1>. SUFFICES /\ G \in Seq(Spanned) /\ Len(G) = Len(F)
              /\ \A j \in 1 .. Len(F) : j # i => G[j] = F[j]
              /\ G[i].kind = F[i].kind /\ G[i].process = F[i].process
              /\ G[i].parent = F[i].parent /\ G[i].trace = F[i].trace
              /\ G[i].status = st /\ G[i].answer = answer
  BY DEF G
<1>. QED  BY <1>2, <1>3, <1>4

LEMMA ReturnStep ==
    ASSUME Inv, NEW r \in Requests, NEW i \in DOMAIN frames[r], Return(r, i)
    PROVE  Inv'
<1>0. TypeOK /\ frames[r] \in Seq(Spanned) /\ i \in 1 .. Len(frames[r]) /\ frames \in [Requests -> Seq(Spanned)]
  BY DEF Inv, TypeOK
<1>. DEFINE st == IF Ended(frames[r][i].kind) THEN "ended" ELSE "unended"
<1>1. PICK answer \in AnswersFor(r, i) :
         frames' = [frames EXCEPT ![r][i].answer = answer, ![r][i].status = st]
  BY DEF Return
<1>2. on' = on /\ path' = path /\ stranger' = stranger /\ exported' = exported
  BY DEF Return
<1>3. st \in Statuses
  BY DEF Statuses
<1>4. answer = <<>> \/ (i < Len(frames[r]) /\ answer = <<frames[r][i + 1].trace>>)
  BY DEF AnswersFor, TraceId
<1>5. i < Len(frames[r]) => frames[r][i + 1].trace \in Nat
  <2>1. i < Len(frames[r]) => i + 1 \in 1 .. Len(frames[r])
    BY <1>0
  <2>. QED  BY <1>0, <2>1, FrameIsSpanned DEF Spanned
<1>6. answer \in {<<>>} \cup {<<n>> : n \in Nat}
  BY <1>4, <1>5
<1>. HIDE DEF st
<1>7. /\ \A q \in Requests : q # r => frames'[q] = frames[q]
      /\ frames'[r] = Told(frames[r], i, st, answer)
      /\ frames' = [frames EXCEPT ![r] = frames'[r]]
  BY <1>0, <1>1 DEF Told
<1>8. /\ frames'[r] \in Seq(Spanned) /\ Len(frames'[r]) = Len(frames[r])
      /\ \A j \in 1 .. Len(frames[r]) : j # i => frames'[r][j] = frames[r][j]
      /\ frames'[r][i].kind = frames[r][i].kind /\ frames'[r][i].process = frames[r][i].process
      /\ frames'[r][i].parent = frames[r][i].parent /\ frames'[r][i].trace = frames[r][i].trace
      /\ frames'[r][i].status = st /\ frames'[r][i].answer = answer
  BY <1>0, <1>3, <1>6, <1>7, Changed
<1>9. frames' \in [Requests -> Seq(Spanned)]
  BY <1>0, <1>7, <1>8
<1>10. Retold
  BY <1>2, <1>7, <1>8, <1>9 DEF Retold
<1>11. /\ queue' \in [Processes -> SUBSET (Requests \X Nat)]
       /\ lost \subseteq lost' /\ \A p \in Processes : queue[p] \subseteq queue'[p]
       /\ st = "ended" /\ frames[r][i].trace # 0 => <<r, i>> \in lost' \cup queue'[frames[r][i].process]
       /\ \A s \in lost' \cup UNION {queue'[p] : p \in Processes} :
             s = <<r, i>> \/ s \in lost \cup UNION {queue[p] : p \in Processes}
  <2>1. CASE Ended(frames[r][i].kind)
    <3>1. End(r, i)
      BY <2>1 DEF Return
    <3>. QED  BY <1>0, <3>1, EndKeeps
  <2>2. CASE ~Ended(frames[r][i].kind)
    BY <2>2 DEF Return, st, Inv, TypeOK
  <2>. QED  BY <2>1, <2>2
<1>12. TypeOK'
  BY <1>2, <1>9, <1>11 DEF Inv, TypeOK
<1>13. st = "ended" \/ (st = "unended" /\ frames[r][i].kind = "do")
  BY DEF st, Ended
<1>14. \A q \in Requests : \A j \in 1 .. Len(frames[q]) : ~(q = r /\ j = i) => frames'[q][j] = frames[q][j]
  BY <1>7, <1>8
<1>15. EndedInv'
  <2>1. \A q \in Requests : \A j \in 1 .. Len(frames[q]) :
               /\ frames'[q][j].answer = frames[q][j].answer \/ j < Len(frames[q])
               /\ \/ frames'[q][j].status \in {frames[q][j].status, "panicked", "killed"}
                  \/ frames'[q][j].status = "unended" /\ frames[q][j].kind = "do"
                  \/ /\ frames'[q][j].status = "ended"
                     /\ frames[q][j].trace # 0 => <<q, j>> \in lost' \cup queue'[frames[q][j].process]
    <3>. SUFFICES ASSUME NEW q \in Requests, NEW j \in 1 .. Len(frames[q])
                  PROVE  /\ frames'[q][j].answer = frames[q][j].answer \/ j < Len(frames[q])
                         /\ \/ frames'[q][j].status \in {frames[q][j].status, "panicked", "killed"}
                            \/ frames'[q][j].status = "unended" /\ frames[q][j].kind = "do"
                            \/ /\ frames'[q][j].status = "ended"
                               /\ frames[q][j].trace # 0 => <<q, j>> \in lost' \cup queue'[frames[q][j].process]
      OBVIOUS
    <3>1. CASE q = r /\ j = i
      <4>1. frames'[q][j].answer = frames[q][j].answer \/ j < Len(frames[q])
        <5>1. CASE answer = <<>> /\ frames[r][i].answer # <<>>
          BY <1>0, <3>1, <5>1 DEF Inv, EndedInv
        <5>2. CASE ~(answer = <<>> /\ frames[r][i].answer # <<>>)
          BY <1>4, <1>8, <3>1, <5>2
        <5>. QED  BY <5>1, <5>2
      <4>. QED  BY <1>8, <1>11, <1>13, <3>1, <4>1
    <3>2. CASE ~(q = r /\ j = i)
      BY <1>14, <3>2
    <3>. QED  BY <3>1, <3>2
  <2>. QED  BY <1>2, <1>10, <1>11, <2>1, EndedKeeps
<1>16. KnownInv'
  <2>1. <<r, i>> \in Requests \X Nat /\ <<r, i>>[1] = r /\ <<r, i>>[2] = i
    BY <1>0
  <2>2. \A s \in exported' \cup lost' \cup UNION {queue'[p] : p \in Processes} :
               \/ s \in exported \cup lost \cup UNION {queue[p] : p \in Processes}
               \/ s \in Requests \X Nat /\ s[2] \in 1 .. Len(frames[s[1]])
    BY <1>0, <1>2, <1>11, <2>1
  <2>. QED  BY <1>10, <2>2, KnownKeeps
<1>17. TraceIdAnswered'
  <2>1. \A q \in Requests : \A j \in 1 .. Len(frames[q]) :
               \/ frames'[q][j].answer = frames[q][j].answer
               \/ frames'[q][j].answer = <<>>
               \/ j < Len(frames[q]) /\ frames'[q][j].answer = <<frames[q][j + 1].trace>>
    BY <1>4, <1>8, <1>14
  <2>. QED  BY <1>10, <2>1, AnswersKeep
<1>18. ChainInv' /\ ParentInv' /\ OneTrace'
  BY <1>10, RetoldKeeps
<1>. QED  BY <1>12, <1>15, <1>16, <1>17, <1>18 DEF Inv

LEMMA PanicStep ==
    ASSUME Inv, NEW r \in Requests, NEW i \in DOMAIN frames[r], Panic(r, i)
    PROVE  Inv'
<1>. DEFINE F == frames[r]
            e == [F[i] EXCEPT !.status = "ended"]
            d == [F[i - 1] EXCEPT !.status = "panicked"]
<1>0. TypeOK /\ F \in Seq(Spanned) /\ i \in 1 .. Len(F) /\ frames \in [Requests -> Seq(Spanned)] /\ Len(F) \in Nat
  BY DEF Inv, TypeOK
<1>1. i - 1 \in 1 .. Len(F) /\ i - 1 # i
  <2>1. Todo(r)[i].kind = "handler" /\ i \in 1 .. Len(Todo(r))
    <3>1. Todo(r) \in Chains
      BY <1>0, TodoIsSound
    <3>2. Len(Todo(r)) \in Nat
      BY <3>1 DEF Chains
    <3>. QED  BY <1>0, <3>2 DEF Panic, Inv, ChainInv
  <2>2. i > 1
    BY <1>0, <2>1, TodoIsSound DEF Sound
  <2>. QED  BY <1>0, <2>2
<1>2. on' = on /\ path' = path /\ stranger' = stranger /\ exported' = exported /\ End(r, i)
  BY DEF Panic
<1>3. /\ e \in Spanned /\ e.kind = F[i].kind /\ e.process = F[i].process /\ e.parent = F[i].parent
      /\ e.trace = F[i].trace /\ e.answer = F[i].answer /\ e.status = "ended"
  <2>1. F[i] \in Spanned
    BY <1>0, FrameIsSpanned
  <2>. QED  BY <2>1 DEF Spanned, Statuses
<1>4. /\ d \in Spanned /\ d.kind = F[i - 1].kind /\ d.process = F[i - 1].process /\ d.parent = F[i - 1].parent
      /\ d.trace = F[i - 1].trace /\ d.answer = F[i - 1].answer /\ d.status = "panicked"
  <2>1. F[i - 1] \in Spanned
    BY <1>0, <1>1, FrameIsSpanned
  <2>. QED  BY <2>1 DEF Spanned, Statuses
<1>5. /\ \A q \in Requests : q # r => frames'[q] = frames[q]
      /\ frames' = [frames EXCEPT ![r] = [[F EXCEPT ![i] = e] EXCEPT ![i - 1] = d]]
  BY <1>0, <1>1 DEF Panic
<1>. HIDE DEF e, d
<1>6. /\ [F EXCEPT ![i] = e] \in Seq(Spanned) /\ Len([F EXCEPT ![i] = e]) = Len(F)
      /\ \A j \in 1 .. Len(F) : [F EXCEPT ![i] = e][j] = IF j = i THEN e ELSE F[j]
  BY <1>0, <1>3, ExceptSeq
<1>7. /\ frames'[r] \in Seq(Spanned) /\ Len(frames'[r]) = Len(F)
      /\ \A j \in 1 .. Len(F) : frames'[r][j] = IF j = i - 1 THEN d ELSE IF j = i THEN e ELSE F[j]
  <2>. DEFINE E == [F EXCEPT ![i] = e]
  <2>1. E \in Seq(Spanned) /\ Len(E) = Len(F) /\ i - 1 \in 1 .. Len(E)
    BY <1>1, <1>6
  <2>2. \A j \in 1 .. Len(F) : E[j] = IF j = i THEN e ELSE F[j]
    BY <1>6
  <2>3. frames'[r] = [E EXCEPT ![i - 1] = d]
    BY <1>0, <1>5
  <2>. HIDE DEF E, F
  <2>4. /\ [E EXCEPT ![i - 1] = d] \in Seq(Spanned) /\ Len([E EXCEPT ![i - 1] = d]) = Len(E)
        /\ \A j \in 1 .. Len(E) : [E EXCEPT ![i - 1] = d][j] = IF j = i - 1 THEN d ELSE E[j]
    BY <1>4, <2>1, ExceptSeq
  <2>. QED  BY <2>1, <2>2, <2>3, <2>4
<1>8. frames' \in [Requests -> Seq(Spanned)]
  BY <1>0, <1>5, <1>7
<1>9. \A q \in Requests : \A j \in 1 .. Len(frames[q]) :
         /\ frames'[q][j].kind = frames[q][j].kind /\ frames'[q][j].process = frames[q][j].process
         /\ frames'[q][j].parent = frames[q][j].parent /\ frames'[q][j].trace = frames[q][j].trace
         /\ frames'[q][j].answer = frames[q][j].answer
         /\ \/ frames'[q][j].status \in {frames[q][j].status, "panicked"}
            \/ q = r /\ j = i /\ frames'[q][j].status = "ended"
  <2>. SUFFICES ASSUME NEW q \in Requests, NEW j \in 1 .. Len(frames[q])
                PROVE  /\ frames'[q][j].kind = frames[q][j].kind /\ frames'[q][j].process = frames[q][j].process
                       /\ frames'[q][j].parent = frames[q][j].parent /\ frames'[q][j].trace = frames[q][j].trace
                       /\ frames'[q][j].answer = frames[q][j].answer
                       /\ \/ frames'[q][j].status \in {frames[q][j].status, "panicked"}
                          \/ q = r /\ j = i /\ frames'[q][j].status = "ended"
    OBVIOUS
  <2>1. CASE q # r
    BY <1>5, <2>1
  <2>2. CASE q = r /\ j = i - 1
    BY <1>4, <1>7, <2>2
  <2>3. CASE q = r /\ j = i
    BY <1>1, <1>3, <1>7, <2>3
  <2>4. CASE q = r /\ j # i - 1 /\ j # i
    BY <1>7, <2>4
  <2>. QED  BY <2>1, <2>2, <2>3, <2>4
<1>10. Retold
  BY <1>2, <1>5, <1>7, <1>8, <1>9 DEF Retold
<1>11. /\ queue' \in [Processes -> SUBSET (Requests \X Nat)]
       /\ lost \subseteq lost' /\ \A p \in Processes : queue[p] \subseteq queue'[p]
       /\ frames[r][i].trace # 0 => <<r, i>> \in lost' \cup queue'[frames[r][i].process]
       /\ \A s \in lost' \cup UNION {queue'[p] : p \in Processes} :
             s = <<r, i>> \/ s \in lost \cup UNION {queue[p] : p \in Processes}
  BY <1>0, <1>2, EndKeeps
<1>12. TypeOK'
  BY <1>2, <1>8, <1>11 DEF Inv, TypeOK
<1>13. EndedInv'
  <2>1. \A q \in Requests : \A j \in 1 .. Len(frames[q]) :
               /\ frames'[q][j].answer = frames[q][j].answer \/ j < Len(frames[q])
               /\ \/ frames'[q][j].status \in {frames[q][j].status, "panicked", "killed"}
                  \/ frames'[q][j].status = "unended" /\ frames[q][j].kind = "do"
                  \/ /\ frames'[q][j].status = "ended"
                     /\ frames[q][j].trace # 0 => <<q, j>> \in lost' \cup queue'[frames[q][j].process]
    BY <1>9, <1>11
  <2>. QED  BY <1>2, <1>10, <1>11, <2>1, EndedKeeps
<1>14. KnownInv'
  <2>1. <<r, i>> \in Requests \X Nat /\ <<r, i>>[1] = r /\ <<r, i>>[2] = i
    BY <1>0
  <2>2. \A s \in exported' \cup lost' \cup UNION {queue'[p] : p \in Processes} :
               \/ s \in exported \cup lost \cup UNION {queue[p] : p \in Processes}
               \/ s \in Requests \X Nat /\ s[2] \in 1 .. Len(frames[s[1]])
    BY <1>0, <1>2, <1>11, <2>1
  <2>. QED  BY <1>10, <2>2, KnownKeeps
<1>15. TraceIdAnswered'
  BY <1>9, <1>10, AnswersKeep
<1>16. ChainInv' /\ ParentInv' /\ OneTrace'
  BY <1>10, RetoldKeeps
<1>. QED  BY <1>12, <1>13, <1>14, <1>15, <1>16 DEF Inv

---------------------------------------------------------------------------
(* Processes                                                               *)

LEMMA ExportStep ==
    ASSUME Inv, NEW p \in Processes, Export(p)
    PROVE  Inv'
<1>1. /\ UNCHANGED <<on, alive, path, stranger, frames>>
      /\ queue' = [queue EXCEPT ![p] = {}]
      /\ \/ exported' = exported \cup queue[p] /\ lost' = lost
         \/ exported' = exported /\ lost' = lost \cup queue[p]
  BY DEF Export
<1>2. queue \in [Processes -> SUBSET (Requests \X Nat)] /\ frames \in [Requests -> Seq(Spanned)]
  BY DEF Inv, TypeOK
<1>3. /\ queue' \in [Processes -> SUBSET (Requests \X Nat)]
      /\ queue'[p] = {} /\ \A x \in Processes : x # p => queue'[x] = queue[x]
  BY <1>1, <1>2
<1>4. Retold
  BY <1>1, <1>2 DEF Retold
<1>5. TypeOK'
  BY <1>1, <1>3 DEF Inv, TypeOK
<1>6. /\ exported \cup lost \subseteq exported' \cup lost'
      /\ \A x \in Processes : queue[x] \subseteq queue'[x] \cup exported' \cup lost'
  BY <1>1, <1>3
<1>7. EndedInv'
  <2>1. \A q \in Requests : \A j \in 1 .. Len(frames[q]) :
               /\ frames'[q][j].answer = frames[q][j].answer \/ j < Len(frames[q])
               /\ \/ frames'[q][j].status \in {frames[q][j].status, "panicked", "killed"}
                  \/ frames'[q][j].status = "unended" /\ frames[q][j].kind = "do"
                  \/ /\ frames'[q][j].status = "ended"
                     /\ frames[q][j].trace # 0 => <<q, j>> \in lost' \cup queue'[frames[q][j].process]
    BY <1>1
  <2>. QED  BY <1>4, <1>6, <2>1, EndedKeeps
<1>8. KnownInv'
  <2>1. \A s \in exported' \cup lost' \cup UNION {queue'[x] : x \in Processes} :
               \/ s \in exported \cup lost \cup UNION {queue[x] : x \in Processes}
               \/ s \in Requests \X Nat /\ s[2] \in 1 .. Len(frames[s[1]])
    BY <1>1, <1>3
  <2>. QED  BY <1>4, <2>1, KnownKeeps
<1>9. TraceIdAnswered'
  BY <1>1, <1>4, AnswersKeep
<1>10. ChainInv' /\ ParentInv' /\ OneTrace'
  BY <1>4, RetoldKeeps
<1>. QED  BY <1>5, <1>7, <1>8, <1>9, <1>10 DEF Inv

LEMMA ExitStep ==
    ASSUME Inv, NEW p \in Processes, Exit(p)
    PROVE  Inv'
<1>. DEFINE Left(q, j) == IF frames[q][j].process = p /\ frames[q][j].status = "open"
                          THEN [frames[q][j] EXCEPT !.status = "killed"] ELSE frames[q][j]
<1>1. /\ UNCHANGED <<on, path, stranger, exported>>
      /\ queue' = [queue EXCEPT ![p] = {}] /\ lost' = lost \cup queue[p]
      /\ frames' = [q \in Requests |-> [j \in DOMAIN frames[q] |-> Left(q, j)]]
  BY DEF Exit
<1>2. queue \in [Processes -> SUBSET (Requests \X Nat)] /\ frames \in [Requests -> Seq(Spanned)] /\ TypeOK
  BY DEF Inv, TypeOK
<1>3. /\ queue' \in [Processes -> SUBSET (Requests \X Nat)]
      /\ queue'[p] = {} /\ \A x \in Processes : x # p => queue'[x] = queue[x]
  BY <1>1, <1>2
<1>4. \A q \in Requests : \A j \in 1 .. Len(frames[q]) :
         /\ Left(q, j) \in Spanned
         /\ Left(q, j).kind = frames[q][j].kind /\ Left(q, j).process = frames[q][j].process
         /\ Left(q, j).parent = frames[q][j].parent /\ Left(q, j).trace = frames[q][j].trace
         /\ Left(q, j).answer = frames[q][j].answer /\ Left(q, j).status \in {frames[q][j].status, "killed"}
  <2>. TAKE q \in Requests
  <2>. TAKE j \in 1 .. Len(frames[q])
  <2>1. frames[q][j] \in Spanned
    BY <1>2, FrameIsSpanned
  <2>. QED  BY <2>1 DEF Spanned, Statuses
<1>. HIDE DEF Left
<1>5. \A q \in Requests :
         /\ frames'[q] \in Seq(Spanned) /\ Len(frames'[q]) = Len(frames[q])
         /\ \A j \in 1 .. Len(frames[q]) : frames'[q][j] = Left(q, j)
  <2>. TAKE q \in Requests
  <2>1. DOMAIN frames[q] = 1 .. Len(frames[q]) /\ Len(frames[q]) \in Nat
    BY <1>2
  <2>2. frames'[q] = [j \in 1 .. Len(frames[q]) |-> Left(q, j)]
    BY <1>1, <2>1
  <2>. QED  BY <1>4, <2>1, <2>2
<1>6. frames' \in [Requests -> Seq(Spanned)]
  BY <1>1, <1>5
<1>7. Retold
  BY <1>1, <1>4, <1>5, <1>6 DEF Retold
<1>8. TypeOK'
  BY <1>1, <1>3, <1>6 DEF Inv, TypeOK
<1>9. /\ exported \cup lost \subseteq exported' \cup lost'
      /\ \A x \in Processes : queue[x] \subseteq queue'[x] \cup exported' \cup lost'
  BY <1>1, <1>3
<1>10. EndedInv'
  <2>1. \A q \in Requests : \A j \in 1 .. Len(frames[q]) :
               /\ frames'[q][j].answer = frames[q][j].answer \/ j < Len(frames[q])
               /\ \/ frames'[q][j].status \in {frames[q][j].status, "panicked", "killed"}
                  \/ frames'[q][j].status = "unended" /\ frames[q][j].kind = "do"
                  \/ /\ frames'[q][j].status = "ended"
                     /\ frames[q][j].trace # 0 => <<q, j>> \in lost' \cup queue'[frames[q][j].process]
    BY <1>4, <1>5
  <2>. QED  BY <1>7, <1>9, <2>1, EndedKeeps
<1>11. KnownInv'
  <2>1. \A s \in exported' \cup lost' \cup UNION {queue'[x] : x \in Processes} :
               \/ s \in exported \cup lost \cup UNION {queue[x] : x \in Processes}
               \/ s \in Requests \X Nat /\ s[2] \in 1 .. Len(frames[s[1]])
    BY <1>1, <1>3
  <2>. QED  BY <1>7, <2>1, KnownKeeps
<1>12. TraceIdAnswered'
  <2>1. \A q \in Requests : \A j \in 1 .. Len(frames[q]) : frames'[q][j].answer = frames[q][j].answer
    BY <1>4, <1>5
  <2>. QED  BY <1>7, <2>1, AnswersKeep
<1>13. ChainInv' /\ ParentInv' /\ OneTrace'
  BY <1>7, RetoldKeeps
<1>. QED  BY <1>8, <1>10, <1>11, <1>12, <1>13 DEF Inv

---------------------------------------------------------------------------
(* The theorems                                                            *)

LEMMA InvInit == Init => Inv
<1>. SUFFICES ASSUME Init
              PROVE  Inv
  OBVIOUS
<1>1. /\ on \in SUBSET Processes /\ path \in [Requests -> Paths]
      /\ stranger \in SUBSET {r \in Requests : path[r] # "GetAll"}
      /\ frames = [r \in Requests |-> <<>>] /\ queue = [p \in Processes |-> {}]
      /\ exported = {} /\ lost = {}
  BY DEF Init
<1>2. \A r \in Requests : frames[r] = <<>> /\ Len(frames[r]) = 0 /\ DOMAIN frames[r] = {}
  BY <1>1
<1>3. TypeOK
  BY <1>1 DEF TypeOK
<1>4. ChainInv
  <2>1. \A r \in Requests : Len(Todo(r)) \in Nat
    BY <1>3, TodoIsSound DEF Chains
  <2>. QED  BY <1>2, <2>1 DEF ChainInv
<1>5. ParentInv /\ EndedInv
  BY <1>2 DEF ParentInv, EndedInv
<1>6. KnownInv
  BY <1>1 DEF KnownInv
<1>7. OneTrace /\ TraceIdAnswered
  BY <1>2 DEF OneTrace, TraceIdAnswered
<1>. QED  BY <1>3, <1>4, <1>5, <1>6, <1>7 DEF Inv

LEMMA InvNext == Inv /\ [Next]_vars => Inv'
<1>. SUFFICES ASSUME Inv, [Next]_vars
              PROVE  Inv'
  OBVIOUS
<1>1. CASE \E r \in Requests : Start(r)
  BY <1>1, StartStep
<1>2. CASE \E r \in Requests : \E i \in DOMAIN frames[r] : Return(r, i)
  BY <1>2, ReturnStep
<1>3. CASE \E r \in Requests : \E i \in DOMAIN frames[r] : Panic(r, i)
  BY <1>3, PanicStep
<1>4. CASE \E p \in Processes : Export(p)
  BY <1>4, ExportStep
<1>5. CASE \E p \in Processes : Exit(p)
  BY <1>5, ExitStep
<1>6. CASE UNCHANGED vars
  <2>1. \A q \in Requests : Todo(q)' = Todo(q)
    BY <1>6 DEF vars, Todo
  <2>. QED  BY <1>6, <2>1
            DEF Inv, vars, TypeOK, ChainInv, ParentInv, EndedInv, KnownInv, OneTrace, TraceIdAnswered, Live
<1>. QED  BY <1>1, <1>2, <1>3, <1>4, <1>5, <1>6 DEF Next

LEMMA Invariance == Spec => []Inv
<1>. QED  BY InvInit, InvNext, PTL DEF Spec

\* The spans of a request are one trace, and its tree is that of the calls,
\* for any number of requests: TraceMiddleware, the gRPC interceptor and Do
\* carry the context however the calls interleave or outlive their callers.
THEOREM TracesAreOne == Spec => []OneTrace
<1>1. Inv => OneTrace
  BY DEF Inv
<1>. QED  BY <1>1, Invariance, PTL

\* Whoever gets an X-Trace-ID finds the server's spans under it.
THEOREM AnswersAreTraces == Spec => []TraceIdAnswered
<1>1. Inv => TraceIdAnswered
  BY DEF Inv
<1>. QED  BY <1>1, Invariance, PTL

\* Nothing but Do, which never ends its span, a panic, an exit or a span that
\* its process did not get to the backend leaves an exported span without its
\* parent there.
THEOREM OnlyDoTears == Spec => []TornAtDoOnly
<1>1. Inv => TornAtDoOnly
  <2>. SUFFICES ASSUME Inv, NEW s \in exported,
                       frames[s[1]][s[2]].parent # 0,
                       <<s[1], frames[s[1]][s[2]].parent>> \notin exported
                PROVE  \/ frames[s[1]][frames[s[1]][s[2]].parent].kind = "do"
                       \/ frames[s[1]][frames[s[1]][s[2]].parent].status \in {"open", "panicked", "killed"}
                       \/ <<s[1], frames[s[1]][s[2]].parent>> \in
                            lost \cup queue[frames[s[1]][frames[s[1]][s[2]].parent].process]
    BY DEF TornAtDoOnly
  <2>. DEFINE q == s[1]
              above == frames[q][s[2]].parent
  <2>1. q \in Requests /\ s[2] \in 1 .. Len(frames[q])
    BY DEF Inv, KnownInv
  <2>2. Len(frames[q]) \in Nat /\ above \in Nat
    BY <2>1, FrameIsSpanned DEF Inv, TypeOK, Spanned
  <2>3. above < s[2] /\ frames[q][above].trace # 0
    BY <2>1 DEF Inv, ParentInv
  <2>4. above \in 1 .. Len(frames[q])
    BY <2>1, <2>2, <2>3
  <2>5. frames[q][above].status \in Statuses
    BY <2>1, <2>4, FrameIsSpanned DEF Inv, Spanned
  <2>6. /\ frames[q][above].status = "unended" => frames[q][above].kind = "do"
        /\ frames[q][above].status = "ended" =>
              <<q, above>> \in exported \cup lost \cup queue[frames[q][above].process]
    BY <2>1, <2>3, <2>4 DEF Inv, EndedInv
  <2>. QED  BY <2>5, <2>6 DEF Statuses
<1>. QED  BY <1>1, Invariance, PTL
=============================================================================
