------------------------------- MODULE BodyAttrs -------------------------------
(***************************************************************************)
(* How the body of a request or a response becomes attributes of a log     *)
(* record: DecodeBody and its formats, flattenJSON over maps whose order   *)
(* Go does not fix, msgAttrs for protobuf messages, and the two lines that *)
(* are made of the attributes, one on stdout and one for the remote log.   *)
(*                                                                         *)
(* A JSON document is a tree, its values found by the names of members and *)
(* of items, their indices, that lead to them from the root.  A name is    *)
(* the sequence of the parts that dots separate, so that a key, names      *)
(* joined by dots, concatenates them.                                      *)
(***************************************************************************)
EXTENDS Naturals, FiniteSets, SequencesExt

CONSTANTS
    Names,      \* the names of members and form fields
    Index,      \* the names of the items of arrays, in their order
    Documents,  \* functions from the names that lead to a value to its kind
    MaxSample   \* 256 in the code

\* The values within the one that names lead to.
Members(doc, names) == {longer \in DOMAIN doc : longer # <<>> /\ Front(longer) = names}

\* Every value but the root is within an object or an array, and those of an
\* array are numbered.
IsDocument(doc) ==
    /\ <<>> \in DOMAIN doc /\ IsFiniteSet(DOMAIN doc)
    /\ \A names \in DOMAIN doc :
          LET n == Cardinality(Members(doc, names))
          IN /\ names \in Seq(Names \cup ToSet(Index))
             /\ \A i \in DOMAIN names :
                   LET above == SubSeq(names, 1, i - 1)
                   IN above \in DOMAIN doc /\ doc[above] \in {"object", "array"}
             /\ doc[names] = "array" => Members(doc, names) = {Append(names, Index[i]) : i \in 1 .. n}

ASSUME AttrsAssumption ==
    /\ IsFiniteSet(Names) /\ MaxSample \in Nat
    /\ \A name \in Names \cup ToSet(Index) : name \in Seq(ToSet(name)) /\ name # <<>>
    /\ \A doc \in Documents : IsDocument(doc)

VARIABLES
    body,   \* what is logged
    pc,     \* "decode", "flatten", "emit" or "done"
    work,   \* the names of the values flattenJSON is still to visit
    attrs,  \* the attributes made so far: the line on stdout has them all
    line    \* the remote log's line, a map from keys to values

vars == <<body, pc, work, attrs, line>>

Attr(key, value) == [key |-> key, value |-> value]

---------------------------------------------------------------------------
(* JSON                                                                    *)

\* Mutant of Visited: an array of one is taken for an empty one.
VisitedOfTwo(doc, names) ==
    LET n == Cardinality(Members(doc, names))
    IN IF doc[names] # "array" THEN Members(doc, names)
       ELSE IF n > 1 THEN {Append(names, Index[i]) : i \in {1, n}} ELSE {}

\* Of an array the first and the last are visited, which may be the same one.
Visited(doc, names) ==
    LET n == Cardinality(Members(doc, names))
    IN IF doc[names] = "array" /\ n > 0 THEN {Append(names, Index[i]) : i \in {1, n}} ELSE Members(doc, names)

\* "http.body" for both directions of HTTP; messages have "grpc.request" and
\* "grpc.body", which makes no difference.
Prefix == <<"http", "body">>

\* Mutant of KeyOf: the indices of items are left out.
KeyUnindexed(names) == Prefix \o FlattenSeq(SelectSeq(names, LAMBDA name : name \notin ToSet(Index)))

KeyOf(names) == Prefix \o FlattenSeq(names)

\* Strings, numbers and booleans are two kinds here, enough to be told apart.
Shown(kind) == kind \in {"text", "number"}

\* flattenJSON of one value, with its recursive calls as work: they are made
\* in the random order of the map.  That they go depth first is left out.
Flatten ==
    /\ pc = "flatten"
    /\ \E names \in work :
          /\ work' = (work \ {names}) \cup Visited(body.doc, names)
          /\ attrs' = IF Shown(body.doc[names]) THEN Append(attrs, Attr(KeyOf(names), body.doc[names])) ELSE attrs
    /\ UNCHANGED <<body, pc, line>>

Flattened ==
    /\ pc = "flatten" /\ work = {}
    /\ pc' = "emit"
    /\ UNCHANGED <<body, work, attrs, line>>

---------------------------------------------------------------------------
(* The formats                                                             *)

\* JSON that is none, or was cut at the limit, and a message that cannot be
\* marshalled are text; the fields of a form have names; the rest is binary.
Bodies ==
    [format : {"json"}, doc : Documents] \cup [format : {"text", "bad form"}]
    \cup [format : {"form"}, fields : SUBSET Names] \cup [format : {"binary"}, length : 0 .. MaxSample + 1]

\* formAttrs, in the random order of url.Values.
FormAttrs(fields) ==
    {[i \in DOMAIN order |-> Attr(Prefix \o order[i], "text")] : order \in SetToSeqs(fields)}

BinaryAttrs(n) ==
    LET names == CASE n = 0 -> <<>>
                   [] n \in 1 .. MaxSample -> <<"base64">>
                   [] OTHER -> <<"size_bytes", "sample_base64">>
    IN [i \in DOMAIN names |-> Attr(Append(Prefix, names[i]), "text")]

\* DecodeBody by the content type, and msgAttrs.
Decode ==
    /\ pc = "decode"
    /\ IF body.format = "json"
       THEN pc' = "flatten" /\ work' = {<<>>} /\ UNCHANGED attrs
       ELSE /\ pc' = "emit" /\ UNCHANGED work
            /\ attrs' \in CASE body.format = "text" -> {<<Attr(Prefix, "text")>>}
                            [] body.format = "bad form" -> {<<Attr(Append(Prefix, "error"), "text")>>}
                            [] body.format = "form" -> FormAttrs(body.fields)
                            [] body.format = "binary" -> {BinaryAttrs(body.length)}
    /\ UNCHANGED <<body, line>>

\* buildLogLine puts the attributes into a map: the last of a key stays.
Emit ==
    /\ pc = "emit"
    /\ pc' = "done"
    /\ LET keys == {attrs[i].key : i \in DOMAIN attrs}
           last(k) == CHOOSE i \in DOMAIN attrs :
                          attrs[i].key = k /\ \A j \in DOMAIN attrs : attrs[j].key = k => j <= i
       IN line' = [k \in keys |-> attrs[last(k)].value]
    /\ UNCHANGED <<body, work, attrs>>

Init ==
    /\ body \in Bodies
    /\ pc = "decode" /\ work = {} /\ attrs = <<>> /\ line = [k \in {} |-> "text"]

Next == Decode \/ Flatten \/ Flattened \/ Emit

Spec == Init /\ [][Next]_vars

---------------------------------------------------------------------------
(* Properties                                                              *)

\* A definition without a walk of what is to be logged of a document: the
\* scalars with no array on their way but at its first or its last item.
OnTheWay(doc, names) ==
    \A i \in DOMAIN names :
        LET above == SubSeq(names, 1, i - 1)
        IN doc[above] = "array" => names[i] \in {Index[1], Index[Cardinality(Members(doc, above))]}

Kept(doc) == {names \in DOMAIN doc : Shown(doc[names]) /\ OnTheWay(doc, names)}

\* In whatever order the maps are visited, flattenJSON logs every scalar that
\* is to be logged once, under the names that lead to it, and nothing else.
FlattenExact ==
    body.format = "json" /\ pc = "emit" =>
        /\ ToSet(attrs) = {Attr(KeyOf(names), body.doc[names]) : names \in Kept(body.doc)}
        /\ Len(attrs) = Cardinality(Kept(body.doc))

\* The remote log's line has every attribute of the line on stdout, unless a
\* name in the body has a dot: two attributes may have the same key then, and
\* which of them the remote log gets is up to the order of a map.
LinesAgree ==
    pc = "done" =>
        \/ /\ Cardinality(DOMAIN line) = Len(attrs)
           /\ \A i \in DOMAIN attrs : line[attrs[i].key] = attrs[i].value
        \/ body.format = "json" /\ \E names \in Kept(body.doc) : \E i \in DOMAIN names : Len(names[i]) > 1
=============================================================================
