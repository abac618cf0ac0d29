----------------------------- MODULE ClientProcess -----------------------------
(***************************************************************************)
(* HTTPClient with its callers: the loop of http-client, whose calls are   *)
(* HttpClient's from GetWithResponse to what it returns, under the context *)
(* of the call and the signal; and any other caller, which makes one call  *)
(* of any verb with any options.  grpc-client's calls are left to          *)
(* GrpcExchange: here they take time and end.                              *)
(***************************************************************************)
EXTENDS ClientLoops

CONSTANTS Keys, MaxBodyLogged, MaxLength, Limits

ASSUME ClientAssumption ==
    /\ MaxBodyLogged \in Nat /\ MaxLength \in Nat /\ MaxLength > MaxBodyLogged
    /\ Limits \subseteq Nat /\ {0, CallTimeout, CallTimeout + 1} \subseteq Limits

VARIABLES
    caller,  \* "main", or "other": any other caller, with main not yet started
    at,      \* HttpClient's pc
    into,    \* and its kind
    client, opts, logged, header, received, early, answer, bodyOpen, clock, result, err

H == INSTANCE HttpClient WITH pc <- at, kind <- into

httpVars == <<at, into, client, opts, logged, header, received, early, answer, bodyOpen, clock, result, err>>
allVars == <<vars, caller, httpVars>>

---------------------------------------------------------------------------
\* main makes a client with a timeout of 3 s for every call; the context's 2 s
\* are CallTimeout.
ProcessInit ==
    /\ Init /\ H!Init
    /\ caller \in {"main", "other"}
    /\ caller = "main" => client = [headers |-> H!Empty, timeout |-> CallTimeout + 1]
    /\ caller = "other" => kind = "http" /\ ~production /\ ~env.number

OtherStart == caller = "other" /\ H!Start /\ UNCHANGED <<vars, caller>>

\* GetWithResponse with the context alone.  EXTERNAL_HTTP may be no URL.
MainCall ==
    /\ caller = "main" /\ Call
    /\ IF kind = "http"
       THEN \E url \in {"good", "bad"} :
               H!Begin([H!Base("GET", url, H!NoBody) EXCEPT !.ctx = CallTimeout], "Response")
       ELSE UNCHANGED httpVars
    /\ UNCHANGED caller

\* Do returns to the loop, which makes a new client for its next call.
MainReturn ==
    /\ IF kind = "http"
       THEN /\ at = "done" /\ Return(err = "none")
            /\ at' = "idle" /\ into' = "nil" /\ err' = "none"
            /\ opts' = H!Base("", "", H!NoBody)
            /\ logged' = H!Empty /\ header' = H!Empty
            /\ received' = 0 /\ early' = FALSE /\ clock' = 0
            /\ answer' = [status |-> 0, body |-> "empty"]
            /\ result' = H!Untouched
            /\ UNCHANGED <<client, bodyOpen>>
       ELSE (\E ok \in BOOLEAN : Return(ok)) /\ UNCHANGED httpVars
    /\ UNCHANGED caller

\* All that main does between two calls.
Around ==
    /\ caller = "main"
    /\ \/ Configure \/ InitTelemetry \/ Connect \/ Done
       \/ Pause \/ Wake \/ RunDeferred \/ End
    /\ UNCHANGED <<caller, httpVars>>

\* What happens within Do, whoever called it.
Exchange ==
    /\ H!Transfer \/ H!Break \/ H!Answer \/ H!Cut \/ H!Parse
    /\ UNCHANGED <<vars, caller>>

\* One clock for the loop and the call.
Time ==
    /\ IF caller = "main" THEN Tick ELSE UNCHANGED vars
    /\ IF at \in {"sending", "reading"} THEN H!Tick ELSE caller = "main" /\ UNCHANGED httpVars
    /\ UNCHANGED caller

World == caller = "main" /\ (Signal \/ Export) /\ UNCHANGED <<caller, httpVars>>

MainStep == MainCall \/ MainReturn \/ Around

ProcessNext == OtherStart \/ MainStep \/ Exchange \/ Time \/ World

\* main goes on, time passes, and timers fire; the network owes nothing.
ProcessSpec ==
    /\ ProcessInit /\ [][ProcessNext]_allVars
    /\ WF_allVars(MainStep) /\ WF_allVars(Time)
    /\ WF_allVars(H!Expire /\ UNCHANGED <<vars, caller>>)

---------------------------------------------------------------------------
(* Properties                                                              *)

\* What HttpClient says of Do, for the calls of http-client and of any other
\* caller: which value of a header is sent and which is logged, that what the
\* caller is left with is what happened, and that a call with a timeout ends.
HeaderPrecedence == H!HeaderPrecedence
OutcomeTrue == H!OutcomeTrue
Ends == H!Ends
=============================================================================
