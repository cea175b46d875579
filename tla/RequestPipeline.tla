--------------------------- MODULE RequestPipeline ---------------------------
(***************************************************************************)
(* The middleware every request passes (NewRouter): RequestLogger,          *)
(* Recoverer and RateLimiter run in the goroutine of the connection, here   *)
(* "outer"; TimeoutMiddleware starts a second one, "inner", for the circuit *)
(* breaker, the adaptive limiter and the handler, and waits for whichever   *)
(* comes first: its end, its panic, or the end of the context.              *)
(*                                                                          *)
(* Both write to one response, whose first status is the one that counts.   *)
(* The limiters refuse when they like, and so does the breaker as far as its *)
(* counts go; headers, spans and compression are left out.                  *)
(***************************************************************************)
EXTENDS Naturals

CONSTANT Requests           \* each is made once (a bound)

VARIABLES
    outer,      \* where the goroutine of the connection is
    inner,      \* where the goroutine of TimeoutMiddleware is
    ctxDone,    \* requests whose context has ended
    panicChan,  \* requests whose panicChan holds a value
    status,     \* the status the handler at work has written, 0 if none
    sent,       \* the status of the response, 0 if none yet, Over when it has ended
    logged,     \* the status RequestLogger has recorded of a response, 0 if none yet
    breaker     \* the state of gobreaker

request == <<ctxDone, panicChan>>
written == <<status, sent>>
vars == <<outer, inner, request, written, logged, breaker>>

Statuses == {200, 429, 500, 503, 504}
Over == 1

Init ==
    /\ outer = [r \in Requests |-> "none"]
    /\ inner = [r \in Requests |-> "none"]
    /\ ctxDone = {} /\ panicChan = {}
    /\ status = [r \in Requests |-> 0]
    /\ sent = [r \in Requests |-> 0]
    /\ logged = [r \in Requests |-> 0]
    /\ breaker = "closed"

OuterAt(r, loc) == outer' = [outer EXCEPT ![r] = loc]
InnerAt(r, loc) == inner' = [inner EXCEPT ![r] = loc]

\* WriteHeader: only the first one has an effect.
Send(r, code) == sent' = [sent EXCEPT ![r] = IF @ = 0 THEN code ELSE @]

------------------------------------------------------------------------------
(* The goroutine of the connection *)

\* RateLimiter lets the request pass, TimeoutMiddleware starts its goroutine.
Arrive(r) ==
    /\ outer[r] = "none"
    /\ OuterAt(r, "select") /\ InnerAt(r, "breaker")
    /\ UNCHANGED <<request, written, logged, breaker>>

RateLimited(r) ==
    /\ outer[r] = "none"
    /\ Send(r, 429)
    /\ OuterAt(r, "log")
    /\ UNCHANGED <<inner, request, status, logged, breaker>>

\* The request timeout passes, or the client goes away.
CtxDone(r) ==
    /\ outer[r] = "select" /\ r \notin ctxDone
    /\ ctxDone' = ctxDone \cup {r}
    /\ UNCHANGED <<outer, inner, panicChan, written, logged, breaker>>

\* Mutant: the answer to a timeout is left to the handler.
TimedOutSilently(r) ==
    /\ outer[r] = "select" /\ r \in ctxDone
    /\ OuterAt(r, "log")
    /\ UNCHANGED <<inner, request, written, logged, breaker>>

\* Mutant: the goroutine is waited for, too.
TimedOutWaits(r) ==
    /\ outer[r] = "select" /\ r \in ctxDone /\ inner[r] = "done"
    /\ Send(r, 504)
    /\ OuterAt(r, "log")
    /\ UNCHANGED <<inner, request, status, logged, breaker>>

\* The select of TimeoutMiddleware: whatever the handler is at, ...
TimedOut(r) ==
    /\ outer[r] = "select" /\ r \in ctxDone
    /\ Send(r, 504)
    /\ OuterAt(r, "log")
    /\ UNCHANGED <<inner, request, status, logged, breaker>>

\* ... its panic, which goes on to Recoverer, ...
Panicked(r) ==
    /\ outer[r] = "select" /\ r \in panicChan
    /\ panicChan' = panicChan \ {r}
    /\ Send(r, 500)
    /\ OuterAt(r, "log")
    /\ UNCHANGED <<inner, ctxDone, status, logged, breaker>>

\* Mutant: done is closed before the handler has returned.
DoneEarly(r) ==
    /\ outer[r] = "select" /\ inner[r] \in {"handler", "done"}
    /\ OuterAt(r, "log")
    /\ UNCHANGED <<inner, request, written, logged, breaker>>

\* ... or its end.
Done(r) ==
    /\ outer[r] = "select" /\ inner[r] = "done"
    /\ OuterAt(r, "log")
    /\ UNCHANGED <<inner, request, written, logged, breaker>>

\* What net/http makes of a response that has no status when it ends.
Final(r) == IF sent[r] = 0 THEN 200 ELSE sent[r]

\* RequestLogger, deferred.
Log(r) ==
    /\ outer[r] = "log"
    /\ logged' = [logged EXCEPT ![r] = Final(r)]
    /\ OuterAt(r, "finish")
    /\ UNCHANGED <<inner, request, written, breaker>>

\* net/http ends the response with what it is by now.
Finish(r) ==
    /\ outer[r] = "finish"
    /\ sent' = [sent EXCEPT ![r] = Over]
    /\ logged' = [logged EXCEPT ![r] = 0]
    /\ OuterAt(r, "returned")
    /\ UNCHANGED <<inner, request, status, breaker>>

------------------------------------------------------------------------------
(* The circuit breaker *)

\* A failure may be the one that trips it (ReadyToTrip), a success in the
\* half-open state the one that closes it; a call that began in an earlier
\* generation counts for nothing.
Succeeded == breaker' \in {breaker} \cup (IF breaker = "half-open" THEN {"closed"} ELSE {})
Failed == breaker' \in {breaker, "open"}

\* CircuitBreakerTimeout has passed.
BreakerTimeout ==
    /\ breaker = "open"
    /\ breaker' = "half-open"
    /\ UNCHANGED <<outer, inner, request, written, logged>>

------------------------------------------------------------------------------
(* The goroutine of TimeoutMiddleware *)

\* Open, or half-open with as many probes as it wants.
BreakerRefuses(r) ==
    /\ inner[r] = "breaker" /\ breaker # "closed"
    /\ Send(r, 503)
    /\ InnerAt(r, "done")
    /\ UNCHANGED <<outer, request, status, logged, breaker>>

BreakerAdmits(r) ==
    /\ inner[r] = "breaker" /\ breaker # "open"
    /\ InnerAt(r, "handler")
    /\ UNCHANGED <<outer, request, written, logged, breaker>>

\* The handler, or the adaptive limiter in front of it, writes its status: one
\* the breaker takes for a success, or for a failure.
Respond(r) ==
    /\ inner[r] = "handler" /\ status[r] = 0
    /\ \E code \in {200, 500} : status' = [status EXCEPT ![r] = code] /\ Send(r, code)
    /\ UNCHANGED <<outer, inner, request, logged, breaker>>

\* It returns.  The breaker goes by the status the handler has written, also
\* when the client has been sent another; http.Error comes after it.
HandlerReturns(r) ==
    /\ inner[r] = "handler"
    /\ IF status[r] >= 500
       THEN Failed /\ Send(r, 503)
       ELSE Succeeded /\ UNCHANGED sent
    /\ InnerAt(r, "done")
    /\ status' = [status EXCEPT ![r] = 0]
    /\ UNCHANGED <<outer, request, logged>>

\* It panics: a failure for the breaker, which passes the panic on.
HandlerPanics(r) ==
    /\ inner[r] = "handler"
    /\ Failed
    /\ InnerAt(r, "panic")
    /\ status' = [status EXCEPT ![r] = 0]
    /\ UNCHANGED <<outer, request, sent, logged>>

\* Mutant: panicChan has no buffer.
SendPanicUnbuffered(r) ==
    /\ inner[r] = "panic" /\ outer[r] = "select"
    /\ panicChan' = panicChan \cup {r}
    /\ InnerAt(r, "ended")
    /\ UNCHANGED <<outer, ctxDone, written, logged, breaker>>

\* The panic is sent to panicChan, which has room for it.
SendPanic(r) ==
    /\ inner[r] = "panic" /\ r \notin panicChan
    /\ panicChan' = panicChan \cup {r}
    /\ InnerAt(r, "ended")
    /\ UNCHANGED <<outer, ctxDone, written, logged, breaker>>

------------------------------------------------------------------------------
Outer(r) == TimedOut(r) \/ Panicked(r) \/ Done(r) \/ Log(r)

Inner(r) ==
    \/ BreakerRefuses(r) \/ BreakerAdmits(r)
    \/ Respond(r) \/ HandlerReturns(r) \/ HandlerPanics(r) \/ SendPanic(r)

Next ==
    \/ \E r \in Requests :
         \/ Arrive(r) \/ RateLimited(r) \/ CtxDone(r)
         \/ Outer(r) \/ Finish(r) \/ Inner(r)
    \/ BreakerTimeout

Spec == Init /\ [][Next]_vars

------------------------------------------------------------------------------
(* Properties *)

InHandler(r) == inner[r] \in {"handler", "panic"}

\* Every variable keeps its type.
TypeOK ==
    /\ outer \in [Requests -> {"none", "select", "log", "finish", "returned"}]
    /\ inner \in [Requests -> {"none", "breaker", "handler", "panic", "done", "ended"}]
    /\ ctxDone \subseteq Requests /\ panicChan \subseteq Requests
    /\ status \in [Requests -> {0, 200, 500}]
    /\ sent \in [Requests -> Statuses \cup {0, Over}]
    /\ logged \in [Requests -> Statuses \cup {0}]
    /\ breaker \in {"closed", "open", "half-open"}

\* The status that is logged and counted is the one the client is sent, although
\* a handler whose request has timed out writes on to the same response
\* (RequestLogger, TimeoutMiddleware).
LoggedIsSent == \A r \in Requests : outer[r] = "finish" => logged[r] = Final(r)

\* A handler is at work for a request that has been answered only when its
\* context has ended: every other way out of the select waits for its end.
AnsweredIsOver ==
    \A r \in Requests : outer[r] = "returned" /\ InHandler(r) => r \in ctxDone
==============================================================================
