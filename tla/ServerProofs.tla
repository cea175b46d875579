----------------------------- MODULE ServerProofs -----------------------------
(***************************************************************************)
(* Server, for any number of requests: it is both the request pipeline and  *)
(* the lifecycle, it logs what it sends, and it closes the torrents under   *)
(* no handler but those that have outlasted a timeout.                      *)
(***************************************************************************)
EXTENDS Server, TLAPS

------------------------------------------------------------------------------
(* The requests *)

\* A response that is about to be logged has its status, or a goroutine that
\* will write none any more.
Settled(r) ==
    /\ sent[r] = Over => outer[r] = "returned"
    /\ outer[r] = "log" => sent[r] # 0 \/ inner[r] \in {"none", "done", "ended"}
    /\ outer[r] = "finish" =>
         /\ sent[r] # 0 \/ inner[r] \in {"none", "done", "ended"}
         /\ logged[r] = Final(r)

\* A goroutine that is still at work for an answered request was given up when
\* the context ended; one that has panicked has ended before it is heard.
Attended(r) ==
    /\ outer[r] = "none" => inner[r] = "none"
    /\ r \in panicChan => inner[r] = "ended"
    /\ /\ outer[r] \in {"log", "finish", "returned"}
       /\ inner[r] \in {"breaker", "handler", "panic"}
       => r \in ctxDone

RequestInv == TypeOK /\ \A r \in Requests : Settled(r) /\ Attended(r)

LEMMA RequestInit == Init => RequestInv
BY DEF Init, RequestInv, TypeOK, Settled, Attended, Statuses, Over

\* The goroutine of the connection.
LEMMA OuterStep ==
    ASSUME RequestInv, NEW r \in Requests,
           Arrive(r) \/ RateLimited(r) \/ CtxDone(r) \/ Outer(r) \/ Finish(r)
    PROVE  RequestInv'
<1> USE DEF RequestInv, TypeOK, Statuses, Over, Settled, Attended, Final,
            OuterAt, InnerAt, Send, request, written
<1>1. CASE Arrive(r)       BY <1>1 DEF Arrive
<1>2. CASE RateLimited(r)  BY <1>2 DEF RateLimited
<1>3. CASE CtxDone(r)      BY <1>3 DEF CtxDone
<1>4. CASE TimedOut(r)     BY <1>4 DEF TimedOut
<1>5. CASE Panicked(r)     BY <1>5 DEF Panicked
<1>6. CASE Done(r)         BY <1>6 DEF Done
<1>7. CASE Log(r)          BY <1>7 DEF Log
<1>8. CASE Finish(r)       BY <1>8 DEF Finish
<1> QED
  BY <1>1, <1>2, <1>3, <1>4, <1>5, <1>6, <1>7, <1>8 DEF Outer

\* The goroutine of TimeoutMiddleware.
LEMMA InnerStep ==
    ASSUME RequestInv, NEW r \in Requests, Inner(r)
    PROVE  RequestInv'
<1> USE DEF RequestInv, TypeOK, Statuses, Over, Settled, Attended, Final,
            OuterAt, InnerAt, Send, request, written, Succeeded, Failed
<1>1. CASE BreakerRefuses(r)  BY <1>1 DEF BreakerRefuses
<1>2. CASE BreakerAdmits(r)   BY <1>2 DEF BreakerAdmits
<1>3. CASE Respond(r)         BY <1>3 DEF Respond
<1>4. CASE HandlerReturns(r)  BY <1>4 DEF HandlerReturns
<1>5. CASE HandlerPanics(r)   BY <1>5 DEF HandlerPanics
<1>6. CASE SendPanic(r)       BY <1>6 DEF SendPanic
<1> QED  BY <1>1, <1>2, <1>3, <1>4, <1>5, <1>6 DEF Inner

LEMMA RequestStep == RequestInv /\ [Next]_vars => RequestInv'
<1> SUFFICES ASSUME RequestInv, [Next]_vars  PROVE RequestInv'
  OBVIOUS
<1>1. ASSUME NEW r \in Requests,
             Arrive(r) \/ RateLimited(r) \/ CtxDone(r) \/ Outer(r) \/ Finish(r)
      PROVE  RequestInv'
  BY <1>1, OuterStep
<1>2. ASSUME NEW r \in Requests, Inner(r)  PROVE RequestInv'
  BY <1>2, InnerStep
<1>3. CASE BreakerTimeout
  BY <1>3 DEF BreakerTimeout, RequestInv, TypeOK, Settled, Attended, Final,
              request, written
<1>4. CASE UNCHANGED vars
  BY <1>4 DEF vars, RequestInv, TypeOK, Settled, Attended, Final, request, written
<1> QED  BY <1>1, <1>2, <1>3, <1>4 DEF Next

------------------------------------------------------------------------------
(* The process *)

\* Shutdown begins when neither call of ListenAndServe serves any more, so no
\* request comes in after it has looked.
LifecycleInv ==
    /\ Lifecycle!TypeOK
    /\ main = "wait" <=> shutter = "off"
    /\ main = "wait" => listeners["second"] = "off"
    /\ listeners["second"] = "off" => "runserver" \notin cancelled
    /\ main # "wait" => listeners["first"] = "failed"
    /\ "runserver" \in cancelled => listeners["second"] = "failed"
    /\ shutter \in {"shutdown", "done"} => "runserver" \in cancelled
    /\ main \in {"close", "exited"} => shutter = "done"
    /\ shutter = "done" => active = {} \/ timedOut
    /\ closed => main = "exited"

LEMMA LifecycleInit == Lifecycle!Init => LifecycleInv
<1> SUFFICES ASSUME Lifecycle!Init  PROVE LifecycleInv
  OBVIOUS
<1>1. Lifecycle!TypeOK
  <2>1. listeners \in [Lifecycle!Calls -> {"off", "bind", "serve", "failed"}]
    BY DEF Lifecycle!Init
  <2> QED  BY <2>1, 0 \in 0 .. 1 DEF Lifecycle!Init, Lifecycle!TypeOK
<1>2. listeners["second"] = "off"
  BY DEF Lifecycle!Init, Lifecycle!Calls
<1> QED  BY <1>1, <1>2 DEF Lifecycle!Init, LifecycleInv

LEMMA LifecycleStep ==
    LifecycleInv /\ [Lifecycle!Next]_program => LifecycleInv'
<1> SUFFICES ASSUME LifecycleInv, [Lifecycle!Next]_program  PROVE LifecycleInv'
  OBVIOUS
<1> USE DEF LifecycleInv, Lifecycle!TypeOK, Lifecycle!Calls, Lifecycle!Up,
            Lifecycle!Returned
<1>1. CASE Lifecycle!Signal  BY <1>1 DEF Lifecycle!Signal
<1>2. ASSUME NEW l \in Lifecycle!Calls, Lifecycle!Bind(l)  PROVE LifecycleInv'
  BY <1>2 DEF Lifecycle!Bind
<1>3. ASSUME NEW l \in Lifecycle!Calls, Lifecycle!ListenFails(l)  PROVE LifecycleInv'
  BY <1>3 DEF Lifecycle!ListenFails
<1>4. ASSUME NEW c \in Requests, Lifecycle!Connect(c)  PROVE LifecycleInv'
  BY <1>4 DEF Lifecycle!Connect
<1>5. ASSUME NEW c \in Requests, Lifecycle!RequestEnds(c)  PROVE LifecycleInv'
  BY <1>5 DEF Lifecycle!RequestEnds
<1>6. CASE Lifecycle!TakeSignal
  BY <1>6 DEF Lifecycle!TakeSignal, Lifecycle!SignallerEnds
<1>7. CASE Lifecycle!ContextDone
  BY <1>7 DEF Lifecycle!ContextDone, Lifecycle!SignallerEnds
<1>8. CASE Lifecycle!WaitReturns  BY <1>8 DEF Lifecycle!WaitReturns
<1>9. CASE Lifecycle!ShutdownBegins  BY <1>9 DEF Lifecycle!ShutdownBegins
<1>10. CASE Lifecycle!ShutdownEnds  BY <1>10 DEF Lifecycle!ShutdownEnds
<1>11. CASE Lifecycle!RunServerReturns  BY <1>11 DEF Lifecycle!RunServerReturns
<1>12. CASE Lifecycle!Exit  BY <1>12 DEF Lifecycle!Exit
<1>13. CASE UNCHANGED program  BY <1>13 DEF program
<1> QED
  BY <1>1, <1>2, <1>3, <1>4, <1>5, <1>6, <1>7, <1>8, <1>9, <1>10, <1>11, <1>12,
     <1>13 DEF Lifecycle!Next, Lifecycle!ProgramStep

------------------------------------------------------------------------------
(* The two together *)

Waiting == {r \in Requests : outer[r] \notin {"none", "returned"}}

ServerInv == RequestInv /\ LifecycleInv /\ active = Waiting

\* A step of the server is a step, or none, of each.
LEMMA Projection ==
    [ServerNext]_allVars => [Next]_vars /\ [Lifecycle!Next]_program
<1> SUFFICES ASSUME ServerNext \/ UNCHANGED allVars
             PROVE  [Next]_vars /\ [Lifecycle!Next]_program
  OBVIOUS
<1>1. CASE Program
  BY <1>1 DEF Program, Lifecycle!Next
<1>2. ASSUME NEW r \in Requests, Accept(r) \/ Return(r)
      PROVE  Next /\ Lifecycle!Next
  BY <1>2 DEF Accept, Return, Next, Lifecycle!Next
<1>3. ASSUME NEW r \in Requests, TimePasses(r) \/ Answer(r) \/ Handle(r)
      PROVE  Next /\ UNCHANGED program
  BY <1>3 DEF TimePasses, Answer, Handle, Next
<1>4. CASE Breaker
  BY <1>4 DEF Breaker, Next
<1>5. CASE UNCHANGED allVars
  BY <1>5 DEF allVars
<1> QED  BY <1>1, <1>2, <1>3, <1>4, <1>5 DEF ServerNext

\* The requests under way are the active ones.
LEMMA ActiveStep ==
    ASSUME ServerInv, ServerNext \/ UNCHANGED allVars
    PROVE  (active = Waiting)'
<1> USE DEF Waiting
<1>0. outer \in [Requests -> {"none", "select", "log", "finish", "returned"}]
      /\ active = Waiting
  BY DEF ServerInv, RequestInv, TypeOK
<1>1. CASE Program
  <2>1. UNCHANGED outer
    BY <1>1 DEF Program, vars
  <2>2. UNCHANGED active
    BY <1>1 DEF Program, Lifecycle!ProgramStep, Lifecycle!Signal, Lifecycle!Bind,
      Lifecycle!ListenFails, Lifecycle!TakeSignal, Lifecycle!ContextDone,
      Lifecycle!SignallerEnds, Lifecycle!WaitReturns, Lifecycle!ShutdownBegins,
      Lifecycle!ShutdownEnds, Lifecycle!RunServerReturns, Lifecycle!Exit
  <2> QED  BY <1>0, <2>1, <2>2
<1>2. ASSUME NEW r \in Requests, Accept(r)  PROVE (active = Waiting)'
  <2>1. outer[r] = "none" /\ outer' \in {[outer EXCEPT ![r] = "select"],
                                         [outer EXCEPT ![r] = "log"]}
    BY <1>2 DEF Accept, Arrive, RateLimited, OuterAt
  <2>2. active' = active \cup {r}
    BY <1>2 DEF Accept, Lifecycle!Connect
  <2> QED  BY <1>0, <2>1, <2>2
<1>3. ASSUME NEW r \in Requests, Return(r)  PROVE (active = Waiting)'
  <2>1. outer' = [outer EXCEPT ![r] = "returned"]
    BY <1>3 DEF Return, Finish, OuterAt
  <2>2. active' = active \ {r}
    BY <1>3 DEF Return, Lifecycle!RequestEnds
  <2> QED  BY <1>0, <2>1, <2>2
<1>4. ASSUME NEW r \in Requests, Answer(r)  PROVE (active = Waiting)'
  <2>1. outer[r] \in {"select", "log"} /\ UNCHANGED active
        /\ outer' \in {[outer EXCEPT ![r] = "log"], [outer EXCEPT ![r] = "finish"]}
    BY <1>4 DEF Answer, Outer, TimedOut, Panicked, Done, Log, OuterAt, program
  <2> QED  BY <1>0, <2>1
<1>5. ASSUME NEW r \in Requests, TimePasses(r) \/ Handle(r)
      PROVE  (active = Waiting)'
  <2>1. UNCHANGED <<outer, active>>
    BY <1>5 DEF TimePasses, CtxDone, Handle, Inner, BreakerRefuses, BreakerAdmits,
      Respond, HandlerReturns, HandlerPanics, SendPanic, program
  <2> QED  BY <1>0, <2>1
<1>6. CASE Breaker
  BY <1>0, <1>6 DEF Breaker, BreakerTimeout, program
<1>7. CASE UNCHANGED allVars
  BY <1>0, <1>7 DEF allVars, vars, program
<1> QED  BY <1>1, <1>2, <1>3, <1>4, <1>5, <1>6, <1>7 DEF ServerNext

LEMMA Invariance == ServerSpec => []ServerInv
<1>1. ServerInit => ServerInv
  <2>1. Init /\ Lifecycle!Init => active = Waiting
    BY DEF Init, Lifecycle!Init, Waiting
  <2> QED  BY <2>1, RequestInit, LifecycleInit DEF ServerInit, ServerInv
<1>2. ServerInv /\ [ServerNext]_allVars => ServerInv'
  BY Projection, RequestStep, LifecycleStep, ActiveStep DEF ServerInv
<1> QED  BY <1>1, <1>2, PTL DEF ServerSpec

------------------------------------------------------------------------------
(* The theorems *)

\* The server is the request pipeline, and it is the lifecycle: composing them
\* lets neither do what it does not do by itself (NewRouter, RunServer, run).
THEOREM Composed == ServerSpec => Spec /\ Lifecycle!Spec
<1>1. ServerInit => Init /\ Lifecycle!Init
  BY DEF ServerInit
<1> QED
  BY <1>1, Projection, PTL DEF ServerSpec, Spec, Lifecycle!Spec, program, Lifecycle!vars

\* The variables keep their types, and the requests net/http counts as active
\* are those whose goroutine has not returned.
THEOREM ServerTyped == ServerSpec => []ServerTypeOK
<1>1. ServerInv => ServerTypeOK
  BY DEF ServerInv, ServerTypeOK, RequestInv, LifecycleInv, Waiting
<1> QED  BY <1>1, Invariance, PTL

\* What is logged of a response is what is sent, although a handler whose
\* request has timed out writes to it at the same time (RequestLogger).
THEOREM LogRight == ServerSpec => []LoggedIsSent
<1>1. ServerInv => LoggedIsSent
  BY DEF ServerInv, RequestInv, Settled, LoggedIsSent
<1> QED  BY <1>1, Invariance, PTL

\* A handler works for an answered request only after a timeout
\* (TimeoutMiddleware).
THEOREM AnsweredRight == ServerSpec => []AnsweredIsOver
<1>1. ServerInv => AnsweredIsOver
  BY DEF ServerInv, RequestInv, Attended, AnsweredIsOver, InHandler
<1> QED  BY <1>1, Invariance, PTL

\* The torrents are closed after the last request or after shutdownTimeout, and
\* under no handler but those that have outlasted a timeout (RunServer, run).
THEOREM ClosedLate == ServerSpec => [](ClosedAfterRequests /\ ClosedUnderLateOnly)
<1>1. ServerInv => ClosedAfterRequests
  BY DEF ServerInv, LifecycleInv, ClosedAfterRequests, Lifecycle!ClosedAfterRequests
<1>2. ServerInv => ClosedUnderLateOnly
  <2> SUFFICES ASSUME ServerInv, NEW r \in Requests, closed, InHandler(r), ~timedOut
               PROVE  r \in ctxDone
    BY DEF ClosedUnderLateOnly
  <2>1. active = {}
    BY DEF ServerInv, LifecycleInv
  <2>2. outer[r] \in {"none", "returned"}
    BY <2>1 DEF ServerInv, Waiting
  <2> QED  BY <2>2 DEF ServerInv, RequestInv, Attended, InHandler
<1> QED  BY <1>1, <1>2, Invariance, PTL

------------------------------------------------------------------------------
(* How the process stops *)

\* Some goroutine of the program has something to do, or the second call of
\* ListenAndServe is under way.
GoesOn ==
    \/ main = "exited" \/ listeners["second"] \in {"bind", "serve"}
    \/ signaller = "select" /\ "run" \in cancelled
    \/ main = "wait" /\ signaller = "done"
    \/ shutter = "wait" /\ "runserver" \in cancelled
    \/ shutter = "shutdown"
    \/ main = "runserver" /\ listeners["second"] = "failed" /\ shutter = "done"
    \/ main = "close"

\* What the goroutines of run and of RunServer still have to do.
StopSteps ==
    (IF signaller = "select" THEN 1 ELSE 0)
    + (CASE main = "wait" -> 3 [] main = "runserver" -> 2 [] main = "close" -> 1 [] OTHER -> 0)
    + (CASE shutter = "off" -> 3 [] shutter = "wait" -> 2 [] shutter = "shutdown" -> 1 [] OTHER -> 0)

\* A call of ListenAndServe that has failed has cancelled its context.
Cancels ==
    /\ listeners["first"] = "failed" => "run" \in cancelled
    /\ listeners["second"] = "failed" => "runserver" \in cancelled
    /\ main # "wait" => signaller = "done" /\ listeners["second"] # "off"

LEMMA CancelsStep == LifecycleInv /\ Cancels /\ [Lifecycle!Next]_program => Cancels'
<1> SUFFICES ASSUME LifecycleInv, Cancels, [Lifecycle!Next]_program  PROVE Cancels'
  OBVIOUS
<1>0. listeners \in [{"first", "second"} -> {"off", "bind", "serve", "failed"}]
  BY DEF LifecycleInv, Lifecycle!TypeOK, Lifecycle!Calls
<1> USE DEF Cancels
<1>1. ASSUME NEW l \in {"first", "second"}, Lifecycle!Bind(l) \/ Lifecycle!ListenFails(l)
      PROVE  Cancels'
  BY <1>0, <1>1 DEF Lifecycle!Bind, Lifecycle!ListenFails
<1>2. CASE Lifecycle!TakeSignal \/ Lifecycle!ContextDone
  BY <1>2 DEF Lifecycle!TakeSignal, Lifecycle!ContextDone, Lifecycle!SignallerEnds
<1>3. CASE Lifecycle!WaitReturns
  BY <1>0, <1>3 DEF Lifecycle!WaitReturns
<1>4. CASE Lifecycle!RunServerReturns
  BY <1>4 DEF Lifecycle!RunServerReturns
<1>5. CASE Lifecycle!Exit
  BY <1>5 DEF Lifecycle!Exit
<1>6. ASSUME \/ Lifecycle!Signal \/ UNCHANGED program
             \/ Lifecycle!ShutdownBegins \/ Lifecycle!ShutdownEnds
             \/ \E c \in Requests : Lifecycle!Connect(c) \/ Lifecycle!RequestEnds(c)
      PROVE  UNCHANGED <<main, signaller, listeners, cancelled>>
  BY <1>6 DEF Lifecycle!Signal, Lifecycle!ShutdownBegins, Lifecycle!ShutdownEnds,
              Lifecycle!Connect, Lifecycle!RequestEnds, program
<1> QED
  BY <1>1, <1>2, <1>3, <1>4, <1>5, <1>6
     DEF Lifecycle!Next, Lifecycle!ProgramStep, Lifecycle!Calls

LEMMA StopNearer ==
    ASSUME LifecycleInv, Lifecycle!ProgramStep
    PROVE  StopSteps' < StopSteps
<1> DEFINE a == IF signaller = "select" THEN 1 ELSE 0
           b == CASE main = "wait" -> 3 [] main = "runserver" -> 2 [] main = "close" -> 1
                  [] OTHER -> 0
           c == CASE shutter = "off" -> 3 [] shutter = "wait" -> 2 [] shutter = "shutdown" -> 1
                  [] OTHER -> 0
<1>1. a \in Nat /\ b \in Nat /\ c \in Nat /\ StopSteps = a + b + c
  BY DEF StopSteps
<1>2. a' \in Nat /\ b' \in Nat /\ c' \in Nat /\ StopSteps' = a' + b' + c'
  BY DEF StopSteps
<1>3. CASE Lifecycle!TakeSignal \/ Lifecycle!ContextDone
  <2>1. a = 1 /\ a' = 0 /\ b' = b /\ c' = c
    BY <1>3 DEF Lifecycle!TakeSignal, Lifecycle!ContextDone, Lifecycle!SignallerEnds
  <2> HIDE DEF a, b, c
  <2> QED  BY <1>1, <1>2, <2>1
<1>4. CASE Lifecycle!WaitReturns
  <2>1. a' = a /\ b = 3 /\ b' = 2 /\ c = 3 /\ c' = 2
    BY <1>4 DEF Lifecycle!WaitReturns, LifecycleInv
  <2> HIDE DEF a, b, c
  <2> QED  BY <1>1, <1>2, <2>1
<1>5. CASE Lifecycle!ShutdownBegins
  <2>1. a' = a /\ b' = b /\ c = 2 /\ c' = 1
    BY <1>5 DEF Lifecycle!ShutdownBegins
  <2> HIDE DEF a, b, c
  <2> QED  BY <1>1, <1>2, <2>1
<1>6. CASE Lifecycle!ShutdownEnds
  <2>1. a' = a /\ b' = b /\ c = 1 /\ c' = 0
    BY <1>6 DEF Lifecycle!ShutdownEnds
  <2> HIDE DEF a, b, c
  <2> QED  BY <1>1, <1>2, <2>1
<1>7. CASE Lifecycle!RunServerReturns
  <2>1. a' = a /\ c' = c /\ b = 2 /\ b' = 1
    BY <1>7 DEF Lifecycle!RunServerReturns
  <2> HIDE DEF a, b, c
  <2> QED  BY <1>1, <1>2, <2>1
<1>8. CASE Lifecycle!Exit
  <2>1. main = "close" /\ main' = "exited" /\ UNCHANGED <<signaller, shutter>>
    BY <1>8 DEF Lifecycle!Exit
  <2>2. a' = a /\ c' = c /\ b = 1 /\ b' = 0
    BY <2>1
  <2> HIDE DEF a, b, c
  <2> QED  BY <1>1, <1>2, <2>2
<1> QED  BY <1>3, <1>4, <1>5, <1>6, <1>7, <1>8 DEF Lifecycle!ProgramStep

\* Once the first call of ListenAndServe has failed the program is never stuck
\* on its way out: unless the second call is under way, one of its goroutines has
\* a step to take, and each step that any of them takes brings the exit nearer
\* (run, RunServer).
THEOREM StopShortens ==
    ServerSpec => /\ [](listeners["first"] = "failed" => GoesOn)
                  /\ [](StopSteps \in 0 .. 7)
                  /\ [][UNCHANGED <<main, signaller, shutter>> \/ StopSteps' < StopSteps]_allVars
<1>1. ServerInit => Cancels
  BY DEF ServerInit, Lifecycle!Init, Lifecycle!Calls, Cancels
<1>2. ServerInv /\ Cancels /\ [ServerNext]_allVars => Cancels'
  BY Projection, CancelsStep DEF ServerInv
<1>3. ServerInv /\ Cancels =>
        /\ listeners["first"] = "failed" => GoesOn
        /\ StopSteps \in 0 .. 7
  <2> SUFFICES ASSUME LifecycleInv, Cancels
               PROVE  /\ listeners["first"] = "failed" => GoesOn
                      /\ StopSteps \in 0 .. 7
    BY DEF ServerInv
  <2>1. /\ main \in {"wait", "runserver", "close", "exited"} /\ signaller \in {"select", "done"}
        /\ shutter \in {"off", "wait", "shutdown", "done"}
        /\ listeners["second"] \in {"off", "bind", "serve", "failed"}
    BY DEF LifecycleInv, Lifecycle!TypeOK, Lifecycle!Calls
  <2>2. listeners["first"] = "failed" => GoesOn
    BY <2>1 DEF LifecycleInv, Cancels, GoesOn
  <2> QED  BY <2>1, <2>2 DEF StopSteps
<1>4. ASSUME ServerInv, ServerNext
      PROVE  UNCHANGED <<main, signaller, shutter>> \/ StopSteps' < StopSteps
  <2>1. CASE Program
    <3>1. CASE Lifecycle!ProgramStep
      BY <1>4, <3>1, StopNearer DEF ServerInv
    <3>2. CASE ~Lifecycle!ProgramStep
      BY <2>1, <3>2 DEF Program, Lifecycle!Signal, Lifecycle!Bind, Lifecycle!ListenFails
    <3> QED  BY <3>1, <3>2
  <2>2. CASE ~Program
    BY <1>4, <2>2 DEF ServerNext, Accept, Return, TimePasses, Answer, Handle, Breaker, program,
                      Lifecycle!Connect, Lifecycle!RequestEnds
  <2> QED  BY <2>1, <2>2
<1>5. ServerInv /\ [ServerNext]_allVars =>
        [UNCHANGED <<main, signaller, shutter>> \/ StopSteps' < StopSteps]_allVars
  BY <1>4
<1> QED  BY Invariance, <1>1, <1>2, <1>3, <1>5, PTL DEF ServerSpec

\* A goroutine that has panicked finds room in panicChan, whether or not anyone
\* still listens: it never blocks there (TimeoutMiddleware).
THEOREM PanicHasRoom ==
    ServerSpec => [](\A r \in Requests : inner[r] = "panic" => r \notin panicChan)
<1>1. ServerInv => \A r \in Requests : inner[r] = "panic" => r \notin panicChan
  BY DEF ServerInv, RequestInv, Attended
<1> QED  BY <1>1, Invariance, PTL
------------------------------------------------------------------------------
(* The way of a request *)

\* The select of TimeoutMiddleware has something to receive of a goroutine that
\* has ended: the closing of done, or its panic.
Heard ==
    \A r \in Requests :
      outer[r] = "select" =>
        inner[r] \in {"breaker", "handler", "panic", "done"} \/ r \in panicChan

AnswerSteps(r) ==
    CASE outer[r] = "none" -> 4 [] outer[r] = "select" -> 3 [] outer[r] = "log" -> 2
      [] outer[r] = "finish" -> 1 [] outer[r] = "returned" -> 0

\* A request is nearer to its end or where it was, its context has ended for
\* good, and its response keeps the status it has.
Onwards(r) ==
    /\ outer'[r] = outer[r] \/ AnswerSteps(r)' < AnswerSteps(r)
    /\ r \in ctxDone => r \in ctxDone'
    /\ sent[r] # 0 => sent'[r] \in {sent[r], Over}

LEMMA HeardStep ==
    RequestInv /\ Heard /\ [Next]_vars => Heard' /\ [\A r \in Requests : Onwards(r)]_vars
<1> SUFFICES ASSUME RequestInv, Heard, [Next]_vars
             PROVE  Heard' /\ \A r \in Requests : Onwards(r)
  OBVIOUS
<1> USE DEF RequestInv, TypeOK, Attended, Over, OuterAt, InnerAt, Send, request, written,
            Heard, AnswerSteps, Onwards
<1>1. ASSUME NEW r \in Requests,
             Arrive(r) \/ RateLimited(r) \/ CtxDone(r) \/ Outer(r) \/ Finish(r)
      PROVE  Heard' /\ \A q \in Requests : Onwards(q)
  <2>1. CASE Arrive(r)       BY <2>1 DEF Arrive
  <2>2. CASE RateLimited(r)  BY <2>2 DEF RateLimited
  <2>3. CASE CtxDone(r)      BY <2>3 DEF CtxDone
  <2>4. CASE TimedOut(r)     BY <2>4 DEF TimedOut
  <2>5. CASE Panicked(r)     BY <2>5 DEF Panicked
  <2>6. CASE Done(r)         BY <2>6 DEF Done
  <2>7. CASE Log(r)          BY <2>7 DEF Log
  <2>8. CASE Finish(r)       BY <2>8 DEF Finish
  <2> QED  BY <1>1, <2>1, <2>2, <2>3, <2>4, <2>5, <2>6, <2>7, <2>8 DEF Outer
<1>2. ASSUME NEW r \in Requests, Inner(r)
      PROVE  Heard' /\ \A q \in Requests : Onwards(q)
  <2>1. CASE BreakerRefuses(r)  BY <2>1 DEF BreakerRefuses
  <2>2. CASE BreakerAdmits(r)   BY <2>2 DEF BreakerAdmits
  <2>3. CASE Respond(r)         BY <2>3 DEF Respond
  <2>4. CASE HandlerReturns(r)  BY <2>4 DEF HandlerReturns
  <2>5. CASE HandlerPanics(r)   BY <2>5 DEF HandlerPanics
  <2>6. CASE SendPanic(r)       BY <2>6 DEF SendPanic
  <2> QED  BY <1>2, <2>1, <2>2, <2>3, <2>4, <2>5, <2>6 DEF Inner
<1>3. CASE BreakerTimeout
  BY <1>3 DEF BreakerTimeout
<1>4. CASE UNCHANGED vars
  BY <1>4 DEF vars
<1> QED  BY <1>1, <1>2, <1>3, <1>4 DEF Next

\* A request that is in the select of TimeoutMiddleware has a handler at work or
\* an answer to take, a context that has ended stays so, no way leads back, and
\* the first status stands, whatever a handler that was given up writes later
\* (TimeoutMiddleware, RequestLogger).
THEOREM AnswerComes ==
    ServerSpec => /\ []Heard
                  /\ [][\A r \in Requests : Onwards(r)]_allVars
<1>1. ServerInit => Heard
  BY DEF ServerInit, Init, Heard
<1>2. ServerInv /\ Heard /\ [ServerNext]_allVars =>
        Heard' /\ [\A r \in Requests : Onwards(r)]_allVars
  <2>1. UNCHANGED vars => \A r \in Requests : Onwards(r)
    BY DEF vars, request, written, Onwards
  <2> QED  BY <2>1, Projection, HeardStep DEF ServerInv
<1> QED  BY Invariance, <1>1, <1>2, PTL DEF ServerSpec
==============================================================================
