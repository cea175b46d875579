-------------------------------- MODULE Server --------------------------------
(***************************************************************************)
(* The whole server: the requests of RequestPipeline are accepted by the    *)
(* listeners of ServerLifecycle, and are "active" there until the goroutine *)
(* of their connection returns.  The one that TimeoutMiddleware started for *)
(* a request may outlive it, and then nothing waits for it any more.        *)
(***************************************************************************)
EXTENDS RequestPipeline

VARIABLES
    main, signaller, listeners, shutter, cancelled, queued,
    active, timedOut, closed    \* those of ServerLifecycle

Lifecycle == INSTANCE ServerLifecycle WITH Clients <- Requests

program == <<main, signaller, listeners, shutter, cancelled, queued,
             active, timedOut, closed>>
allVars == <<vars, program>>

ServerInit == Init /\ Lifecycle!Init

\* The process starts, stops, or is told to stop.
Program ==
    /\ \/ Lifecycle!ProgramStep \/ Lifecycle!Signal
       \/ \E l \in Lifecycle!Calls : Lifecycle!Bind(l) \/ Lifecycle!ListenFails(l)
    /\ UNCHANGED vars

Accept(r) == Lifecycle!Connect(r) /\ (Arrive(r) \/ RateLimited(r))

Return(r) == Lifecycle!RequestEnds(r) /\ Finish(r)

\* A goroutine of a request goes on, or time passes, until the process exits.
TimePasses(r) == Lifecycle!Up /\ CtxDone(r) /\ UNCHANGED program
Answer(r) == Lifecycle!Up /\ Outer(r) /\ UNCHANGED program
Handle(r) == Lifecycle!Up /\ Inner(r) /\ UNCHANGED program
Breaker == Lifecycle!Up /\ BreakerTimeout /\ UNCHANGED program

ServerNext ==
    \/ Program
    \/ \E r \in Requests :
         Accept(r) \/ Return(r) \/ TimePasses(r) \/ Answer(r) \/ Handle(r)
    \/ Breaker

ServerSpec == ServerInit /\ [][ServerNext]_allVars

\* The program's goroutines run and request timeouts pass; a bind succeeds or
\* fails.  Handlers need not end, and no signal has to come.
ServerFairSpec ==
    /\ ServerSpec
    /\ WF_allVars(Lifecycle!ProgramStep /\ UNCHANGED vars)
    /\ \A l \in Lifecycle!Calls :
         WF_allVars(/\ Lifecycle!Bind(l) \/ (Lifecycle!ListenFails(l) /\ listeners[l] = "bind")
                    /\ UNCHANGED vars)
    /\ \A r \in Requests :
         /\ WF_allVars(TimePasses(r))
         /\ WF_allVars(Answer(r) \/ Return(r))
         /\ WF_allVars(Lifecycle!Up /\ SendPanic(r) /\ UNCHANGED program)

------------------------------------------------------------------------------
(* Properties *)

\* Every variable of the two keeps its type, and the active requests are those
\* whose connection waits for its goroutine.
ServerTypeOK ==
    /\ TypeOK /\ Lifecycle!TypeOK
    /\ active = {r \in Requests : outer[r] \notin {"none", "returned"}}

\* Manager.Close, deferred in run, comes after the last answer or after
\* shutdownTimeout (RunServer).
ClosedAfterRequests == Lifecycle!ClosedAfterRequests

\* A handler that still uses the manager's torrents when they are closed has
\* outlasted shutdownTimeout, or its own context: nothing waits for the latter
\* (TimeoutMiddleware, RunServer, run).
ClosedUnderLateOnly ==
    \A r \in Requests : closed /\ InHandler(r) => timedOut \/ r \in ctxDone

\* When the server cannot listen the process ends: each error group ends as a
\* whole, unless the second call of ListenAndServe serves.
FailureExits == Lifecycle!FailureExits

\* Requests are answered, however long their handlers take and whether or not
\* they panic (TimeoutMiddleware): again and again there is none under way.  As
\* each is made once, each of them is answered.
Answered ==
    []<>(~Lifecycle!Up \/ \A r \in Requests : outer[r] \in {"none", "returned"})

\* A goroutine whose handler has panicked ends, also when nobody waits for its
\* panic any more (the buffer of panicChan).
PanicEnds == []<>(~Lifecycle!Up \/ \A r \in Requests : inner[r] # "panic")
==============================================================================
