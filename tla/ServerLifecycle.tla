--------------------------- MODULE ServerLifecycle ---------------------------
(***************************************************************************)
(* Start and stop of the server process: run() of cmd/server/main.go with   *)
(* its error group, RunServer of internal/api/router.go with another, and   *)
(* the http.Server both of them start.                                      *)
(*                                                                          *)
(* The model begins when the signal goroutine has called signal.Notify.     *)
(* ListenAndServe never returns http.ErrServerClosed here: the only call of *)
(* Shutdown waits for the context of RunServer, which nothing ends before   *)
(* the second ListenAndServe has failed.                                    *)
(***************************************************************************)
EXTENDS Naturals, FiniteSets

CONSTANT Clients            \* each has at most one request under way

VARIABLES
    main,        \* "wait" at g.Wait, "runserver" in RunServer, "close", "exited"
    signaller,   \* "select" or "done": the signal goroutine
    listeners,   \* the two calls of ListenAndServe: "first" of run, "second" of RunServer
    shutter,     \* the goroutine of RunServer that calls Shutdown
    cancelled,   \* the contexts that are done: "run" and "runserver"
    queued,      \* len(signalChan), of capacity 1
    active,      \* clients whose request a handler is serving
    timedOut,    \* Shutdown gave up after shutdownTimeout
    closed       \* torrentManager.Close has run

vars == <<main, signaller, listeners, shutter, cancelled, queued,
          active, timedOut, closed>>

Calls == {"first", "second"}
Up == main # "exited"
Returned(l) == listeners[l] = "failed"

Init ==
    /\ main = "wait"
    /\ signaller = "select"
    /\ listeners = [l \in Calls |-> IF l = "first" THEN "bind" ELSE "off"]
    /\ shutter = "off"
    /\ cancelled = {}
    /\ queued = 0
    /\ active = {}
    /\ timedOut = FALSE
    /\ closed = FALSE

------------------------------------------------------------------------------
(* The environment: signals, the port, clients *)

\* SIGINT or SIGTERM.  signal.Notify drops what does not fit into the channel.
Signal ==
    /\ Up
    /\ queued' = 1
    /\ UNCHANGED <<main, signaller, listeners, shutter, cancelled, active, timedOut,
                   closed>>

\* A call of ListenAndServe has its port and serves.
Bind(l) ==
    /\ Up /\ listeners[l] = "bind"
    /\ listeners' = [listeners EXCEPT ![l] = "serve"]
    /\ UNCHANGED <<main, signaller, shutter, cancelled, queued, active,
                   timedOut, closed>>

\* The port is taken, or Accept fails: the goroutine returns the error, and the
\* error group it belongs to is cancelled.  Requests under way are not touched.
ListenFails(l) ==
    /\ Up /\ listeners[l] \in {"bind", "serve"}
    /\ listeners' = [listeners EXCEPT ![l] = "failed"]
    /\ cancelled' = cancelled \cup {IF l = "first" THEN "run" ELSE "runserver"}
    /\ UNCHANGED <<main, signaller, shutter, queued, active, timedOut,
                   closed>>

Connect(c) ==
    /\ Up /\ c \notin active
    /\ \E l \in Calls : listeners[l] = "serve"
    /\ active' = active \cup {c}
    /\ UNCHANGED <<main, signaller, listeners, shutter, cancelled, queued,
                   timedOut, closed>>

RequestEnds(c) ==
    /\ Up /\ c \in active
    /\ active' = active \ {c}
    /\ UNCHANGED <<main, signaller, listeners, shutter, cancelled, queued,
                   timedOut, closed>>

------------------------------------------------------------------------------
(* run *)

SignallerEnds ==
    /\ signaller' = "done"
    /\ cancelled' = cancelled \cup {"run"}
    /\ UNCHANGED <<main, listeners, shutter, active, timedOut, closed>>

\* The select of the signal goroutine: a signal ...
TakeSignal ==
    /\ signaller = "select" /\ queued = 1
    /\ queued' = 0
    /\ SignallerEnds

\* Mutant: the goroutine waits for signals only.
ContextDoneIgnored ==
    /\ signaller = "select" /\ queued = 1
    /\ UNCHANGED queued
    /\ SignallerEnds

\* ... or the end of the other goroutine.
ContextDone ==
    /\ signaller = "select" /\ "run" \in cancelled
    /\ UNCHANGED queued
    /\ SignallerEnds

\* g.Wait returns when both goroutines have; its error is logged, no more.
\* RunServer starts its own two goroutines on the same server.
WaitReturns ==
    /\ main = "wait"
    /\ signaller = "done" /\ Returned("first")
    /\ main' = "runserver"
    /\ listeners' = [listeners EXCEPT !["second"] = "bind"]
    /\ shutter' = "wait"
    /\ UNCHANGED <<signaller, cancelled, queued, active, timedOut, closed>>

------------------------------------------------------------------------------
(* RunServer *)

ShutdownBegins ==
    /\ shutter = "wait" /\ "runserver" \in cancelled
    /\ shutter' = "shutdown"
    /\ UNCHANGED <<main, signaller, listeners, cancelled, queued, active,
                   timedOut, closed>>

\* Shutdown returns when the last request has, or after shutdownTimeout.
ShutdownEnds ==
    /\ shutter = "shutdown"
    /\ shutter' = "done"
    /\ timedOut' = (active # {})
    /\ UNCHANGED <<main, signaller, listeners, cancelled, queued, active,
                   closed>>

RunServerReturns ==
    /\ main = "runserver"
    /\ Returned("second") /\ shutter = "done"
    /\ main' = "close"
    /\ UNCHANGED <<signaller, listeners, shutter, cancelled, queued, active,
                   timedOut, closed>>

\* The deferred calls of run, and the end of the process.
Exit ==
    /\ main = "close"
    /\ closed' = TRUE
    /\ main' = "exited"
    /\ UNCHANGED <<signaller, listeners, shutter, cancelled, queued, active,
                   timedOut>>

------------------------------------------------------------------------------
ProgramStep ==
    \/ TakeSignal \/ ContextDone \/ WaitReturns
    \/ ShutdownBegins \/ ShutdownEnds \/ RunServerReturns \/ Exit

Next ==
    \/ Signal
    \/ \E l \in Calls : Bind(l) \/ ListenFails(l)
    \/ \E c \in Clients : Connect(c) \/ RequestEnds(c)
    \/ ProgramStep

Spec == Init /\ [][Next]_vars

\* The process runs, and a bind succeeds or fails.  Requests need not end, and no
\* signal has to come.
FairSpec ==
    /\ Spec /\ WF_vars(ProgramStep)
    /\ \A l \in Calls : WF_vars(Bind(l) \/ (ListenFails(l) /\ listeners[l] = "bind"))

------------------------------------------------------------------------------
(* Properties *)

\* Every variable keeps its type.
TypeOK ==
    /\ main \in {"wait", "runserver", "close", "exited"}
    /\ signaller \in {"select", "done"}
    /\ listeners \in [Calls -> {"off", "bind", "serve", "failed"}]
    /\ shutter \in {"off", "wait", "shutdown", "done"}
    /\ cancelled \subseteq {"run", "runserver"}
    /\ queued \in 0 .. 1
    /\ active \subseteq Clients
    /\ timedOut \in BOOLEAN
    /\ closed \in BOOLEAN

\* The torrents are closed under no handler, unless it outlasted shutdownTimeout
\* (the deferred Close of main.go after RunServer's Wait).
ClosedAfterRequests == closed => active = {} \/ timedOut

\* When the server cannot listen the process ends: each error group ends as a
\* whole, unless the second call of ListenAndServe serves.
FailureExits ==
    listeners["first"] = "failed" ~> (main = "exited" \/ listeners["second"] = "serve")

\* main.go:80 "Esperar a que todas las goroutines terminen o se reciba una senal
\* de apagado": a signal ends the process.
SignalStops == queued = 1 ~> main = "exited"
==============================================================================
