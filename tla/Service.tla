------------------------------ MODULE Service ------------------------------
(***************************************************************************)
(* One instance of the service, from the start of main to its end: the     *)
(* main goroutine (Run, the wait for a signal or an error, Close), the     *)
(* goroutine of the http server, the goroutines of the requests in flight  *)
(* and the goroutine that Close starts, with the deadline of the shutdown. *)
(*                                                                         *)
(* What the requests do is left to ImageAPI: here a handler runs, uses the *)
(* clients, and ends.  When the process exits, goroutines stop where they  *)
(* are (ImageAPI!Crash is what becomes of their requests).                 *)
(*                                                                         *)
(* External, modelled from how Run and Close use them: the clients (each   *)
(* call succeeds, fails or never returns), the http server (Shutdown stops *)
(* the listener at once and returns when no handler runs or its context    *)
(* is done) and the operating system (signals).                            *)
(***************************************************************************)
EXTENDS Naturals

CONSTANT Handlers       \* goroutines of requests

\* The flags of ExternalServiceList name the clients that it created.
Connections == {"MongoDB", "KafkaProducerUploaded", "KafkaProducerPublished"}
Clients == Connections \cup {"HealthCheck"}

VARIABLES
    isPublishing,       \* the configuration: publishing or web mode
    main,               \* where the main goroutine is, "exited" at its end
    flags,              \* the flags of the service list that are set
    client,             \* what became of each client
    checks,             \* dependencies that the health check monitors
    routes,             \* what the router serves: "no", "read" or "all" images routes
    server,             \* the goroutine that runs ListenAndServe
    running,            \* handlers in flight
    svcErrors,          \* errors in the channel to main (capacity 1)
    signals,            \* signals in the channel to main (capacity 1)
    ctx,                \* the context of Close
    closer,             \* where the goroutine of Close is
    hasShutdownError,   \* its variable
    gracefulShutdown,   \* the variable that it shares with Close
    outcome             \* how the process ended ("none": it runs)

vars == <<isPublishing, main, flags, client, checks, routes, server, running, svcErrors,
          signals, ctx, closer, hasShutdownError, gracefulShutdown, outcome>>

starting == <<flags, client, checks, routes>>
serving == <<server, running, svcErrors>>
closing == <<closer, hasShutdownError, gracefulShutdown>>

TypeOK ==
    /\ isPublishing \in BOOLEAN
    /\ main \in Clients \cup {"setup", "checkers", "serve", "select", "close", "wait", "exited"}
    /\ flags \subseteq Clients
    /\ client \in [Clients -> {"nil", "open", "closed", "failed"}]
    /\ checks \subseteq Connections \cup {"Zebedee"}
    /\ routes \in {"no", "read", "all"}
    /\ server \in {"none", "listening", "returned", "done"}
    /\ running \subseteq Handlers
    /\ svcErrors \in 0..1
    /\ signals \in 0..1
    /\ ctx \in {"none", "live", "expired", "cancelled"}
    /\ closer \in Clients \cup {"none", "shutdown", "drain", "verdict", "cancel", "done"}
    /\ hasShutdownError \in BOOLEAN
    /\ gracefulShutdown \in BOOLEAN
    /\ outcome \in {"none", "notStarted", "graceful", "failed", "panic"}

Init ==
    /\ isPublishing \in BOOLEAN
    /\ main = "MongoDB"
    /\ flags = {}
    /\ client = [c \in Clients |-> "nil"]
    /\ checks = {}
    /\ routes = "no"
    /\ server = "none"
    /\ running = {}
    /\ svcErrors = 0
    /\ signals = 0
    /\ ctx = "none"
    /\ closer = "none"
    /\ hasShutdownError = FALSE
    /\ gracefulShutdown = FALSE
    /\ outcome = "none"

-----------------------------------------------------------------------------
(* Run, in the main goroutine                                               *)

Exit(how) == main' = "exited" /\ outcome' = how

\* Web mode needs no producers.
AfterGetting(c) ==
    IF c = "MongoDB" /\ isPublishing THEN "KafkaProducerUploaded"
    ELSE IF c = "KafkaProducerUploaded" THEN "KafkaProducerPublished"
    ELSE IF c = "HealthCheck" THEN "checkers"
    ELSE "setup"

\* GetMongoDB, GetKafkaProducer and GetHealthCheck: the flag is set only for
\* a client that was created.
Get(c) ==
    /\ main = c
    /\ client' = [client EXCEPT ![c] = "open"]
    /\ flags' = flags \cup {c}
    /\ main' = AfterGetting(c)
    /\ UNCHANGED <<isPublishing, checks, routes, serving, signals, ctx, closing, outcome>>

\* Run returns the error and main ends: what was opened is not closed.
GetFails(c) ==
    /\ main = c
    /\ Exit("notStarted")
    /\ UNCHANGED <<isPublishing, starting, serving, signals, ctx, closing>>

\* Fault: web mode registers the routes that change images.
SetupAllRoutes ==
    /\ main = "setup"
    /\ routes' \in {"all", "no"}
    /\ main' = "HealthCheck"
    /\ UNCHANGED <<isPublishing, flags, client, checks, serving, signals, ctx, closing, outcome>>

\* A base url that does not parse leaves the router without image routes;
\* Run goes on.
Setup ==
    /\ main = "setup"
    /\ routes' \in {IF isPublishing THEN "all" ELSE "read", "no"}
    /\ main' = "HealthCheck"
    /\ UNCHANGED <<isPublishing, flags, client, checks, serving, signals, ctx, closing, outcome>>

Dependencies == IF isPublishing THEN Connections \cup {"Zebedee"} ELSE {"MongoDB"}

\* Fault: the error is that of the last check only.
RegisterLastChecker ==
    /\ main = "checkers"
    /\ checks' \in SUBSET Dependencies
    /\ IF checks' \cap {"Zebedee", "MongoDB"} # {}
       THEN main' = "serve" /\ UNCHANGED outcome
       ELSE Exit("notStarted")
    /\ UNCHANGED <<isPublishing, flags, client, routes, serving, signals, ctx, closing>>

\* registerCheckers tries every check and fails if one of them failed.
RegisterCheckers ==
    /\ main = "checkers"
    /\ checks' \in SUBSET Dependencies
    /\ IF checks' = Dependencies
       THEN main' = "serve" /\ UNCHANGED outcome
       ELSE Exit("notStarted")
    /\ UNCHANGED <<isPublishing, flags, client, routes, serving, signals, ctx, closing>>

\* The health check and the goroutine of the server start; Run returns.
Serve ==
    /\ main = "serve"
    /\ server' = "listening"
    /\ main' = "select"
    /\ UNCHANGED <<isPublishing, starting, running, svcErrors, signals, ctx, closing, outcome>>

Run ==
    \/ \E c \in Clients : Get(c) \/ GetFails(c)
    \/ Setup
    \/ RegisterCheckers
    \/ Serve

-----------------------------------------------------------------------------
(* The server, its handlers and the operating system                       *)

Alive == main # "exited"

ReceiveRequest(h) ==
    /\ Alive
    /\ server = "listening"
    /\ h \notin running
    /\ routes # "no"
    /\ running' = running \cup {h}
    /\ UNCHANGED <<isPublishing, main, starting, server, svcErrors, signals, ctx, closing, outcome>>

FinishRequest(h) ==
    /\ Alive
    /\ h \in running
    /\ running' = running \ {h}
    /\ UNCHANGED <<isPublishing, main, starting, server, svcErrors, signals, ctx, closing, outcome>>

\* The listener fails, at once (the address is taken) or later.
ListenFails ==
    /\ Alive
    /\ server = "listening"
    /\ server' = "returned"
    /\ UNCHANGED <<isPublishing, main, starting, running, svcErrors, signals, ctx, closing, outcome>>

\* Fault: the goroutine reports its error and listens again, and again.
SendServiceErrorTwice ==
    /\ Alive
    /\ server = "returned"
    /\ svcErrors' = svcErrors + 1
    /\ server' = "listening"
    /\ UNCHANGED <<isPublishing, main, starting, running, signals, ctx, closing, outcome>>

\* ListenAndServe always returns an error, also after Shutdown.
SendServiceError ==
    /\ Alive
    /\ server = "returned"
    /\ svcErrors = 0
    /\ svcErrors' = 1
    /\ server' = "done"
    /\ UNCHANGED <<isPublishing, main, starting, running, signals, ctx, closing, outcome>>

\* Notify drops a signal for which the channel has no room.
Signal ==
    /\ Alive
    /\ signals = 0
    /\ signals' = 1
    /\ UNCHANGED <<isPublishing, main, starting, serving, ctx, closing, outcome>>

Environment ==
    \/ \E h \in Handlers : ReceiveRequest(h) \/ FinishRequest(h)
    \/ ListenFails
    \/ SendServiceError
    \/ Signal

-----------------------------------------------------------------------------
(* The end of main, and Close                                               *)

\* main waits for an error of the server or for a signal.
Select ==
    /\ main = "select"
    /\ \/ svcErrors = 1 /\ svcErrors' = 0 /\ UNCHANGED signals
       \/ signals = 1 /\ signals' = 0 /\ UNCHANGED svcErrors
    /\ main' = "close"
    /\ UNCHANGED <<isPublishing, starting, server, running, ctx, closing, outcome>>

\* Fault: the health check is left running.
CloseAllButCheck ==
    /\ main = "close"
    /\ ctx' = "live"
    /\ closer' = "shutdown"
    /\ main' = "wait"
    /\ UNCHANGED <<isPublishing, starting, serving, signals, hasShutdownError,
                   gracefulShutdown, outcome>>

\* The context with its deadline, and the goroutine that closes.
Close ==
    /\ main = "close"
    /\ ctx' = "live"
    /\ closer' = "HealthCheck"
    /\ main' = "wait"
    /\ UNCHANGED <<isPublishing, starting, serving, signals, hasShutdownError,
                   gracefulShutdown, outcome>>

DeadlinePasses ==
    /\ Alive
    /\ ctx = "live"
    /\ ctx' = "expired"
    /\ UNCHANGED <<isPublishing, main, starting, serving, signals, closing, outcome>>

\* Fault: Close waits for its goroutine, whatever the deadline.
ReturnAfterCloser ==
    /\ main = "wait"
    /\ closer = "done"
    /\ Exit(IF gracefulShutdown THEN "graceful" ELSE "failed")
    /\ UNCHANGED <<isPublishing, starting, serving, signals, ctx, closing>>

\* Close returns as soon as its context is done.  Only the cancellation
\* orders its read of gracefulShutdown after the write: at the deadline the
\* two race, and the read may miss the write.
Return ==
    /\ main = "wait"
    /\ ctx \in {"expired", "cancelled"}
    /\ \E read \in {gracefulShutdown} \cup (IF ctx = "expired" THEN {FALSE} ELSE {}) :
          Exit(IF read THEN "graceful" ELSE "failed")
    /\ UNCHANGED <<isPublishing, starting, serving, signals, ctx, closing>>

-----------------------------------------------------------------------------
(* The goroutine of Close                                                   *)

\* Fault: the clients are closed before the server is shut down.
AfterClosingServerLast(c) ==
    IF c = "HealthCheck" THEN "MongoDB"
    ELSE IF c = "MongoDB" THEN "KafkaProducerUploaded"
    ELSE IF c = "KafkaProducerUploaded" THEN "KafkaProducerPublished"
    ELSE IF c = "KafkaProducerPublished" THEN "shutdown"
    ELSE "verdict"

\* The health check first, then the server (and the API, which has nothing
\* to close), then the connections.
AfterClosing(c) ==
    IF c = "HealthCheck" THEN "shutdown"
    ELSE IF c = "server" THEN "MongoDB"
    ELSE IF c = "MongoDB" THEN "KafkaProducerUploaded"
    ELSE IF c = "KafkaProducerUploaded" THEN "KafkaProducerPublished"
    ELSE "verdict"

\* Fault: one flag for every connection.
FlagTestedMongoDB(c) == IF c \in Connections THEN "MongoDB" ELSE c

\* The flag that is tested before a client is closed: that of the uploaded
\* producer for both producers.
FlagTested(c) == IF c = "KafkaProducerPublished" THEN "KafkaProducerUploaded" ELSE c

SkipClient(c) ==
    /\ Alive
    /\ closer = c
    /\ FlagTested(c) \notin flags
    /\ closer' = AfterClosing(c)
    /\ UNCHANGED <<isPublishing, main, starting, serving, signals, ctx, hasShutdownError,
                   gracefulShutdown, outcome>>

\* Fault: the error of a Close is logged and forgotten.
CloseClientFailsUnnoticed(c) ==
    /\ Alive
    /\ closer = c
    /\ c # "HealthCheck"
    /\ FlagTested(c) \in flags
    /\ client[c] # "nil"
    /\ client' = [client EXCEPT ![c] = "failed"]
    /\ closer' = AfterClosing(c)
    /\ UNCHANGED <<isPublishing, main, flags, checks, routes, serving, signals, ctx,
                   hasShutdownError, gracefulShutdown, outcome>>

\* A call on a client that was not created panics, and the panic of any
\* goroutine ends the process.
CloseClient(c) ==
    /\ Alive
    /\ closer = c
    /\ FlagTested(c) \in flags
    /\ IF client[c] = "nil"
       THEN Exit("panic") /\ UNCHANGED <<client, closer>>
       ELSE /\ client' = [client EXCEPT ![c] = "closed"]
            /\ closer' = AfterClosing(c)
            /\ UNCHANGED <<main, outcome>>
    /\ UNCHANGED <<isPublishing, flags, checks, routes, serving, signals, ctx,
                   hasShutdownError, gracefulShutdown>>

\* Stopping the health check returns no error.
CloseClientFails(c) ==
    /\ Alive
    /\ closer = c
    /\ c # "HealthCheck"
    /\ FlagTested(c) \in flags
    /\ client[c] # "nil"
    /\ client' = [client EXCEPT ![c] = "failed"]
    /\ hasShutdownError' = TRUE
    /\ closer' = AfterClosing(c)
    /\ UNCHANGED <<isPublishing, main, flags, checks, routes, serving, signals, ctx,
                   gracefulShutdown, outcome>>

\* Shutdown closes the listener before it waits for the handlers.
ShutdownServer ==
    /\ Alive
    /\ closer = "shutdown"
    /\ server' = IF server = "listening" THEN "returned" ELSE server
    /\ closer' = "drain"
    /\ UNCHANGED <<isPublishing, main, starting, running, svcErrors, signals, ctx,
                   hasShutdownError, gracefulShutdown, outcome>>

ServerIsShutDown ==
    /\ Alive
    /\ closer = "drain"
    /\ running = {}
    /\ closer' = AfterClosing("server")
    /\ UNCHANGED <<isPublishing, main, starting, serving, signals, ctx, hasShutdownError,
                   gracefulShutdown, outcome>>

\* Fault: an error of Shutdown ends the goroutine.
ShutdownFailsAtOnce ==
    /\ Alive
    /\ closer = "drain"
    /\ running = {} \/ ctx = "expired"
    /\ hasShutdownError' = TRUE
    /\ closer' = "cancel"
    /\ UNCHANGED <<isPublishing, main, starting, serving, signals, ctx, gracefulShutdown, outcome>>

\* The deadline passes while handlers run, or the listener did not close
\* cleanly.  The goroutine notes the error and goes on.
ShutdownFails ==
    /\ Alive
    /\ closer = "drain"
    /\ running = {} \/ ctx = "expired"
    /\ hasShutdownError' = TRUE
    /\ closer' = AfterClosing("server")
    /\ UNCHANGED <<isPublishing, main, starting, serving, signals, ctx, gracefulShutdown, outcome>>

\* Fault: the context is cancelled before the verdict is stored.
VerdictAfterCancel ==
    /\ Alive
    /\ closer = "verdict"
    /\ IF ctx = "live"
       THEN ctx' = "cancelled" /\ UNCHANGED <<gracefulShutdown, closer>>
       ELSE gracefulShutdown' = ~hasShutdownError /\ closer' = "cancel" /\ UNCHANGED ctx
    /\ UNCHANGED <<isPublishing, main, starting, serving, signals, hasShutdownError, outcome>>

Verdict ==
    /\ Alive
    /\ closer = "verdict"
    /\ gracefulShutdown' = ~hasShutdownError
    /\ closer' = "cancel"
    /\ UNCHANGED <<isPublishing, main, starting, serving, signals, ctx, hasShutdownError, outcome>>

\* The deferred cancel.
Cancel ==
    /\ Alive
    /\ closer = "cancel"
    /\ ctx' = IF ctx = "live" THEN "cancelled" ELSE ctx
    /\ closer' = "done"
    /\ UNCHANGED <<isPublishing, main, starting, serving, signals, hasShutdownError,
                   gracefulShutdown, outcome>>

Closer ==
    \/ \E c \in Clients : \/ SkipClient(c)
                          \/ CloseClient(c)
                          \/ CloseClientFails(c)
    \/ ShutdownServer
    \/ ServerIsShutDown
    \/ ShutdownFails
    \/ Verdict
    \/ Cancel

-----------------------------------------------------------------------------

Next == Run \/ Environment \/ Select \/ Close \/ DeadlinePasses \/ Return \/ Closer

Spec == Init /\ [][Next]_vars

\* The main goroutine is scheduled and deadlines pass.  Nothing is assumed of
\* the handlers, of the clients or of the goroutine that waits for them.
Fairness == WF_vars(Select) /\ WF_vars(Close) /\ WF_vars(DeadlinePasses) /\ WF_vars(Return)

FairSpec == Spec /\ Fairness

-----------------------------------------------------------------------------
(* Safety                                                                   *)

\* Close reports a graceful shutdown only if no handler was cut off and every
\* client that was created was closed without an error (Close, which hears of
\* its goroutine through a variable and a context alone).
GracefulMeansComplete ==
    outcome = "graceful" =>
        /\ running = {}
        /\ \A c \in Clients : client[c] \in {"nil", "closed"}

\* It reports a failure only if a call failed or the deadline has passed.
FailureHasCause == outcome = "failed" => hasShutdownError \/ ctx = "expired"

\* The failure of one call does not keep the others from being made ("the
\* Close operation tries to close all dependencies", service_test.go).
NothingLeftOpen ==
    closer \in {"cancel", "done"} => \A c \in Clients : client[c] # "open"

\* Close never calls a client that Run did not create, in either mode: the
\* flag it tests for the published producer is that of the uploaded one.
NoNilClient == outcome # "panic"

\* A handler that still runs loses its connections only after Shutdown
\* failed, which Close then reports ("stop any incoming requests before
\* closing any outbound connections").
HandlersKeepConnections ==
    (running # {} /\ \E c \in Connections : client[c] \in {"closed", "failed"})
        => hasShutdownError

\* The health check never probes a connection that Close has closed ("stop
\* healthcheck, as it depends on everything else").
CheckStopsFirst ==
    (\E c \in Connections : client[c] \in {"closed", "failed"})
        => client["HealthCheck"] = "closed"

\* No request reaches a handler whose clients were not created: web mode has
\* no producers and none of the routes that send events.
HandlersHaveClients ==
    running # {} =>
        /\ client["MongoDB"] # "nil"
        /\ routes = "all" => \A c \in Connections : client[c] # "nil"

\* The service serves only while every connection it created is monitored
\* (registerCheckers: one check that cannot be added stops the start).
ServedOnlyWhenMonitored ==
    server # "none" => \A c \in Connections : client[c] # "nil" => c \in checks

-----------------------------------------------------------------------------
(* Liveness                                                                 *)

\* A running service that is told to stop ends, although a handler, a client
\* or the goroutine of Close may hang for ever.
StopsWhenAsked == (main = "select" /\ svcErrors + signals > 0) ~> main = "exited"
=============================================================================
