--------------------------- MODULE ServiceProofs ---------------------------
(***************************************************************************)
(* One instance of the service, for any set of handlers: what Close        *)
(* reports is true, and it closes in the right order.                      *)
(***************************************************************************)
EXTENDS Service, TLAPS

-----------------------------------------------------------------------------
(* The invariant                                                            *)

Created(c) == client[c] # "nil"

Ended(c) == client[c] \in {"closed", "failed"}

\* The flags are those of the clients that were created; web mode never has
\* producers, and only publishing mode has every route.
StartInv ==
    /\ \A c \in Clients : c \in flags <=> Created(c)
    /\ Created("KafkaProducerUploaded") \/ Created("KafkaProducerPublished") => isPublishing
    /\ routes = "all" => isPublishing

\* What Run has created when main is somewhere in it, and after it.
Opened(cs) == \A c \in cs : isPublishing \/ c \notin {"KafkaProducerUploaded", "KafkaProducerPublished"}
                            => Created(c)

MainInv ==
    /\ main \in {"KafkaProducerUploaded", "KafkaProducerPublished"} => isPublishing
    /\ main = "KafkaProducerUploaded" => Created("MongoDB")
    /\ main = "KafkaProducerPublished" => Created("MongoDB") /\ Created("KafkaProducerUploaded")
    /\ main \in {"setup", "HealthCheck"} => Opened(Connections)
    /\ main \in {"checkers", "serve", "select", "close", "wait"} => Opened(Clients)
    /\ main \in {"serve", "select", "close", "wait"} => checks = Dependencies
    /\ server # "none" => Opened(Clients) /\ checks = Dependencies
    /\ server = "none" => running = {} /\ closer = "none"
    /\ main \in Clients \cup {"setup", "checkers", "serve"} => server = "none"
    /\ main \in {"select", "close", "wait"} => server # "none"
    /\ main = "wait" => closer # "none"
    /\ main \in {"select", "close"} => closer = "none"
    /\ closer = "none" => ~hasShutdownError
    /\ (main = "exited") <=> (outcome # "none")

\* The stages of the goroutine of Close after Shutdown was called, and after
\* it returned.
Drained == {"MongoDB", "KafkaProducerUploaded", "KafkaProducerPublished", "verdict", "cancel", "done"}

\* What each stage leaves behind.
CloserInv ==
    /\ closer \in {"none", "HealthCheck"} => \A c \in Clients : ~Ended(c)
    /\ closer \notin {"none", "HealthCheck"} => client["HealthCheck"] = "closed"
    /\ closer \in {"shutdown", "drain"} => \A c \in Connections : ~Ended(c)
    /\ closer \in Drained \cup {"drain"} => server # "listening"
    /\ closer \in Drained => running = {} \/ hasShutdownError
    /\ closer \in Drained \ {"MongoDB"} => client["MongoDB"] # "open"
    /\ closer \in {"KafkaProducerPublished", "verdict", "cancel", "done"} =>
          client["KafkaProducerUploaded"] # "open"
    /\ closer \in {"verdict", "cancel", "done"} => client["KafkaProducerPublished"] # "open"
    /\ \A c \in Clients : client[c] = "failed" => hasShutdownError

\* What the shared variable and the context say of it.
VerdictInv ==
    /\ gracefulShutdown => closer \in {"cancel", "done"}
    /\ closer \in {"cancel", "done"} => (gracefulShutdown <=> ~hasShutdownError)
    /\ ctx = "cancelled" => closer = "done"
    /\ outcome = "graceful" => gracefulShutdown
    /\ outcome = "failed" => hasShutdownError \/ ctx = "expired"
    /\ outcome # "panic"

IInv == TypeOK /\ StartInv /\ MainInv /\ CloserInv /\ VerdictInv

-----------------------------------------------------------------------------
(* The steps                                                                *)

USE DEF starting, serving, closing, Exit, Alive

LEMMA AfterGettingType ==
  ASSUME NEW c \in Clients
  PROVE  AfterGetting(c) \in Clients \cup {"setup", "checkers"}
BY DEF AfterGetting, Clients, Connections

LEMMA AfterClosingType ==
  ASSUME NEW c \in Clients \cup {"server"}
  PROVE  AfterClosing(c) \in Clients \cup {"shutdown", "verdict"}
BY DEF AfterClosing, Clients, Connections

LEMMA DependenciesType == Dependencies \subseteq Connections \cup {"Zebedee"}
BY DEF Dependencies, Connections

LEMMA TypeStep ==
  ASSUME TypeOK, Next
  PROVE  TypeOK'
<1> USE DEF TypeOK
<1>1. ASSUME NEW c \in Clients, Get(c) PROVE TypeOK'
  BY <1>1, AfterGettingType DEF Get
<1>2. ASSUME NEW c \in Clients, GetFails(c) PROVE TypeOK'
  BY <1>2 DEF GetFails
<1>3. ASSUME Setup PROVE TypeOK'
  <2>1. routes' \in {"no", "read", "all"}
    BY <1>3 DEF Setup
  <2>2. "HealthCheck" \in Clients
    BY DEF Clients
  <2>3. QED
    BY <1>3, <2>1, <2>2 DEF Setup
<1>4. ASSUME RegisterCheckers PROVE TypeOK'
  BY <1>4, DependenciesType DEF RegisterCheckers
<1>5. ASSUME Serve PROVE TypeOK'
  BY <1>5 DEF Serve
<1>6. ASSUME NEW h \in Handlers, ReceiveRequest(h) PROVE TypeOK'
  BY <1>6 DEF ReceiveRequest
<1>7. ASSUME NEW h \in Handlers, FinishRequest(h) PROVE TypeOK'
  BY <1>7 DEF FinishRequest
<1>8. ASSUME ListenFails PROVE TypeOK'
  BY <1>8 DEF ListenFails
<1>9. ASSUME SendServiceError PROVE TypeOK'
  BY <1>9 DEF SendServiceError
<1>10. ASSUME Signal PROVE TypeOK'
  BY <1>10 DEF Signal
<1>11. ASSUME Select PROVE TypeOK'
  BY <1>11 DEF Select
<1>12. ASSUME Close PROVE TypeOK'
  <2>1. "HealthCheck" \in Clients
    BY DEF Clients
  <2>2. QED
    BY <1>12, <2>1 DEF Close
<1>13. ASSUME DeadlinePasses PROVE TypeOK'
  BY <1>13 DEF DeadlinePasses
<1>14. ASSUME Return PROVE TypeOK'
  BY <1>14 DEF Return
<1>15. ASSUME NEW c \in Clients, SkipClient(c) PROVE TypeOK'
  BY <1>15, AfterClosingType DEF SkipClient
<1>16. ASSUME NEW c \in Clients, CloseClient(c) PROVE TypeOK'
  BY <1>16, AfterClosingType DEF CloseClient
<1>17. ASSUME NEW c \in Clients, CloseClientFails(c) PROVE TypeOK'
  BY <1>17, AfterClosingType DEF CloseClientFails
<1>18. ASSUME ShutdownServer PROVE TypeOK'
  BY <1>18 DEF ShutdownServer
<1>19. ASSUME ServerIsShutDown PROVE TypeOK'
  BY <1>19, AfterClosingType DEF ServerIsShutDown
<1>20. ASSUME ShutdownFails PROVE TypeOK'
  BY <1>20, AfterClosingType DEF ShutdownFails
<1>21. ASSUME Verdict PROVE TypeOK'
  BY <1>21 DEF Verdict
<1>22. ASSUME Cancel PROVE TypeOK'
  BY <1>22 DEF Cancel
<1>23. QED
  BY <1>1, <1>2, <1>3, <1>4, <1>5, <1>6, <1>7, <1>8, <1>9, <1>10, <1>11, <1>12, <1>13, <1>14, <1>15, <1>16, <1>17, <1>18, <1>19, <1>20, <1>21, <1>22
     DEF Next, Run, Environment, Closer

USE DEF Clients, Connections

LEMMA StartStep ==
  ASSUME IInv, Next
  PROVE  StartInv' /\ MainInv'
<1> USE DEF IInv, TypeOK, StartInv, MainInv, Created, Opened, Dependencies
<1>1. ASSUME NEW c \in Clients, Get(c) PROVE StartInv' /\ MainInv'
  BY <1>1 DEF Get, AfterGetting
<1>2. ASSUME NEW c \in Clients, GetFails(c) PROVE StartInv' /\ MainInv'
  BY <1>2 DEF GetFails
<1>3. ASSUME Setup PROVE StartInv' /\ MainInv'
  BY <1>3 DEF Setup
<1>4. ASSUME RegisterCheckers PROVE StartInv' /\ MainInv'
  BY <1>4 DEF RegisterCheckers
<1>5. ASSUME Serve PROVE StartInv' /\ MainInv'
  BY <1>5 DEF Serve
<1>6. ASSUME NEW h \in Handlers, ReceiveRequest(h) PROVE StartInv' /\ MainInv'
  BY <1>6 DEF ReceiveRequest
<1>7. ASSUME NEW h \in Handlers, FinishRequest(h) PROVE StartInv' /\ MainInv'
  BY <1>7 DEF FinishRequest
<1>8. ASSUME ListenFails PROVE StartInv' /\ MainInv'
  BY <1>8 DEF ListenFails
<1>9. ASSUME SendServiceError PROVE StartInv' /\ MainInv'
  BY <1>9 DEF SendServiceError
<1>10. ASSUME Signal PROVE StartInv' /\ MainInv'
  BY <1>10 DEF Signal
<1>11. ASSUME Select PROVE StartInv' /\ MainInv'
  BY <1>11 DEF Select
<1>12. ASSUME Close PROVE StartInv' /\ MainInv'
  BY <1>12 DEF Close
<1>13. ASSUME DeadlinePasses PROVE StartInv' /\ MainInv'
  BY <1>13 DEF DeadlinePasses
<1>14. ASSUME Return PROVE StartInv' /\ MainInv'
  BY <1>14 DEF Return
<1>15. ASSUME NEW c \in Clients, SkipClient(c) PROVE StartInv' /\ MainInv'
  BY <1>15 DEF SkipClient, FlagTested, AfterClosing
<1>16. ASSUME NEW c \in Clients, CloseClient(c) PROVE StartInv' /\ MainInv'
  BY <1>16 DEF CloseClient, FlagTested, AfterClosing
<1>17. ASSUME NEW c \in Clients, CloseClientFails(c) PROVE StartInv' /\ MainInv'
  BY <1>17 DEF CloseClientFails, FlagTested, AfterClosing
<1>18. ASSUME ShutdownServer PROVE StartInv' /\ MainInv'
  BY <1>18 DEF ShutdownServer
<1>19. ASSUME ServerIsShutDown PROVE StartInv' /\ MainInv'
  BY <1>19 DEF ServerIsShutDown, AfterClosing
<1>20. ASSUME ShutdownFails PROVE StartInv' /\ MainInv'
  BY <1>20 DEF ShutdownFails, AfterClosing
<1>21. ASSUME Verdict PROVE StartInv' /\ MainInv'
  BY <1>21 DEF Verdict
<1>22. ASSUME Cancel PROVE StartInv' /\ MainInv'
  BY <1>22 DEF Cancel
<1>23. QED
  BY <1>1, <1>2, <1>3, <1>4, <1>5, <1>6, <1>7, <1>8, <1>9, <1>10, <1>11, <1>12, <1>13, <1>14, <1>15, <1>16, <1>17, <1>18, <1>19, <1>20, <1>21, <1>22
     DEF Next, Run, Environment, Closer

LEMMA CloserStep ==
  ASSUME IInv, Next
  PROVE  CloserInv'
<1> USE DEF IInv, TypeOK, StartInv, MainInv, CloserInv, Created, Ended, Opened, Drained
<1>1. ASSUME NEW c \in Clients, Get(c) PROVE CloserInv'
  BY <1>1 DEF Get, AfterGetting
<1>2. ASSUME NEW c \in Clients, GetFails(c) PROVE CloserInv'
  BY <1>2 DEF GetFails
<1>3. ASSUME Setup PROVE CloserInv'
  BY <1>3 DEF Setup
<1>4. ASSUME RegisterCheckers PROVE CloserInv'
  BY <1>4 DEF RegisterCheckers
<1>5. ASSUME Serve PROVE CloserInv'
  BY <1>5 DEF Serve
<1>6. ASSUME NEW h \in Handlers, ReceiveRequest(h) PROVE CloserInv'
  BY <1>6 DEF ReceiveRequest
<1>7. ASSUME NEW h \in Handlers, FinishRequest(h) PROVE CloserInv'
  BY <1>7 DEF FinishRequest
<1>8. ASSUME ListenFails PROVE CloserInv'
  BY <1>8 DEF ListenFails
<1>9. ASSUME SendServiceError PROVE CloserInv'
  BY <1>9 DEF SendServiceError
<1>10. ASSUME Signal PROVE CloserInv'
  BY <1>10 DEF Signal
<1>11. ASSUME Select PROVE CloserInv'
  BY <1>11 DEF Select
<1>12. ASSUME Close PROVE CloserInv'
  BY <1>12 DEF Close
<1>13. ASSUME DeadlinePasses PROVE CloserInv'
  BY <1>13 DEF DeadlinePasses
<1>14. ASSUME Return PROVE CloserInv'
  BY <1>14 DEF Return
<1>15. ASSUME NEW c \in Clients, SkipClient(c) PROVE CloserInv'
  BY <1>15 DEF SkipClient, FlagTested, AfterClosing
<1>16. ASSUME NEW c \in Clients, CloseClient(c) PROVE CloserInv'
  BY <1>16 DEF CloseClient, FlagTested, AfterClosing
<1>17. ASSUME NEW c \in Clients, CloseClientFails(c) PROVE CloserInv'
  BY <1>17 DEF CloseClientFails, FlagTested, AfterClosing
<1>18. ASSUME ShutdownServer PROVE CloserInv'
  BY <1>18 DEF ShutdownServer
<1>19. ASSUME ServerIsShutDown PROVE CloserInv'
  BY <1>19 DEF ServerIsShutDown, AfterClosing
<1>20. ASSUME ShutdownFails PROVE CloserInv'
  BY <1>20 DEF ShutdownFails, AfterClosing
<1>21. ASSUME Verdict PROVE CloserInv'
  BY <1>21 DEF Verdict
<1>22. ASSUME Cancel PROVE CloserInv'
  BY <1>22 DEF Cancel
<1>23. QED
  BY <1>1, <1>2, <1>3, <1>4, <1>5, <1>6, <1>7, <1>8, <1>9, <1>10, <1>11, <1>12, <1>13, <1>14, <1>15, <1>16, <1>17, <1>18, <1>19, <1>20, <1>21, <1>22
     DEF Next, Run, Environment, Closer

LEMMA VerdictStep ==
  ASSUME IInv, Next
  PROVE  VerdictInv'
<1> USE DEF IInv, TypeOK, StartInv, MainInv, CloserInv, VerdictInv, Created, Ended, Opened, Drained
<1>1. ASSUME NEW c \in Clients, Get(c) PROVE VerdictInv'
  BY <1>1 DEF Get, AfterGetting
<1>2. ASSUME NEW c \in Clients, GetFails(c) PROVE VerdictInv'
  BY <1>2 DEF GetFails
<1>3. ASSUME Setup PROVE VerdictInv'
  BY <1>3 DEF Setup
<1>4. ASSUME RegisterCheckers PROVE VerdictInv'
  BY <1>4 DEF RegisterCheckers
<1>5. ASSUME Serve PROVE VerdictInv'
  BY <1>5 DEF Serve
<1>6. ASSUME NEW h \in Handlers, ReceiveRequest(h) PROVE VerdictInv'
  BY <1>6 DEF ReceiveRequest
<1>7. ASSUME NEW h \in Handlers, FinishRequest(h) PROVE VerdictInv'
  BY <1>7 DEF FinishRequest
<1>8. ASSUME ListenFails PROVE VerdictInv'
  BY <1>8 DEF ListenFails
<1>9. ASSUME SendServiceError PROVE VerdictInv'
  BY <1>9 DEF SendServiceError
<1>10. ASSUME Signal PROVE VerdictInv'
  BY <1>10 DEF Signal
<1>11. ASSUME Select PROVE VerdictInv'
  BY <1>11 DEF Select
<1>12. ASSUME Close PROVE VerdictInv'
  BY <1>12 DEF Close
<1>13. ASSUME DeadlinePasses PROVE VerdictInv'
  BY <1>13 DEF DeadlinePasses
<1>14. ASSUME Return PROVE VerdictInv'
  <2>0. PICK read \in {gracefulShutdown} \cup (IF ctx = "expired" THEN {FALSE} ELSE {}) :
             Exit(IF read THEN "graceful" ELSE "failed")
    BY <1>14, Zenon DEF Return
  <2>1. outcome' = "graceful" => gracefulShutdown
    <3>1. CASE read = gracefulShutdown
      BY <2>0, <3>1
    <3>2. CASE read = FALSE
      BY <2>0, <3>2
    <3>3. QED
      BY <2>0, <3>1, <3>2, Zenon
  <2>2. outcome' = "failed" => ~gracefulShutdown \/ ctx = "expired"
    BY <1>14 DEF Return
  <2>3. outcome' \in {"graceful", "failed"}
    BY <2>0
  <2>4. ctx = "cancelled" => closer = "done"
    OBVIOUS
  <2>5. QED
    BY <1>14, <2>1, <2>2, <2>3, <2>4 DEF Return
<1>15. ASSUME NEW c \in Clients, SkipClient(c) PROVE VerdictInv'
  BY <1>15 DEF SkipClient, FlagTested, AfterClosing
<1>16. ASSUME NEW c \in Clients, CloseClient(c) PROVE VerdictInv'
  BY <1>16 DEF CloseClient, FlagTested, AfterClosing
<1>17. ASSUME NEW c \in Clients, CloseClientFails(c) PROVE VerdictInv'
  BY <1>17 DEF CloseClientFails, FlagTested, AfterClosing
<1>18. ASSUME ShutdownServer PROVE VerdictInv'
  BY <1>18 DEF ShutdownServer
<1>19. ASSUME ServerIsShutDown PROVE VerdictInv'
  BY <1>19 DEF ServerIsShutDown, AfterClosing
<1>20. ASSUME ShutdownFails PROVE VerdictInv'
  BY <1>20 DEF ShutdownFails, AfterClosing
<1>21. ASSUME Verdict PROVE VerdictInv'
  BY <1>21 DEF Verdict
<1>22. ASSUME Cancel PROVE VerdictInv'
  BY <1>22 DEF Cancel
<1>23. QED
  BY <1>1, <1>2, <1>3, <1>4, <1>5, <1>6, <1>7, <1>8, <1>9, <1>10, <1>11, <1>12, <1>13, <1>14, <1>15, <1>16, <1>17, <1>18, <1>19, <1>20, <1>21, <1>22
     DEF Next, Run, Environment, Closer

-----------------------------------------------------------------------------
(* The theorems                                                             *)

LEMMA Start == Init => IInv
<1> SUFFICES ASSUME Init PROVE IInv
  OBVIOUS
<1> USE DEF Init
<1>1. TypeOK
  <2>1. main \in Clients /\ closer = "none" /\ ctx = "none"
    OBVIOUS
  <2>2. client \in [Clients -> {"nil", "open", "closed", "failed"}]
    OBVIOUS
  <2>3. svcErrors \in 0..1 /\ signals \in 0..1
    OBVIOUS
  <2>4. isPublishing \in BOOLEAN /\ hasShutdownError \in BOOLEAN /\ gracefulShutdown \in BOOLEAN
    OBVIOUS
  <2>5. flags = {} /\ checks = {} /\ running = {} /\ routes = "no" /\ server = "none" /\ outcome = "none"
    OBVIOUS
  <2>6. QED
    BY <2>1, <2>2, <2>3, <2>4, <2>5 DEF TypeOK
<1>2. StartInv /\ MainInv
  BY DEF StartInv, MainInv, Created, Opened
<1>3. CloserInv /\ VerdictInv
  BY DEF CloserInv, VerdictInv, Ended, Drained
<1>4. QED
  BY <1>1, <1>2, <1>3 DEF IInv

\* What the start leaves, what each stage of Close leaves and what Close
\* reports, together: an invariant of every run of the service.
THEOREM Invariance == Spec => []IInv
<1>1. IInv /\ [Next]_vars => IInv'
  <2> SUFFICES ASSUME IInv, [Next]_vars PROVE IInv'
    OBVIOUS
  <2>1. CASE Next
    BY <2>1, TypeStep, StartStep, CloserStep, VerdictStep DEF IInv
  <2>2. CASE UNCHANGED vars
    BY <2>2 DEF vars, IInv, TypeOK, StartInv, MainInv, CloserInv, VerdictInv, Created, Ended,
                Opened, Drained, Dependencies
  <2>3. QED
    BY <2>1, <2>2
<1>2. QED
  BY Start, <1>1, PTL DEF Spec

\* Every variable keeps its type.
THEOREM TypeCorrect == Spec => []TypeOK
<1>1. IInv => TypeOK
  BY DEF IInv
<1>2. QED
  BY <1>1, Invariance, PTL

\* Close reports a graceful shutdown only if no handler was cut off and every
\* client was closed without an error (service.go, Close).
THEOREM GracefulIsComplete == Spec => []GracefulMeansComplete
<1>1. IInv => GracefulMeansComplete
  BY DEF IInv, TypeOK, MainInv, CloserInv, VerdictInv, Drained, GracefulMeansComplete
<1>2. QED
  BY <1>1, Invariance, PTL

\* Close reports a failure only if a call failed or the deadline has passed.
THEOREM FailuresHaveCauses == Spec => []FailureHasCause
<1>1. IInv => FailureHasCause
  BY DEF IInv, VerdictInv, FailureHasCause
<1>2. QED
  BY <1>1, Invariance, PTL

\* At the end of its goroutine, Close has tried to close everything.
THEOREM EverythingIsClosed == Spec => []NothingLeftOpen
<1>1. IInv => NothingLeftOpen
  BY DEF IInv, CloserInv, Drained, NothingLeftOpen
<1>2. QED
  BY <1>1, Invariance, PTL

\* Close calls no client that Run did not create.
THEOREM NoPanic == Spec => []NoNilClient
<1>1. IInv => NoNilClient
  BY DEF IInv, VerdictInv, NoNilClient
<1>2. QED
  BY <1>1, Invariance, PTL

\* A handler in flight loses its connections only after Shutdown failed.
THEOREM ConnectionsOutliveHandlers == Spec => []HandlersKeepConnections
<1>1. IInv => HandlersKeepConnections
  BY DEF IInv, TypeOK, CloserInv, Ended, Drained, HandlersKeepConnections
<1>2. QED
  BY <1>1, Invariance, PTL

\* The health check stops before any connection that it probes is closed.
THEOREM CheckIsFirst == Spec => []CheckStopsFirst
<1>1. IInv => CheckStopsFirst
  BY DEF IInv, TypeOK, CloserInv, Ended, CheckStopsFirst
<1>2. QED
  BY <1>1, Invariance, PTL

\* A handler runs only with the clients that its routes need.
THEOREM ClientsAreReady == Spec => []HandlersHaveClients
<1>1. IInv => HandlersHaveClients
  BY DEF IInv, TypeOK, StartInv, MainInv, Created, Opened, HandlersHaveClients
<1>2. QED
  BY <1>1, Invariance, PTL

\* The service serves only while each of its connections is monitored.
THEOREM Monitored == Spec => []ServedOnlyWhenMonitored
<1>1. IInv => ServedOnlyWhenMonitored
  BY DEF IInv, TypeOK, StartInv, MainInv, Created, Dependencies, ServedOnlyWhenMonitored
<1>2. QED
  BY <1>1, Invariance, PTL
=============================================================================
