-------------------------- MODULE ImageLockExpiry --------------------------
(***************************************************************************)
(* ImageAPI without two assumptions that the code does not enforce: that a *)
(* lock outlives the handler that holds it, and that a write has reached   *)
(* the server by the time its error is returned.  Here the lock of a slow  *)
(* handler may expire while the handler goes on, and the write of a call   *)
(* that timed out may arrive at any later moment, or never.  Both count as *)
(* faults.  The module shows which promises of the handlers rest on the    *)
(* lock and which do not.                                                  *)
(***************************************************************************)
EXTENDS ImageAPI

VARIABLE late       \* writes under way whose handler has given up on them

looseVars == <<vars, late>>

\* The write of a request; fault tells it from an equal one of another call.
LateWrite == [req : Requests, seen : Image \cup {NoImage}, fault : 1..MaxFaults]

LooseTypeOK == TypeOK /\ late \subseteq LateWrite

LooseInit == Init /\ late = {}

-----------------------------------------------------------------------------

\* External: the lock library drops a lock that was held for too long.  Its
\* holder does not notice.
ExpireHeldLock(i) ==
    /\ lock[i] \in Workers
    /\ Fault
    /\ lock' = [lock EXCEPT ![i] = Free]
    /\ UNCHANGED <<db, worker, events, late>>

\* The query times out and the handler answers while its write is under way.
StoreImageTimesOut(w) ==
    /\ pc[w] = "write"
    /\ Fault
    /\ late' = late \cup {[req |-> req[w], seen |-> seen[w], fault |-> faults']}
    /\ Goto(w, AfterWrite(req[w]))
    /\ Answer(w, "ErrMongo")
    /\ UNCHANGED <<db, lock, req, seen, todo, events>>

DeliverLate(m) ==
    LET i == m.req.image IN
    /\ db' = [db EXCEPT ![i] = Written(m.req, m.seen, db[i])]
    /\ late' = late \ {m}
    /\ UNCHANGED <<lock, worker, events, faults>>

\* An id whose creation is still under way is not generated again.
NewIDsAreNew ==
    \A w \in Workers, m \in late :
        (pc[w] = "idle" /\ req'[w] # NoRequest /\ req'[w].op = "CreateImage")
            => req'[w].image # m.req.image

LooseNext ==
    \/ Next /\ NewIDsAreNew /\ UNCHANGED late
    \/ \E i \in Images : ExpireHeldLock(i)
    \/ \E w \in Workers : StoreImageTimesOut(w)
    \/ \E m \in late : DeliverLate(m)

LooseSpec == LooseInit /\ [][LooseNext]_looseVars

-----------------------------------------------------------------------------

\* A variant is published again only after a fault, once for each: a lock that
\* expires, or a write that comes late, lets at most one more publish request
\* find the image not yet published.
PublishedAgainOncePerFault ==
    \A i \in Images : \A v \in Variants : publishes[i][v] <= 1 + faults
=============================================================================
