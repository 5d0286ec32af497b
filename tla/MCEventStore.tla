---------------------------- MODULE MCEventStore ----------------------------
(* A small instance of the event queue on either backend: two rows of one   *)
(* session, and one of another session that does not decode.  A behaviour   *)
(* is of one backend.                                                       *)
EXTENDS MongoEventStore, TLC

VARIABLE backend

MCEvents    == 1..3
MCSessions  == {"s1", "s2"}
TwoSessions == [e \in MCEvents |-> IF e = 3 THEN "s2" ELSE "s1"]
WorkerSymmetry == Permutations(Workers)

StoreInit == MongoInit /\ backend \in {"sqlite", "mongodb"}

\* Bounds of the instance on MongoDB: the workers begin when rows 1 and 2, or
\* row 3, are stored and acknowledged, each has one call at a time, which starts
\* without a delay, and their clock stops at MongoTime.
MongoTime == 2

Storing ==
    /\ calls' = {} /\ lease' = NoLease /\ clock' = 0
    /\ \A e \in Events : attempts[e] = 0
    /\ \A s \in stores' : s.place <= 2

Serving ==
    /\ stores = {} /\ recv \in {<<1, 2, 0>>, <<0, 0, 1>>}
    /\ \A e \in Events : recv[e] # 0 => e \in acked
    /\ clock' <= MongoTime
    /\ \A c, d \in calls' : c.worker = d.worker => c = d
    /\ Cardinality(calls) < Cardinality(calls')
          => \A c \in calls' \ calls : c.time = clock

StoreNext ==
    /\ \/ backend = "sqlite" /\ Next /\ UNCHANGED mongoVars
       \/ backend = "mongodb" /\ MongoNext /\ (Storing \/ Serving)
    /\ UNCHANGED backend

StoreSpec == StoreInit /\ [][StoreNext]_<<storeVars, mongoVars, backend>>
=============================================================================
