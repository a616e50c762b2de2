--------------------------- MODULE SerialDelivery ---------------------------
(***************************************************************************)
(* What the conflation and dispatching pipeline promises the handlers of   *)
(* the db syncers, without units, queues, dispatcher or workers: of every  *)
(* type of every leaf hub the newest bundle is kept until it is handled,   *)
(* the bundles of one leaf hub are handled one at a time, each is newer    *)
(* than what was handled, and after the bundle it depends on.              *)
(***************************************************************************)
EXTENDS ConflationUnit

CONSTANTS
    LeafHubs,   \* the leaf hubs
    bundles     \* bundles[p]: what a leaf hub may send as bundles of type p

ASSUME DeliveryAssumption == bundles \in [Priorities -> SUBSET Bundle]

VARIABLES
    held,       \* held[lh][p]: the newest bundle not yet processed, or Nil
    processed,  \* processed[lh][p]: the newest generation processed
    active,     \* active[lh]: the bundles of lh a handler works on
    stored      \* stored[lh][p]: generation last written to the database

sdVars == <<held, processed, active, stored>>

Activity == [priority : Priorities, bundle : Bundle]

SDInit ==
    /\ held = [lh \in LeafHubs |-> [p \in Priorities |-> Nil]]
    /\ processed = [lh \in LeafHubs |-> [p \in Priorities |-> 0]]
    /\ active = [lh \in LeafHubs |-> {}]
    /\ stored = [lh \in LeafHubs |-> [p \in Priorities |-> 0]]

-----------------------------------------------------------------------------
\* A bundle newer than everything processed and held replaces the held one.
Receive(lh, p, b) ==
    /\ b.generation > processed[lh][p]
    /\ held[lh][p] # Nil => b.generation > held[lh][p].generation
    /\ held' = [held EXCEPT ![lh][p] = b]
    /\ UNCHANGED <<processed, active, stored>>

\* The handler of type p is called with the held bundle: no other handler works
\* for the leaf hub and the generation the bundle depends on was processed.
Start(lh, p) ==
    /\ active[lh] = {}
    /\ held[lh][p] # Nil
    /\ dependency[p] # Nil =>
           held[lh][p].dependencyGeneration <= processed[lh][dependency[p]]
    /\ active' = [active EXCEPT ![lh] = {[priority |-> p, bundle |-> held[lh][p]]}]
    /\ UNCHANGED <<held, processed, stored>>

\* The handler working on a writes its bundle.
Store(lh, a) ==
    /\ a \in active[lh]
    /\ stored' = [stored EXCEPT ![lh][a.priority] = a.bundle.generation]
    /\ UNCHANGED <<held, processed, active>>

\* The handler returns nil: a bundle it wrote is processed, and forgotten
\* unless a newer one was received.
Succeed(lh, a) ==
    /\ a \in active[lh]
    /\ stored[lh][a.priority] = a.bundle.generation
    /\ processed' = [processed EXCEPT ![lh][a.priority] = a.bundle.generation]
    /\ held' = [held EXCEPT ![lh][a.priority] =
                   IF @.generation = a.bundle.generation THEN Nil ELSE @]
    /\ active' = [active EXCEPT ![lh] = {}]
    /\ UNCHANGED stored

\* The handler returns an error: the bundle stays, to be handled again.
Fail(lh) ==
    /\ active[lh] # {}
    /\ active' = [active EXCEPT ![lh] = {}]
    /\ UNCHANGED <<held, processed, stored>>

SDNext ==
    \E lh \in LeafHubs :
        \/ \E p \in Priorities : (\E b \in bundles[p] : Receive(lh, p, b)) \/ Start(lh, p)
        \/ \E a \in active[lh] : Store(lh, a) \/ Succeed(lh, a)
        \/ Fail(lh)

SDSpec == SDInit /\ [][SDNext]_sdVars
=============================================================================
