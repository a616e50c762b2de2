--------------------------- MODULE ConflationUnit ---------------------------
(***************************************************************************)
(* What a conflation unit knows about its bundles (pkg/conflator).         *)
(*                                                                         *)
(* There is one conflation unit per leaf hub.  Its priorityQueue is an     *)
(* array with one conflation element per registered bundle type, indexed   *)
(* by the priority the type was registered with.  Types and priorities are *)
(* in one to one correspondence (bundleTypeToPriority), so a type is named *)
(* here by its priority.  This module has no variables: it defines the     *)
(* data of a unit and the questions its methods ask about a priorityQueue. *)
(***************************************************************************)
EXTENDS Integers

CONSTANTS
    Priorities,      \* the indices of priorityQueue
    dependency,      \* dependency[p]: what p's registration depends on, or Nil
    DependantTypes,  \* the types whose bundles implement DependantBundle
    MetadataRefs,    \* addresses of BundleMetadata objects
    Nil              \* Go's nil

\* A bundle is known by its generation and by the generation it needs its
\* dependency to have (BaseBundleGeneration); its objects are abstracted.
Bundle == [generation : Nat, dependencyGeneration : Nat]

ASSUME UnitAssumption ==
    /\ Priorities \subseteq Nat
    /\ dependency \in [Priorities -> Priorities \cup {Nil}]
    /\ DependantTypes \subseteq Priorities
    /\ Nil \notin Nat
    /\ Nil \notin Bundle
    /\ Nil \notin MetadataRefs

\* conflationElement: the newest bundle that still has to be processed, the
\* address of its metadata, and what the unit remembers of earlier bundles.
Element == [bundle : Bundle \cup {Nil},
            bundleMetadata : MetadataRefs \cup {Nil},
            isInProcess : BOOLEAN,
            lastProcessedBundleGeneration : Nat]

\* newConflationUnit: nothing received, no generation was processed yet.
EmptyElement == [bundle |-> Nil, bundleMetadata |-> Nil, isInProcess |-> FALSE,
                 lastProcessedBundleGeneration |-> 0]

PriorityQueue == [Priorities -> Element]

-----------------------------------------------------------------------------
\* Mutants of IsNewer: insert forgets one of its two checks.
IsNewerThanHeld(e, b) == e.bundle # Nil => b.generation > e.bundle.generation
IsNewerThanProcessed(e, b) == b.generation > e.lastProcessedBundleGeneration

\* The conditions of insert: b is newer than every bundle of its type that was
\* processed and than the one in memory.
IsNewer(e, b) ==
    /\ b.generation > e.lastProcessedBundleGeneration
    /\ e.bundle # Nil => b.generation > e.bundle.generation

\* isInProcess of the unit: some element is.
UnitInProcess(pq) == \E p \in Priorities : pq[p].isInProcess

\* isCurrentOrAnyDependencyInProcess: follows the chain of dependencies.
IsCurrentOrAnyDependencyInProcess(pq, p) ==
    LET inProcess[q \in Priorities] ==
            \/ pq[q].isInProcess
            \/ dependency[q] # Nil /\ inProcess[dependency[q]]
    IN  inProcess[p]

\* Mutant of CheckDependency: off by one, the base before the needed one will do.
CheckPreviousDependency(pq, p) ==
    dependency[p] # Nil =>
        /\ p \in DependantTypes
        /\ pq[p].bundle.dependencyGeneration
               <= pq[dependency[p]].lastProcessedBundleGeneration + 1

\* checkDependency: the generation the bundle needs of its dependency was
\* processed.  A bundle that cannot say which generation it needs is not ready.
CheckDependency(pq, p) ==
    dependency[p] # Nil =>
        /\ p \in DependantTypes
        /\ pq[p].bundle.dependencyGeneration
               <= pq[dependency[p]].lastProcessedBundleGeneration

IsReady(pq, p) ==
    /\ pq[p].bundle # Nil
    /\ ~IsCurrentOrAnyDependencyInProcess(pq, p)
    /\ CheckDependency(pq, p)

\* invalidPriority is returned exactly when this is false.
HasReadyBundle(pq) == \E p \in Priorities : IsReady(pq, p)

\* getNextReadyBundlePriority: the first ready element in priority order.
IsNextReady(pq, p) ==
    /\ IsReady(pq, p)
    /\ \A q \in Priorities : IsReady(pq, q) => p <= q
=============================================================================
