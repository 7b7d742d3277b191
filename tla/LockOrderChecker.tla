-------------------------- MODULE LockOrderChecker --------------------------
(***************************************************************************)
(* The lock-order checker of Playground/LockOrderChecker/main.cpp.  Every  *)
(* Mutex::lock() adds an edge from the mutex locked last to the new one to *)
(* one global graph and then looks for a cycle, starting from the mutex    *)
(* that was ever locked first.  ScopedLock releases in reverse order, and  *)
(* the program has one thread, as main() has: Mutex excludes nobody.       *)
(***************************************************************************)
EXTENDS Naturals, Sequences, FiniteSets

CONSTANTS Mutexes,
          None,             \* no root node yet
          MaxHeld           \* bound: locks held at a time

\* What the definitions take for granted.
LockOrderParameters ==
    IsFiniteSet(Mutexes) /\ None \notin Mutexes /\ MaxHeld \in Nat

VARIABLES mRootNode, mNodes,
          children,         \* of each node: Node<T> is a set of nodes
          mLastNodes,       \* the locks held, the last one at the end
          detected,         \* whether the last push printed its warning
          nested            \* history: <<x, y>> when y was locked under x

vars == <<mRootNode, mNodes, children, mLastNodes, detected, nested>>

TypeOK ==
    /\ mNodes \subseteq Mutexes
    /\ mRootNode \in IF mNodes = {} THEN {None} ELSE mNodes
    /\ children \in [Mutexes -> SUBSET Mutexes]
    /\ mLastNodes \in Seq(mNodes)
    /\ detected \in BOOLEAN
    /\ nested \subseteq Mutexes \X Mutexes

Init ==
    /\ mRootNode = None
    /\ mNodes = {}
    /\ children = [m \in Mutexes |-> {}]
    /\ mLastNodes = << >>
    /\ detected = FALSE
    /\ nested = {}

\* FindCycle(inNode, inPreceding): depth first, with the path by value.  The
\* order in which a std::set of pointers lists the children does not matter.
FindCycle(graph) ==
    LET find[call \in Mutexes \X SUBSET Mutexes] ==
            \E child \in graph[call[1]] :
                \/ child \in call[2]
                \/ find[<<child, call[2] \cup {call[1]}>>]
    IN  find

\* Mutation: the edge is drawn from the outermost of the locks held.
LockFromOutermost(m) ==
    /\ Len(mLastNodes) < MaxHeld
    /\ mNodes' = mNodes \cup {m}
    /\ mRootNode' = IF mNodes = {} THEN m ELSE mRootNode
    /\ children' = IF mLastNodes = << >>
                     THEN children
                     ELSE [children EXCEPT ![mLastNodes[1]] = @ \cup {m}]
    /\ mLastNodes' = Append(mLastNodes, m)
    /\ detected' = FindCycle(children')[<<mRootNode', {}>>]
    /\ nested' = nested \cup {<<mLastNodes[i], m>> : i \in DOMAIN mLastNodes}

\* Mutex::lock(): Graph::push() and HasCycles().
Lock(m) ==
    /\ Len(mLastNodes) < MaxHeld
    /\ mNodes' = mNodes \cup {m}
    /\ mRootNode' = IF mNodes = {} THEN m ELSE mRootNode
    /\ children' = IF mLastNodes = << >>
                     THEN children
                     ELSE [children EXCEPT
                             ![mLastNodes[Len(mLastNodes)]] = @ \cup {m}]
    /\ mLastNodes' = Append(mLastNodes, m)
    /\ detected' = FindCycle(children')[<<mRootNode', {}>>]
    /\ nested' = nested \cup {<<mLastNodes[i], m>> : i \in DOMAIN mLastNodes}

\* Mutex::unlock(): Graph::pop() asserts that it is the lock taken last.
Unlock ==
    /\ mLastNodes # << >>
    /\ mLastNodes' = SubSeq(mLastNodes, 1, Len(mLastNodes) - 1)
    /\ UNCHANGED <<mRootNode, mNodes, children, detected, nested>>

Next == (\E m \in Mutexes : Lock(m)) \/ Unlock

Spec == Init /\ [][Next]_vars
-----------------------------------------------------------------------------
(* Properties: what is reported, compared with the order in which locks were *)
(* really nested                                                             *)

\* The mutexes that were taken while m was held, or while one of them was: the
\* least set that has whatever was taken under m or under a member of the set.
TakenUnder(m) ==
    {y \in Mutexes : \A set \in SUBSET Mutexes :
        (\A p \in nested : p[1] \in set \cup {m} => p[2] \in set) => y \in set}

\* Mutexes that were taken in inconsistent order: each under the other, or
\* around a longer circle, or one of them again under itself.
Inconsistent == {m \in Mutexes : m \in TakenUnder(m)}

FromRoot == {mRootNode} \cup TakenUnder(mRootNode)

\* The search from the first mutex reports every inconsistency among the
\* mutexes that were ever taken under it, although an edge is recorded from
\* the innermost lock only; what cannot be reached from there is missed.  In
\* particular nothing is reported that is not a real inconsistency.
ReportsWhatRootReaches == detected <=> Inconsistent \cap FromRoot # {}
=============================================================================
