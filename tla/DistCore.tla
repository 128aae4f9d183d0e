------------------------------ MODULE DistCore ------------------------------
(***************************************************************************)
(* The distance matrix builder dists() of topology2qemuopts.py, as pure   *)
(* operators.  The first pass (one walk over the groups) is a set of      *)
(* definitions over the group list; the second pass is PairStep, the body *)
(* of the loop over ordered node pairs; the module DistBuilder runs it    *)
(* one pair per step.                                                      *)
(***************************************************************************)
EXTENDS Groups, SequencesExt

DEFAULT_DIST == 21
DEFAULT_DIST_SAME_PACKAGE == 21
DEFAULT_DIST_SAME_DIE == 11
DEFAULT_DIST_SAME_NODE == 10

Unset == -1   \* destnode not yet in dist_dict[sourcenode]

\* ---- first pass ----------------------------------------------------------
\* Node ids are handed out group by group, packages outermost, nodes
\* innermost; every group with nodes starts a new package ("lastsocket").
NodeCount(gs) == SeqSum(NodesOf, gs)
GroupStart(gs, i) == SeqSum(NodesOf, SubSeq(gs, 1, i - 1))
PackagesBefore(gs, i) ==
    SeqSum(LAMBDA g : IF Get(g, "nodes", 1) > 0 THEN Get(g, "packages", 1) ELSE 0,
           SubSeq(gs, 1, i - 1))
GroupOf(gs, n) ==
    CHOOSE i \in 1..Len(gs) : GroupStart(gs, i) <= n /\ n < GroupStart(gs, i + 1)

\* node_package_die[node] = (lastsocket, die)
NodePackageDie(gs) ==
    [n \in 0..NodeCount(gs) - 1 |->
        LET i == GroupOf(gs, n)
            g == gs[i]
            r == n - GroupStart(gs, i)
            nodes == Get(g, "nodes", 1)
            dies == Get(g, "dies", 1)
        IN  <<PackagesBefore(gs, i) + r \div (dies * nodes), (r \div nodes) % dies>>]

\* The value of key k in the last group that sets it, else d.
LastSet(gs, k, d) ==
    IF \E i \in 1..Len(gs) : gs[i][k] # Absent
    THEN gs[CHOOSE i \in 1..Len(gs) : gs[i][k] # Absent /\
                     \A j \in i + 1..Len(gs) : gs[j][k] = Absent][k]
    ELSE d

DistSameDie(gs) == LastSet(gs, "distsamedie", DEFAULT_DIST_SAME_DIE)
DistSamePackage(gs) == LastSet(gs, "distsamepackage", DEFAULT_DIST_SAME_PACKAGE)
\* dist_other_package is initialised to DEFAULT_DIST and never assigned:
\* the loop reads a "dist" key instead of "dist-other-package".
DistOtherPackage(gs) == DEFAULT_DIST
DistMatrix(gs) == LastSet(gs, "distall", Absent)

\* node_node_dist: every node of a group with "node-dist" gets that map.
NodeNodeDist(gs) ==
    [n \in {m \in 0..NodeCount(gs) - 1 : gs[GroupOf(gs, m)].nodedist # Absent} |->
        gs[GroupOf(gs, n)].nodedist]

\* ---- second pass ---------------------------------------------------------
\* Mutant: an explicit override is written in one direction only.
PairStepOneWay(gs, d, s, t) ==
    LET nnd == NodeNodeDist(gs)
        npd == NodePackageDie(gs)
    IN
    IF s = t THEN [d EXCEPT ![s][t] = DEFAULT_DIST_SAME_NODE]
    ELSE IF s \in DOMAIN nnd /\ t \in DOMAIN nnd[s]
    THEN [d EXCEPT ![s][t] = nnd[s][t]]
    ELSE IF d[s][t] = Unset
    THEN [d EXCEPT ![s][t] = IF npd[s] = npd[t] THEN DistSameDie(gs)
                             ELSE IF npd[s][1] = npd[t][1] THEN DistSamePackage(gs)
                             ELSE DistOtherPackage(gs)]
    ELSE d

\* One iteration of the loop over (sourcenode, destnode).
PairStep(gs, d, s, t) ==
    LET nnd == NodeNodeDist(gs)
        npd == NodePackageDie(gs)
    IN
    IF s = t THEN [d EXCEPT ![s][t] = DEFAULT_DIST_SAME_NODE]
    ELSE IF s \in DOMAIN nnd /\ t \in DOMAIN nnd[s]
    THEN [d EXCEPT ![s][t] = nnd[s][t], ![t][s] = nnd[s][t]]
    ELSE IF d[s][t] = Unset
    THEN [d EXCEPT ![s][t] = IF npd[s] = npd[t] THEN DistSameDie(gs)
                             ELSE IF npd[s][1] = npd[t][1] THEN DistSamePackage(gs)
                             ELSE DistOtherPackage(gs)]
    ELSE d

NodeIds(gs) == 0..NodeCount(gs) - 1
EmptyDists(gs) == [s \in NodeIds(gs) |-> [t \in NodeIds(gs) |-> Unset]]

\* The "dist-all" branch: row count, then each row's length, then a copy.
MatrixError(gs, m) ==
    \/ Len(m) # NodeCount(gs)
    \/ \E r \in 1..Len(m) : Len(m[r]) # NodeCount(gs)
MatrixDists(gs, m) == [s \in NodeIds(gs) |-> [t \in NodeIds(gs) |-> m[s + 1][t + 1]]]

=============================================================================
