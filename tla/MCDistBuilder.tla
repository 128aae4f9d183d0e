--------------------------- MODULE MCDistBuilder ---------------------------
(* DistBuilder on its own, over lists of up to two groups, checked         *)
(* against what the usage text promises for "dist-other-package".         *)
EXTENDS DistBuilder

CONSTANT DistInputs

Init == dgs \in DistInputs /\ DistInit

Terminated == dphase \in {"done", "error"} /\ UNCHANGED distVars

Next == DistStart \/ DistPair \/ Terminated

Spec == Init /\ [][Next]_distVars /\ WF_distVars(DistStart \/ DistPair)

\* The abstraction, for its definition of an override.
Abs == INSTANCE DistsAbstract WITH
         ags <- dgs,
         atable <- IF dphase = "done" THEN dd ELSE <<>>,
         aphase <- IF dphase = "pairs" THEN "idle" ELSE dphase,
         aerr <- derr

\* Every pair of distinct nodes in different packages gets the effective
\* "dist-other-package" (usage text: "the default distance between NUMA
\* nodes in other packages", settable from any group).
OtherPackageHonoured ==
    dphase = "done" /\ DistMatrix(dgs) = Absent =>
    \A s, t \in NodeIds(dgs) :
        s # t /\ NodePackageDie(dgs)[s][1] # NodePackageDie(dgs)[t][1]
              /\ ~Abs!Override(dgs, s, t) /\ ~Abs!Override(dgs, t, s)
        => dd[s][t] = LastSet(dgs, "distotherpackage", DEFAULT_DIST)

\* Group shapes: same die, two dies, two packages with an override map
\* (one key out of range), conflicting overrides, full matrices of the
\* right and the wrong size, an asymmetric matrix.
Shapes == {
    Group([nodes |-> 2]),
    Group([dies |-> 2, distsamepackage |-> 15]),
    Group([packages |-> 2, nodedist |-> (0 :> 30 @@ 2 :> 40 @@ 7 :> 50)]),
    Group([distsamedie |-> 12, nodedist |-> (1 :> 33 @@ 0 :> 31)]),
    Group([distall |-> << <<10, 20>>, <<20, 10>> >>]),
    Group([nodes |-> 2, distall |-> << <<10, 17>>, <<19, 10>> >>])}

\* The same with a group that sets "dist-other-package".
OtherShapes == Shapes \cup {Group([packages |-> 2, distotherpackage |-> 30])}
OtherLists == BoundedSeq(OtherShapes, 2)
=============================================================================
