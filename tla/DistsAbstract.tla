--------------------------- MODULE DistsAbstract ---------------------------
(***************************************************************************)
(* What dists() promises (spec 4.4 and the usage text of                   *)
(* topology2qemuopts.py): in one step, the table for the whole node set.  *)
(* With "dist-all" the matrix verbatim, if its dimensions match.          *)
(* Otherwise 10 to itself; an explicit "node-dist" value, applied to both *)
(* directions (when both nodes give one, the higher-numbered node's       *)
(* wins); else "dist-same-die" on the same die, "dist-same-package" in    *)
(* the same package, "dist-other-package" across packages, each the last  *)
(* value any group sets, or its default.                                  *)
(***************************************************************************)
EXTENDS DistCore

CONSTANT DistInputs

VARIABLES ags, atable, aphase, aerr

Override(gs, a, b) ==
    LET nnd == NodeNodeDist(gs) IN a \in DOMAIN nnd /\ b \in DOMAIN nnd[a]

Reference(gs) ==
    LET npd == NodePackageDie(gs)
        nnd == NodeNodeDist(gs)
    IN
    [s \in NodeIds(gs) |-> [t \in NodeIds(gs) |->
        LET hi == IF s > t THEN s ELSE t
            lo == IF s > t THEN t ELSE s
        IN CASE s = t                 -> DEFAULT_DIST_SAME_NODE
             [] Override(gs, hi, lo)  -> nnd[hi][lo]
             [] Override(gs, lo, hi)  -> nnd[lo][hi]
             [] npd[s] = npd[t]       -> DistSameDie(gs)
             [] npd[s][1] = npd[t][1] -> DistSamePackage(gs)
             [] OTHER -> LastSet(gs, "distotherpackage", DEFAULT_DIST)]]

AInit ==
    /\ ags \in DistInputs
    /\ atable = <<>> /\ aphase = "idle" /\ aerr = "none"

Compute ==
    /\ aphase = "idle"
    /\ CASE ags = <<>> -> aphase' = "error" /\ aerr' = "no_nodes" /\ atable' = atable
         [] DistMatrix(ags) # Absent /\ MatrixError(ags, DistMatrix(ags)) ->
              aphase' = "error" /\ aerr' = "dist_all_dims" /\ atable' = atable
         [] DistMatrix(ags) # Absent ->
              aphase' = "done" /\ aerr' = aerr /\ atable' = MatrixDists(ags, DistMatrix(ags))
         [] OTHER -> aphase' = "done" /\ aerr' = aerr /\ atable' = Reference(ags)
    /\ UNCHANGED ags

ASpec == AInit /\ [][Compute]_<<ags, atable, aphase, aerr>>
=============================================================================
