---------------------------- MODULE DistBuilder ----------------------------
(***************************************************************************)
(* dists(numalist) of topology2qemuopts.py as a state machine: DistStart  *)
(* is the first pass and the branch on "dist-all"; DistPair is one        *)
(* iteration of the nested loop over (sourcenode, destnode), in the       *)
(* code's order, so that later pairs may overwrite what earlier ones set. *)
(***************************************************************************)
EXTENDS DistCore

VARIABLES
    dgs,      \* the list dists() is given (numalist_with_dist)
    dd,       \* dist_dict
    src,      \* sourcenode
    dst,      \* destnode
    dphase,   \* "idle", "pairs", "done", "error"
    derr      \* the error raised, or "none"

distVars == <<dgs, dd, src, dst, dphase, derr>>

DistStart ==
    /\ dphase = "idle"
    /\ CASE dgs = <<>> ->
              dphase' = "error" /\ derr' = "no_nodes" /\ dd' = dd
         [] DistMatrix(dgs) # Absent /\ MatrixError(dgs, DistMatrix(dgs)) ->
              dphase' = "error" /\ derr' = "dist_all_dims" /\ dd' = dd
         [] DistMatrix(dgs) # Absent ->
              dphase' = "done" /\ derr' = derr /\ dd' = MatrixDists(dgs, DistMatrix(dgs))
         [] OTHER ->
              dphase' = "pairs" /\ derr' = derr /\ dd' = EmptyDists(dgs)
    /\ src' = 0 /\ dst' = 0
    /\ UNCHANGED dgs

LoopEnd == <<-1, -1>>

\* The pair after (s, t) in "for sourcenode ...: for destnode ..." order
\* over n nodes, LoopEnd after the last.
NextPair(s, t, n) ==
    IF t + 1 < n THEN <<s, t + 1>> ELSE IF s + 1 < n THEN <<s + 1, 0>> ELSE LoopEnd

DistPair ==
    /\ dphase = "pairs"
    /\ dd' = PairStep(dgs, dd, src, dst)
    /\ LET nx == NextPair(src, dst, NodeCount(dgs))
       IN IF nx = LoopEnd
          THEN src' = src /\ dst' = dst /\ dphase' = "done"
          ELSE src' = nx[1] /\ dst' = nx[2] /\ dphase' = dphase
    /\ UNCHANGED <<dgs, derr>>

DistInit ==
    /\ dd = <<>> /\ src = 0 /\ dst = 0 /\ dphase = "idle" /\ derr = "none"
=============================================================================
