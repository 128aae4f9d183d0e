----------------------------- MODULE MCTopology -----------------------------
(* Inputs for checking Topology: lists of up to three groups drawn from    *)
(* small sets of group shapes, one set per question.                      *)
EXTENDS Topology

G(n) == Lit(n, "G")

\* NUMA groups without CXL: every dimm mode, mem and nvmem, threads given
\* and defaulted, several nodes, dies and packages, cpus-present.
NumaShapes == {
    Group([cores |-> 2, mem |-> G(2)]),
    Group([cores |-> 1, threads |-> 1, nodes |-> 2, mem |-> G(1), dimm |-> "plugged"]),
    Group([nvmem |-> G(1), dimm |-> "unplugged", packages |-> 2]),
    Group([cores |-> 1, dies |-> 2, mem |-> Lit(1, "g"), cpuspresent |-> 1]),
    Group([cores |-> 1, threads |-> 2, mem |-> G(1), dimm |-> "unplugged"]),
    Group([cores |-> 2, packages |-> 2, nvmem |-> G(2), dimm |-> "plugged"]),
    \* distance controls: overrides (one for a node that does not exist),
    \* conflicting overrides in both directions, a full matrix
    Group([cores |-> 1, packages |-> 2, nodedist |-> (0 :> 30 @@ 2 :> 40 @@ 7 :> 50)]),
    Group([nodes |-> 2, mem |-> G(1), distsamedie |-> 12, nodedist |-> (1 :> 33 @@ 0 :> 31)]),
    Group([cores |-> 1, nodes |-> 2, mem |-> G(1), distall |-> << <<10, 20>>, <<20, 10>> >>])}

NumaInputs == BoundedSeq(NumaShapes, 3)

M(n) == Lit(n, "M")

\* CXL groups next to NUMA groups: a memory device on a root port, a switch
\* with a hot-pluggable device, a nested switch, two host bridges.
CxlA == Group([cxl |-> << <<MemDev(G(8), Absent)>> >>])
CxlB == Group([cxl |-> << <<MemDev(M(256), Absent)>>,
                         <<Switch(<<MemDev(G(1), FALSE), MemDev(M(512), TRUE)>>)>> >>])
CxlC == Group([cxl |-> << <<Switch(<<Switch(<<MemDev(M(768), Absent)>>)>>),
                           MemDev(G(1), FALSE)>> >>])
\* A switch with an unsupported downstream device, and a root port with one.
CxlD == Group([cxl |-> << <<Switch(<<OtherDev, MemDev(M(256), Absent)>>)>> >>])
CxlE == Group([cxl |-> << <<OtherDev, MemDev(M(256), Absent)>> >>])
CpuNode == Group([cores |-> 2, mem |-> G(2)])
CxlShapes == {CpuNode, Group([cores |-> 1, nodes |-> 2, mem |-> G(1), dimm |-> "plugged"]),
              CxlA, CxlB, CxlC, CxlD}
\* Lists with at most one "cxl" group.
CxlInputs == {l \in BoundedSeq(CxlShapes, 3) :
                 Cardinality({i \in 1..Len(l) : l[i].cxl # Absent}) <= 1}
\* Lists with any number of "cxl" groups.
MultiCxlInputs == BoundedSeq(CxlShapes, 3)

\* The NUMA and distance lists together with the one-fabric lists.
AllInputs == NumaInputs \cup CxlInputs

\* Groups whose nodes get no memory and no CPUs, or both mem and nvmem.
DeclInputs == BoundedSeq({CpuNode, Group([nodes |-> 1]),
                          Group([cores |-> 1, mem |-> G(1), nvmem |-> G(1)])}, 2)

\* A cxl group whose root port has an unsupported device.
RootPortInputs == BoundedSeq({CpuNode, CxlE}, 2)

\* The documented default "0G" written out.
ZeroInputs == BoundedSeq({CpuNode, Group([cores |-> 2, mem |-> G(2), nvmem |-> G(0)])}, 2)

\* dists() inside the compiler implements DistsAbstract.  The abstract
\* input is the list dists() is given, numalist_with_dist: the groups that
\* are not "cxl" groups.  The table is visible once the pair loop is over.
NumaPart(l) == SelectSeq(l, LAMBDA g : ~IsCxlGroup(g))
Abs == INSTANCE DistsAbstract WITH
         DistInputs <- {NumaPart(l) : l \in Inputs},
         ags <- NumaPart(numalist),
         atable <- IF dphase = "done" THEN dd ELSE <<>>,
         aphase <- IF dphase = "pairs" THEN "idle" ELSE dphase,
         aerr <- derr

\* Run one pair at a time in the code's order, after the node loop has
\* numbered the nodes, the distance builder computes the table the
\* precedence rules define: no later pair clobbers an earlier override or
\* leaves a pair unset, and the result is symmetric.
Refines == Abs!ASpec

=============================================================================
