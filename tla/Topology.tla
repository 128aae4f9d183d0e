------------------------------ MODULE Topology ------------------------------
(***************************************************************************)
(* qemuopts() of test/e2e/lib/topology2qemuopts.py: validate the group list *)
(* and walk it group by group.  A "cxl" group is compiled by qemucxlopts()  *)
(* step by step (see CxlFabric); a NUMA group is expanded node by node with *)
(* the running id counters.  Then the distances are built, and the -smp   *)
(* and -m summaries.  Every raised ValueError ends the run in pc = "error". *)
(* Strings are abstracted to the records they are built from.             *)
(***************************************************************************)
EXTENDS DistBuilder, CxlFabric, FiniteSets

CONSTANT Inputs   \* the group lists json.loads() may return

VARIABLES
    numalist,   \* the input list
    pc,         \* "validate", "group", "cxl", "nodes", "dists", "done", "error"
    gi,         \* numalistindex (1-based)
    k,          \* index of the node being expanded in the current group
    err,        \* the error raised, or "none"
    machine,    \* [cxl, nvdimm, fmw]: the ",cxl=on" and ",nvdimm=on" flags, and
                \* the "-M cxl-fmw..." windows (emitted among deviceparams)
    numa,       \* "-numa node" parameters: [node, memdev, cpus]
    objs,       \* "-object memory-backend-ram": [kind, nv, size, node]
    dimms,      \* "-device pc-dimm|nvdimm": [node, obj, nv]
    cxldevs,    \* the -device parameters of all cxl groups
    ctr,        \* lastnode, lastcpu, lastcpupresent, lastdie, lastsocket, lastmem, lastnvmem
    threadcount,
    msz,        \* totalmem, totalnvmem, totalcxlmem, unpluggedmem, pluggedmem (in G), memslots
    out         \* the -smp and -m summaries and the distance table

\* numalist_with_dist is dgs, the input of the distance builder.
withDist == dgs

topoVars == <<numalist, pc, gi, k, err, machine, numa, objs, dimms, cxldevs, ctr,
              threadcount, msz, out>>
vars == <<topoVars, distVars, fabricVars>>

----------------------------------------------------------------------------
(* validate(numalist) *)
\* "0" is skipped; anything else must pass siadd(val, "0G"): a g/G suffix.
ValidSize(v) == v = Zero \/ v.sfx \in {"G", "g"}
IntRangeOK(g) ==
    /\ Get(g, "cores", 0) >= 0
    /\ Get(g, "threads", 1) > 0
    /\ Get(g, "nodes", 1) > 0
    /\ Get(g, "dies", 1) > 0
    /\ Get(g, "packages", 1) > 0
    /\ Get(g, "cpuspresent", 0) >= 0
GroupValid(g) ==
    /\ ValidSize(Get(g, "mem", Zero))
    /\ ValidSize(Get(g, "nvmem", Zero))
    /\ IntRangeOK(g)
    /\ ~(g.threads # Absent /\ Get(g, "cores", 0) = 0)

Validate ==
    /\ pc = "validate"
    /\ IF \A i \in 1..Len(numalist) : GroupValid(numalist[i])
       THEN pc' = "group" /\ err' = err
       ELSE pc' = "error" /\ err' = "invalid"
    /\ UNCHANGED <<numalist, gi, k, machine, numa, objs, dimms, cxldevs, ctr,
                   threadcount, msz, out>>
    /\ UNCHANGED distVars
    /\ UNCHANGED fabricVars

----------------------------------------------------------------------------
(* The loop over numalist: one step per group entry *)
Cur == numalist[gi]
IsCxlGroup(g) == g.cxl # Absent /\ g.cxl # <<>>   \* "if cxl_spec:"

\* "if cxl_spec:": a "cxl" group with other keys raises; otherwise
\* qemucxlopts() starts on the forest.
CxlStart ==
    /\ pc = "group" /\ gi <= Len(numalist) /\ IsCxlGroup(Cur)
    /\ IF PresentKeys(Cur) # {"cxl"}
       THEN pc' = "error" /\ err' = "cxl_with_keys" /\ UNCHANGED fabricVars
       ELSE pc' = "cxl" /\ err' = err /\ FabricStart(Cur.cxl)
    /\ UNCHANGED <<numalist, gi, k, machine, numa, objs, dimms, cxldevs, ctr,
                   threadcount, msz, out>>
    /\ UNCHANGED distVars

\* One host bridge or port of qemucxlopts().
CxlWalk ==
    /\ pc = "cxl" /\ FabricStep
    /\ UNCHANGED topoVars
    /\ UNCHANGED distVars

\* An exception out of cxlmemopts() or cxlswitchopts() ends the run.
CxlFailed ==
    /\ pc = "cxl" /\ fphase = "error"
    /\ pc' = "error" /\ err' = "cxl_device"
    /\ UNCHANGED <<numalist, gi, k, machine, numa, objs, dimms, cxldevs, ctr,
                   threadcount, msz, out, distVars, fabricVars>>

\* qemucxlopts() returns; the group's objects and devices are appended
\* (cxl_deviceparams is never empty: every host bridge has a pxb-cxl),
\* memslots += len(objectparams) counts the two tokens of every object so
\* far, and totalcxlmem is the value this call returned.
CxlEnd ==
    /\ pc = "cxl" /\ FabricWalked
    /\ objs' = objs \o [i \in 1..Len(fmems) |->
                          [kind |-> "cxl", nv |-> FALSE, size |-> fmems[i].size, node |-> -1]]
    /\ cxldevs' = cxldevs \o fdevs
    /\ msz' = [msz EXCEPT !.slots = @ + 2 * Len(objs'), !.cxl = TotalMemG(fctr.totalM)]
    /\ machine' = [machine EXCEPT !.cxl = TRUE, !.fmw = @ \o FirmwareWindows]
    /\ pc' = "group" /\ gi' = gi + 1
    /\ UNCHANGED <<numalist, k, err, numa, dimms, ctr, threadcount, out>>
    /\ UNCHANGED <<distVars, fabricVars>>

\* Mutant: the cross-check against the first CPU group is missing.
ThreadMismatchUnchecked(g, tc) == FALSE

\* A CPU group names a threads count other than the one already fixed.
ThreadMismatch(g, tc) ==
    /\ Get(g, "cores", 0) > 0 /\ tc >= 0
    /\ g.threads # Absent /\ g.threads # tc

\* A NUMA group: the threads-per-core bookkeeping before its nodes.
NumaGroup ==
    /\ pc = "group" /\ gi <= Len(numalist) /\ ~IsCxlGroup(Cur)
    /\ IF ThreadMismatch(Cur, threadcount)
       THEN pc' = "error" /\ err' = "thread_mismatch"
            /\ UNCHANGED <<k, threadcount, dgs>>
       ELSE /\ pc' = "nodes" /\ k' = 0
            /\ dgs' = Append(dgs, Cur)
            /\ threadcount' = IF Get(Cur, "cores", 0) > 0 /\ threadcount < 0
                              THEN Get(Cur, "threads", 2) ELSE threadcount
            /\ err' = err
    /\ UNCHANGED <<numalist, gi, machine, numa, objs, dimms, cxldevs, ctr, msz, out>>
    /\ UNCHANGED <<dd, src, dst, dphase, derr>>
    /\ UNCHANGED fabricVars

----------------------------------------------------------------------------
(* One iteration of the innermost "for node in range(nodecount)" loop *)
DimmModes == {"", "plugged", "unplugged"}

\* Mutants of Alloc: a node id one too high; a plugged nvdimm not counted
\* as plugged memory; no slot reserved for an unplugged DIMM.
AllocNodeOff(nv, size, dimm, n, m) ==
    [obj     |-> [kind |-> IF dimm = "" THEN "builtin" ELSE "dimm",
                  nv |-> nv, size |-> size.mag, node |-> n],
     decl    |-> [node |-> n + 1, memdev |-> dimm = "", cpus |-> <<>>],
     dev     |-> IF dimm = "plugged" THEN <<[node |-> n, obj |-> m, nv |-> nv]>> ELSE <<>>,
     plugged |-> IF dimm = "plugged" THEN size.mag ELSE 0,
     unplug  |-> IF dimm = "unplugged" THEN size.mag ELSE 0,
     slots   |-> IF dimm = "" THEN 0 ELSE 1]
AllocNvPluggedUncounted(nv, size, dimm, n, m) ==
    [obj     |-> [kind |-> IF dimm = "" THEN "builtin" ELSE "dimm",
                  nv |-> nv, size |-> size.mag, node |-> n],
     decl    |-> [node |-> n, memdev |-> dimm = "", cpus |-> <<>>],
     dev     |-> IF dimm = "plugged" THEN <<[node |-> n, obj |-> m, nv |-> nv]>> ELSE <<>>,
     plugged |-> IF dimm = "plugged" /\ ~nv THEN size.mag ELSE 0,
     unplug  |-> IF dimm = "unplugged" THEN size.mag ELSE 0,
     slots   |-> IF dimm = "" THEN 0 ELSE 1]
AllocNoUnpluggedSlot(nv, size, dimm, n, m) ==
    [obj     |-> [kind |-> IF dimm = "" THEN "builtin" ELSE "dimm",
                  nv |-> nv, size |-> size.mag, node |-> n],
     decl    |-> [node |-> n, memdev |-> dimm = "", cpus |-> <<>>],
     dev     |-> IF dimm = "plugged" THEN <<[node |-> n, obj |-> m, nv |-> nv]>> ELSE <<>>,
     plugged |-> IF dimm = "plugged" THEN size.mag ELSE 0,
     unplug  |-> IF dimm = "unplugged" THEN size.mag ELSE 0,
     slots   |-> IF dimm = "plugged" THEN 1 ELSE 0]

\* The parameters one mem (nv = FALSE) or nvmem (nv = TRUE) allocation adds
\* for node n with memory id m, by dimm mode.
Alloc(nv, size, dimm, n, m) ==
    [obj     |-> [kind |-> IF dimm = "" THEN "builtin" ELSE "dimm",
                  nv |-> nv, size |-> size.mag, node |-> n],
     decl    |-> [node |-> n, memdev |-> dimm = "", cpus |-> <<>>],
     dev     |-> IF dimm = "plugged" THEN <<[node |-> n, obj |-> m, nv |-> nv]>> ELSE <<>>,
     plugged |-> IF dimm = "plugged" THEN size.mag ELSE 0,
     unplug  |-> IF dimm = "unplugged" THEN size.mag ELSE 0,
     slots   |-> IF dimm = "" THEN 0 ELSE 1]

\* Mutant: the range starts at the last CPU already handed out.
CpuRangeOverlap(last, count) == <<last, last + count - 1>>

\* cpus=A-B of a node with count logical CPUs after CPU id last.
CpuRange(last, count) == <<last + 1, last + count>>

\* lastcpupresent after a node with count CPUs of a group with cpus-present.
PresentAfter(prev, present, count) ==
    IF present > 0 THEN present - 1 ELSE prev + count

NodeStep ==
    /\ pc = "nodes"
    /\ LET g == Cur
           nodes == Get(g, "nodes", 1)
           dies == Get(g, "dies", 1)
           node == k % nodes
           die == (k \div nodes) % dies
           cpucount == Get(g, "cores", 0) * threadcount
           present == Get(g, "cpuspresent", 0)
           memsize == Get(g, "mem", Zero)
           nvmemsize == Get(g, "nvmem", Zero)
           dimm == Get(g, "dimm", "")
           hasMem == memsize # Zero
           hasNv == nvmemsize # Zero
           n == ctr.node + 1
           m1 == ctr.mem + 1
           m2 == IF hasMem THEN ctr.mem + 2 ELSE ctr.mem + 1
           as == (IF hasMem THEN <<Alloc(FALSE, memsize, dimm, n, m1)>> ELSE <<>>)
                 \o (IF hasNv THEN <<Alloc(TRUE, nvmemsize, dimm, n, m2)>> ELSE <<>>)
           decls == [i \in 1..Len(as) |-> as[i].decl]
           cpus == CpuRange(ctr.cpu, cpucount)
           withCpus == IF decls = <<>>
                       THEN <<[node |-> n, memdev |-> FALSE, cpus |-> cpus]>>
                       ELSE [decls EXCEPT ![Len(decls)].cpus = cpus]
           newSocket == cpucount > 0 /\ node = 0 /\ die = 0
           newDie == cpucount > 0 /\ node = 0
       IN IF (hasMem \/ hasNv) /\ dimm \notin DimmModes
          THEN pc' = "error" /\ err' = "bad_dimm"
               /\ UNCHANGED <<k, gi, machine, numa, objs, dimms, ctr, msz>>
          ELSE
          /\ objs' = objs \o [i \in 1..Len(as) |-> as[i].obj]
          /\ dimms' = dimms \o FlattenSeq([i \in 1..Len(as) |-> as[i].dev])
          /\ numa' = numa \o (IF cpucount > 0 THEN withCpus ELSE decls)
          /\ machine' = [machine EXCEPT !.nvdimm = @ \/ (hasNv /\ ctr.nvmem = -1)]
          /\ ctr' = [ctr EXCEPT
                       !.node = n,
                       !.mem = @ + Len(as),
                       !.nvmem = IF hasNv THEN @ + 1 ELSE @,
                       !.socket = IF newSocket THEN @ + 1 ELSE @,
                       !.die = IF newDie THEN @ + 1 ELSE @,
                       !.cpu = IF cpucount > 0 THEN @ + cpucount ELSE @,
                       !.cpupresent = IF cpucount = 0 THEN @
                                      ELSE PresentAfter(@, present, cpucount)]
          /\ msz' = [msz EXCEPT
                       !.total = IF hasMem THEN @ + memsize.mag ELSE @,
                       !.nv = IF hasNv THEN @ + nvmemsize.mag ELSE @,
                       !.plugged = @ + SeqSum(LAMBDA a : a.plugged, as),
                       !.unplugged = @ + SeqSum(LAMBDA a : a.unplug, as),
                       !.slots = @ + SeqSum(LAMBDA a : a.slots, as)]
          /\ IF k + 1 = NodesOf(g)
             THEN pc' = "group" /\ gi' = gi + 1 /\ k' = k
             ELSE pc' = "nodes" /\ gi' = gi /\ k' = k + 1
          /\ err' = err
    /\ UNCHANGED <<numalist, cxldevs, threadcount, out>>
    /\ UNCHANGED distVars
    /\ UNCHANGED fabricVars

----------------------------------------------------------------------------
(* After the loop: dists(), then the checks and the -smp / -m summaries *)
EndOfList ==
    /\ pc = "group" /\ gi > Len(numalist)
    /\ pc' = "dists"
    /\ UNCHANGED <<numalist, gi, k, err, machine, numa, objs, dimms, cxldevs, ctr,
                   threadcount, msz, out>>
    /\ UNCHANGED distVars
    /\ UNCHANGED fabricVars

\* The steps of dists(withDist).
Dists ==
    /\ pc = "dists"
    /\ DistStart \/ DistPair
    /\ UNCHANGED topoVars
    /\ UNCHANGED fabricVars

DistsFailed ==
    /\ pc = "dists" /\ dphase = "error"
    /\ pc' = "error" /\ err' = derr
    /\ UNCHANGED <<numalist, gi, k, machine, numa, objs, dimms, cxldevs, ctr,
                   threadcount, msz, out, distVars>>
    /\ UNCHANGED fabricVars

\* Mutant: the die counter is divided without its +1.
DiesPerSocketOff(lastdie, lastsocket) == lastdie \div (lastsocket + 1)

\* diecount = (lastdie + 1) // (lastsocket + 1)
DiesPerSocket(lastdie, lastsocket) == (lastdie + 1) \div (lastsocket + 1)

Finish ==
    /\ pc = "dists" /\ dphase = "done"
    /\ LET q == DiesPerSocket(ctr.die, ctr.socket)
           maxmem == msz.total + msz.nv + msz.cxl
           startmem == maxmem - msz.unplugged - msz.plugged - msz.cxl
       IN CASE ctr.cpu = -1    -> pc' = "error" /\ err' = "no_cpus" /\ out' = out
            \* startmem.startswith("0") / pluggedmem.startswith("0")
            [] startmem = 0    -> pc' = "error" /\ out' = out
                                  /\ err' = IF msz.plugged = 0 THEN "no_memory"
                                            ELSE "no_initial_memory"
            [] OTHER ->
                 /\ pc' = "done" /\ err' = err
                 /\ out' = [smp  |-> [cpus |-> ctr.cpupresent + 1, threads |-> threadcount,
                                      dies |-> IF q > 1 THEN q ELSE 0,
                                      sockets |-> ctr.socket + 1, maxcpus |-> ctr.cpu + 1],
                            m    |-> [size |-> startmem, slots |-> msz.slots, maxmem |-> maxmem],
                            dist |-> dd]
    /\ UNCHANGED <<numalist, gi, k, machine, numa, objs, dimms, cxldevs, ctr,
                   threadcount, msz, distVars>>
    /\ UNCHANGED fabricVars

\* The process has printed its line or its error and exited.
Terminated ==
    /\ pc \in {"done", "error"}
    /\ UNCHANGED vars

NoOut == [smp |-> [cpus |-> 0, threads |-> 0, dies |-> 0, sockets |-> 0, maxcpus |-> 0],
          m |-> [size |-> 0, slots |-> 0, maxmem |-> 0], dist |-> <<>>]

Init ==
    /\ numalist \in Inputs
    /\ pc = "validate" /\ gi = 1 /\ k = 0 /\ err = "none"
    /\ machine = [cxl |-> FALSE, nvdimm |-> FALSE, fmw |-> <<>>]
    /\ numa = <<>> /\ objs = <<>> /\ dimms = <<>> /\ cxldevs = <<>>
    /\ ctr = [node |-> -1, cpu |-> -1, cpupresent |-> -1, die |-> -1,
              socket |-> -1, mem |-> -1, nvmem |-> -1]
    /\ threadcount = -1
    /\ msz = [total |-> 0, nv |-> 0, cxl |-> 0, unplugged |-> 0, plugged |-> 0, slots |-> 0]
    /\ dgs = <<>>
    /\ DistInit
    /\ out = NoOut
    /\ FabricInit

Next == Validate \/ CxlStart \/ CxlWalk \/ CxlFailed \/ CxlEnd \/ NumaGroup \/ NodeStep \/ EndOfList \/ Dists \/ DistsFailed
        \/ Finish \/ Terminated

Spec == Init /\ [][Next]_vars /\ WF_vars(Next)

----------------------------------------------------------------------------
(* Properties *)
Done == pc = "done"

TypeOK ==
    /\ pc \in {"validate", "group", "cxl", "nodes", "dists", "done", "error"}
    /\ gi \in 1..Len(numalist) + 1
    /\ k \in Nat
    /\ threadcount \in Int
    /\ machine.cxl \in BOOLEAN /\ machine.nvdimm \in BOOLEAN
    /\ ctr \in [{"node", "cpu", "cpupresent", "die", "socket", "mem", "nvmem"} -> Int]
    /\ msz \in [{"total", "nv", "cxl", "unplugged", "plugged", "slots"} -> Int]
    /\ \A i \in DOMAIN numa : numa[i].node \in 0..ctr.node
    /\ \A i \in DOMAIN objs : objs[i].kind \in {"builtin", "dimm", "cxl"}
    /\ Len(withDist) <= Len(numalist)

CpuGroup(g) == Get(g, "cores", 0) > 0
\* The logical CPUs of one node of group g, with the machine's threads.
CpusPerNode(g) == Get(g, "cores", 0) * out.smp.threads

\* The -smp summary agrees with the input: maxcpus is the sum over groups of
\* cores x threads x packages x dies x nodes, sockets the number of packages
\* of CPU groups, and threads is the explicit threads of every CPU group.
\* (qemuopts: threadcount fixed by the first CPU group, lastcpu, lastsocket.)
SmpSummary ==
    Done =>
    /\ out.smp.maxcpus = SeqSum(LAMBDA g : CpusPerNode(g) * NodesOf(g), numalist)
    /\ out.smp.sockets = SeqSum(LAMBDA g : IF CpuGroup(g) THEN Get(g, "packages", 1) ELSE 0,
                                numalist)
    /\ \A i \in 1..Len(numalist) :
          CpuGroup(numalist[i]) /\ numalist[i].threads # Absent
             => numalist[i].threads = out.smp.threads

\* The cpus=A-B ranges of the "-numa node" parameters are consecutive from
\* 0, in node order, end at maxcpus-1, and each node gets exactly the CPUs
\* of the group that dists() places it in: the CPU numbering of the node
\* loop and the node numbering of the distance pass agree.
CpuRangesPartition ==
    Done =>
    LET r == SelectSeq(numa, LAMBDA d : d.cpus # <<>>)
    IN  /\ \A i \in 1..Len(r) :
             /\ r[i].cpus[1] = IF i = 1 THEN 0 ELSE r[i - 1].cpus[2] + 1
             /\ r[i].cpus[2] - r[i].cpus[1] + 1
                   = CpusPerNode(withDist[GroupOf(withDist, r[i].node)])
             /\ i > 1 => r[i - 1].node < r[i].node
        /\ r # <<>> /\ r[Len(r)].cpus[2] = out.smp.maxcpus - 1

\* The -m summary agrees with the emitted memory objects: maxmem is the
\* size of all NUMA memory objects plus the CXL memory rounded up to whole
\* gigabytes, size= only the objects built into nodes (no pc-dimm/nvdimm).
MemSummary ==
    Done =>
    LET numaObjs == SelectSeq(objs, LAMBDA o : o.kind # "cxl")
        cxlObjs == SelectSeq(objs, LAMBDA o : o.kind = "cxl")
    IN  /\ out.m.maxmem = SeqSum(LAMBDA o : o.size, numaObjs)
                          + TotalMemG(SeqSum(LAMBDA o : o.size, cxlObjs))
        /\ out.m.size = SeqSum(LAMBDA o : IF o.kind = "builtin" THEN o.size ELSE 0, objs)

\* slots= counts the hot-pluggable slots: one per pc-dimm/nvdimm memory
\* object (plugged or unplugged) and one per CXL memory device.
SlotsCount ==
    Done =>
    out.m.slots = Len(SelectSeq(objs, LAMBDA o : o.kind \in {"dimm", "cxl"}))

\* For a list without a "cxl" group, slots= counts exactly the pc-dimm and
\* nvdimm slots, plugged and unplugged, of every node of every group (the
\* CXL term, memslots += len(objectparams), is then never reached).
DimmSlotsCount ==
    (\A i \in DOMAIN numalist : ~IsCxlGroup(numalist[i])) => SlotsCount

\* Every node id the distance lines name is declared by exactly one
\* "-numa node,nodeid=N" parameter (Qemu rejects a dist between undeclared
\* nodes and a duplicated nodeid).  The node loop declares a node once per
\* mem/nvmem allocation, plus once when it has CPUs and no memory.
NodesDeclaredOnce ==
    Done => \A n \in 0..ctr.node : Cardinality({i \in DOMAIN numa : numa[i].node = n}) = 1

\* Every emitted memory-backend-ram object has a positive size: the node
\* loop skips a "mem"/"nvmem" equal to "0", the documented default "0G".
MemObjectsPositive ==
    Done => \A i \in DOMAIN objs : objs[i].size > 0
\* The CXL -device parameters of the machine can be told apart: no two root
\* or downstream ports share a port= number or a (chassis, slot) pair (the
\* comment in qemucxlopts(): "(slot, chassis) must be unique for each root
\* port"), no two devices share an id, no two host bridges a bus_nr.
FabricAddressing ==
    LET ports == {i \in DOMAIN cxldevs : cxldevs[i].kind \in {"cxl-rp", "cxl-downstream"}}
        hbs == {i \in DOMAIN cxldevs : cxldevs[i].kind = "pxb-cxl"}
    IN  /\ \A i, j \in ports :
              i # j => /\ cxldevs[i].port # cxldevs[j].port
                       /\ <<CHASSIS, cxldevs[i].slot>> # <<CHASSIS, cxldevs[j].slot>>
        /\ \A i, j \in DOMAIN cxldevs : i # j => cxldevs[i].id # cxldevs[j].id
        /\ \A i, j \in hbs : i # j => cxldevs[i].busnr # cxldevs[j].busnr

DevicesSupported ==
    Done =>
    \A i \in 1..Len(numalist) :
        IsCxlGroup(numalist[i]) =>
            \A rp \in Range(ForestRootPorts(numalist[i].cxl)) : rp.kind # "other"

\* -smp dies= (emitted only when above 1) is the dies per package of the
\* CPU groups when they all have the same "dies": the die and socket
\* counters of the node loop, advanced only for nodes with CPUs, divide to
\* it.  With different die counts Qemu's -smp cannot state the topology.
DiesUniform ==
    Done =>
    LET cpuGroups == {i \in 1..Len(numalist) : CpuGroup(numalist[i])}
    IN  \A d \in {Get(numalist[i], "dies", 1) : i \in cpuGroups} :
           (\A i \in cpuGroups : Get(numalist[i], "dies", 1) = d)
              => out.smp.dies = IF d > 1 THEN d ELSE 0
=============================================================================
