----------------------------- MODULE CxlFabric -----------------------------
(***************************************************************************)
(* qemucxlopts(cxl_host_bridges) of topology2qemuopts.py step by step,    *)
(* with the counters its closures share: bus_nr, port_count, slot,        *)
(* mem_count and total_mem_sizeM (chassis is the constant 0xc1).  The     *)
(* recursion over host bridges, root ports and switch downstream ports is *)
(* a work list: the children of an item are pushed in front of the rest,  *)
(* so items are taken in the order of the code's nested loops.  An id is  *)
(* the tuple of the indices its f-string is built from.                   *)
(***************************************************************************)
EXTENDS CxlTree

CHASSIS == 193          \* chassis = 0xc1
BUS_STRIDE == 12        \* bus_nr += 12 per host bridge
FIRST_BUS == 12         \* bus_nr = 12

VARIABLES
    fwork,    \* items still to compile: [t, bus, idx, dev]
    fdevs,    \* the -device parameters: [kind, id, bus, port, slot, busnr]
    fmems,    \* the memory-backend-ram objects: [n, bus, size, present]
    fctr,     \* [bus, port, slot, mem, totalM]
    fphase    \* "idle", "walk", "error"

fabricVars == <<fwork, fdevs, fmems, fctr, fphase>>

NoNum == -1
Dev(kind, id, bus, port, slot, busnr) ==
    [kind |-> kind, id |-> id, bus |-> bus, port |-> port, slot |-> slot, busnr |-> busnr]
Item(t, bus, idx, dev) == [t |-> t, bus |-> bus, idx |-> idx, dev |-> dev]

\* enumerate(cxl_host_bridges): one item per host bridge.
FabricStart(f) ==
    /\ fwork' = [i \in 1..Len(f) |-> Item("hb", "pcie.0", i - 1, f[i])]
    /\ fdevs' = <<>> /\ fmems' = <<>>
    /\ fctr' = [bus |-> FIRST_BUS, port |-> 0, slot |-> 0, mem |-> 0, totalM |-> 0]
    /\ fphase' = "walk"

FabricInit ==
    /\ fwork = <<>> /\ fdevs = <<>> /\ fmems = <<>>
    /\ fctr = [bus |-> FIRST_BUS, port |-> 0, slot |-> 0, mem |-> 0, totalM |-> 0]
    /\ fphase = "idle"

\* The host bridge loop body: pxb-cxl with bus_nr and numa_node, bus_nr
\* += 12, then its root ports in order.
HostBridge(it, rest) ==
    LET h == it.idx
        hb == <<"hb", h>>
    IN /\ fdevs' = Append(fdevs, Dev("pxb-cxl", hb, "pcie.0", NoNum, NoNum, fctr.bus))
       /\ fctr' = [fctr EXCEPT !.bus = @ + BUS_STRIDE]
       /\ fwork' = [r \in 1..Len(it.dev) |-> Item("rp", hb, r - 1, it.dev[r])] \o rest
       /\ UNCHANGED <<fmems, fphase>>

\* cxlmemopts(device, bus_id): the backend object always, cxl-type3 only
\* when present; ids and serial number from mem_count before it grows.
MemObj(dev, bus) ==
    [n |-> fctr.mem, bus |-> bus, size |-> CxlSizeM(dev.mem), present |-> Present(dev)]
MemDevs(dev, bus) ==
    IF Present(dev) THEN <<Dev("cxl-type3", <<"memdev", fctr.mem>>, bus, NoNum, NoNum, NoNum)>>
    ELSE <<>>

\* Mutant: only a device present at boot adds to the total.
AddedMPresentOnly(dev) == IF Present(dev) THEN CxlSizeM(dev.mem) ELSE 0

\* total_mem_sizeM += sizeM, for every device, present or not.
AddedM(dev) == CxlSizeM(dev.mem)

\* Does a port of this kind raise for an attached device that is neither?
\* cxlswitchopts raises; the root port loop has no else branch.
OtherRaises(t) == t = "ds"

\* Mutant: a port gets the next port number but keeps the slot.
NextPortSameSlot(c) == [c EXCEPT !.port = @ + 1]

\* port_count += 1; slot += 1 after a root or downstream port.
NextPort(c) == [c EXCEPT !.port = @ + 1, !.slot = @ + 1]

\* One port and what hangs off it: the port device with port_count and
\* slot, both incremented, then the attached device.  A root port is
\* "cxl-rp" on its host bridge, a downstream port "cxl-downstream" on the
\* switch's upstream port.
PortStep(it, rest) ==
    LET pid == IF it.t = "rp" THEN <<"rp", it.idx, it.bus[2]>> ELSE <<"ds", it.idx, it.bus>>
        port == Dev(IF it.t = "rp" THEN "cxl-rp" ELSE "cxl-downstream",
                    pid, it.bus, fctr.port, fctr.slot, NoNum)
        us == <<"us", pid>>
        dev == it.dev
        next == NextPort(fctr)
    IN CASE dev.kind = "mem" /\ ~CxlSizeOK(dev.mem) ->
              fphase' = "error" /\ UNCHANGED <<fwork, fdevs, fmems, fctr>>
         [] dev.kind = "mem" ->
              /\ fdevs' = fdevs \o <<port>> \o MemDevs(dev, pid)
              /\ fmems' = Append(fmems, MemObj(dev, pid))
              /\ fctr' = [next EXCEPT !.mem = @ + 1, !.totalM = @ + AddedM(dev)]
              /\ fwork' = rest
              /\ fphase' = fphase
         [] dev.kind = "switch" ->
              /\ fdevs' = fdevs \o <<port, Dev("cxl-upstream", us, pid, NoNum, NoNum, NoNum)>>
              /\ fwork' = [j \in 1..Len(dev.ports) |-> Item("ds", us, j - 1, dev.ports[j])]
                          \o rest
              /\ fctr' = next
              /\ UNCHANGED <<fmems, fphase>>
         [] OtherRaises(it.t) ->
              fphase' = "error" /\ UNCHANGED <<fwork, fdevs, fmems, fctr>>
         [] OTHER ->
              /\ fdevs' = Append(fdevs, port)
              /\ fctr' = next
              /\ fwork' = rest
              /\ UNCHANGED <<fmems, fphase>>

\* Take the next item of the walk.
FabricStep ==
    /\ fphase = "walk" /\ fwork # <<>>
    /\ IF Head(fwork).t = "hb" THEN HostBridge(Head(fwork), Tail(fwork))
       ELSE PortStep(Head(fwork), Tail(fwork))

\* firmware_targets: the id of each host bridge, appended right after its
\* pxb-cxl device.
FirmwareTargets ==
    LET hbs == SelectSeq(fdevs, LAMBDA d : d.kind = "pxb-cxl")
    IN  [i \in 1..Len(hbs) |-> hbs[i].id]

\* cxl_Mparams: "cxl-fmw.I.targets.0=TARGET,cxl-fmw.I.size=addr_sizeG" for
\* every target I, all windows of the size of the whole forest's memory.
FirmwareWindows ==
    [i \in DOMAIN FirmwareTargets |->
        [idx |-> i - 1, target |-> FirmwareTargets[i], sizeG |-> AddrSizeG(fctr.totalM)]]

\* The loop over the host bridges is over.
FabricWalked == fphase = "walk" /\ fwork = <<>>
=============================================================================
