------------------------------ MODULE CxlTree ------------------------------
(***************************************************************************)
(* The "cxl" value of a group and the size arithmetic of qemucxlopts().  *)
(* A forest is a sequence of host bridges; a host bridge is a sequence of *)
(* root-port devices; a device is a memory device, a switch with a        *)
(* sequence of downstream devices, or a dict with neither key.            *)
(***************************************************************************)
EXTENDS Groups, SequencesExt

MemDev(sz, present) == [kind |-> "mem", mem |-> sz, present |-> present]
Switch(ports) == [kind |-> "switch", ports |-> ports]
OtherDev == [kind |-> "other"]

\* device.get("present", True)
Present(dev) == dev.present # FALSE

\* cxlmemopts: "G" and "M" (upper case only) sizes, in megabytes.
CxlSizeOK(sz) == sz.sfx \in {"G", "M"}
CxlSizeM(sz) == IF sz.sfx = "G" THEN sz.mag * 1024 ELSE sz.mag

\* The root-port devices of all host bridges, in order.
ForestRootPorts(f) == FlattenSeq(f)

\* addr_sizeG: round up to a multiple of 4G; total_mem_sizeG: round up to 1G.
AddrSizeG(totalM) == ((totalM + 4095) \div 4096) * 4
TotalMemG(totalM) == (totalM + 1023) \div 1024
=============================================================================
