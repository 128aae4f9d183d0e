------------------------------- MODULE Groups -------------------------------
(***************************************************************************)
(* The input of topology2qemuopts.py: a list of NUMA group specifications *)
(* (JSON dicts).  A group is modelled as a record over all the keys the    *)
(* validator accepts; a key missing from the JSON dict has the value       *)
(* Absent.  Numbers and size literals keep the form the code reads.        *)
(***************************************************************************)
EXTENDS Integers, Sequences

CONSTANT Absent   \* model value: the key is not in the dict

\* The keys of valid_keys (test/e2e/lib/topology2qemuopts.py:173-178),
\* spelt without '-' so that they can be record fields.
Keys == {"mem", "nvmem", "dimm", "cores", "threads", "nodes", "dies",
         "packages", "cpuspresent", "nodedist", "distall",
         "distotherpackage", "distsamepackage", "distsamedie", "cxl"}

\* numaspec.get(key, default)
Get(g, k, d) == IF g[k] = Absent THEN d ELSE g[k]

\* The keys present in the dict numaspec.keys().
PresentKeys(g) == {k \in Keys : g[k] # Absent}

\* A size literal such as "2G": its integer part and its suffix.  The bare
\* literal "0" is Lit(0, "").
Lit(n, s) == [mag |-> n, sfx |-> s]
Zero == Lit(0, "")

\* A group record built from the keys a JSON dict does give.
Group(r) == [k \in Keys |-> IF k \in DOMAIN r THEN r[k] ELSE Absent]

\* Number of NUMA nodes the group expands to: packages x dies x nodes.
NodesOf(g) == Get(g, "packages", 1) * Get(g, "dies", 1) * Get(g, "nodes", 1)

\* Sum of F(x) over the elements of a sequence.
RECURSIVE SeqSum(_, _)
SeqSum(F(_), s) == IF s = <<>> THEN 0 ELSE F(Head(s)) + SeqSum(F, Tail(s))
=============================================================================
