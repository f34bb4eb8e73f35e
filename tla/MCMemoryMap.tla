---------------------------- MODULE MCMemoryMap -----------------------------
(* MemoryMap for TLC: up to three resources that begin and end at these     *)
(* addresses, on pages of 2 and large pages of 4.                            *)
EXTENDS MemoryMap

Points == {0, 1, 3, 4, 6, 8, 9, 11, 12}
Names == {"System RAM", "Reserved", "PCI Bus", "RVM hypervisor"}
Resources == {r \in [start : Points, end : Points, name : Names \ {"RVM hypervisor"}] : r.start < r.end}

Lists ==
  UNION {{l \in [1..n -> Resources] : \A i \in 2..n : l[i - 1].end <= l[i].start} : n \in 1..3}

Regions == {[start |-> 4, end |-> 8], [start |-> 4, end |-> 6],
            [start |-> 8, end |-> 10]}
=============================================================================
