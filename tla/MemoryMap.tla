----------------------------- MODULE MemoryMap ------------------------------
(***************************************************************************)
(* The guest's view of physical memory: the jailhouse driver turns Linux's *)
(* iomem tree into the memory regions of the root cell, and RVM maps them  *)
(* around its own memory (Cell::new_root) with small and large pages.      *)
(*                                                                         *)
(* Addresses are small numbers; an interval is [start, end).  A command    *)
(* runs under jailhouse_lock; a step is one resource, one region or one    *)
(* page.  The other halves of the two commands are in Hypervisor.          *)
(***************************************************************************)
EXTENDS Integers, Sequences, FiniteSets

CONSTANTS
  PAGE_SIZE,
  LARGE,      \* the size of a large page
  Name,       \* the names of resources
  Iomem,      \* the lists of top-level resources Linux may have booted with
  HvRegion,   \* the hypervisor regions the command line may reserve
  None

ASSUME SizeAssumption ==
  PAGE_SIZE \in Nat \ {0, 1} /\ LARGE \in Nat \ {0} /\ (LARGE % PAGE_SIZE) = 0

\* no error
ASSUME NoneAssumption == None \notin {"EINVAL", "EINVAL overlap", "AlreadyMapped"}

Aligned(x) == (x % PAGE_SIZE) = 0
Resource == [start : Nat, end : Nat, name : Name]

\* resources are disjoint and in order; the hypervisor's region is made of pages
ASSUME RegionAssumption ==
  /\ "RVM hypervisor" \in Name /\ Iomem \subseteq Seq(Resource)
  /\ \A l \in Iomem : \A i \in 1..Len(l) :
       l[i].start < l[i].end /\ (i > 1 => l[i - 1].end <= l[i].start)
  /\ \A r \in HvRegion :
       /\ r.start \in Nat /\ r.end \in Nat /\ r.start < r.end
       /\ Aligned(r.start) /\ Aligned(r.end)

VARIABLES
  iomem,    \* iomem_resource.child and its siblings
  hv,       \* hv_region
  res,      \* hypervisor_mem_res
  enabled,  \* jailhouse_enabled
  pc,       \* "idle", or what the enable command is at
  child,    \* get_mem_regions: the next resource
  regions,  \* mem_regions, in the system configuration later on
  gpm,      \* MemorySet.regions of the root cell
  cur,      \* the region that is being inserted
  va,       \* Level4PageTable::map: vaddr
  pt,       \* the mappings of the nested page table
  tables,   \* the large pages that are divided: there is a table of small ones
  err,      \* of the last enable
  seen      \* history: the resources that were scanned

scanVars == <<iomem, hv, res, enabled, child, regions, seen>>
mapVars == <<gpm, cur, va, pt, tables>>
vars == <<scanVars, mapVars, pc, err>>

Init ==
  /\ iomem \in Iomem
  /\ hv = None /\ res = None /\ enabled = FALSE /\ pc = "idle"
  /\ child = 1 /\ regions = <<>>
  /\ gpm = {} /\ cur = None /\ va = 0 /\ pt = {} /\ tables = {}
  /\ err = None /\ seen = {}

-----------------------------------------------------------------------------
(* The jailhouse driver *)

round_down(x) == x - (x % PAGE_SIZE)

\* slip: rounded down
round_up_short(x) == round_down(x)

round_up(x) == round_down(x + PAGE_SIZE - 1)

mem_region_flag(name) ==
  {"READ", "WRITE"}
    \cup (IF name \in {"System RAM", "RAM buffer", "Reserved"} THEN {"EXECUTE"} ELSE {})
    \cup (IF name \in {"System RAM", "RAM buffer"} THEN {"DMA"} ELSE {})

\* slip: the last region is not looked at
append_region(q, start, end, name) ==
  Append(q, [start |-> round_down(start), end |-> round_up(end),
             flags |-> mem_region_flag(name)])

\* the end of get_mem_region_one: [start, end) is widened to pages and, if it shares
\* one with the last region, joined to it
add_region(q, start, end, name) ==
  LET s == round_down(start)
      e == round_up(end)
      l == q[Len(q)]
  IN  IF q # <<>> /\ s < l.end - 1
      THEN [q EXCEPT ![Len(q)] = [start |-> IF s < l.start THEN s ELSE l.start,
                                  end |-> IF e > l.end THEN e ELSE l.end,
                                  flags |-> l.flags \cup mem_region_flag(name)]]
      ELSE Append(q, [start |-> s, end |-> e, flags |-> mem_region_flag(name)])

Encloses(r, h) == r.start <= h.start /\ h.end <= r.end

\* slip: as if the last address were the end
overlap_closed(r, h) == r.start <= h.end /\ h.start <= r.end

Overlap(r, h) == r.start < h.end /\ h.start < r.end

\* slip: the region is taken as it is
split_none(r, h, q) == add_region(q, r.start, r.end, r.name)

\* slip: an empty part is added as well
split_closed(r, h, q) ==
  LET left == IF r.start <= h.start THEN add_region(q, r.start, h.start, r.name) ELSE q
  IN  IF h.end <= r.end THEN add_region(left, h.end, r.end, r.name) ELSE left

\* get_mem_region_one for a resource that contains the hypervisor: what is left of it
\* on either side
split_region(r, h, q) ==
  LET left == IF r.start < h.start THEN add_region(q, r.start, h.start, r.name) ELSE q
  IN  IF h.end < r.end THEN add_region(left, h.end, r.end, r.name) ELSE left

\* slip: the scan goes on where the last one ended
EnableBeginStale(r) ==
  /\ pc = "idle" /\ ~enabled
  /\ hv' = r
  /\ regions' = <<>> /\ seen' = {}
  /\ pc' = "scan" /\ err' = None
  /\ UNCHANGED <<iomem, res, enabled, child, mapVars>>

EnableBegin(r) ==
  /\ pc = "idle" /\ ~enabled
  /\ hv' = r
  /\ child' = 1 /\ regions' = <<>> /\ seen' = {}
  /\ pc' = "scan" /\ err' = None
  /\ UNCHANGED <<iomem, res, enabled, mapVars>>

Refuse(e) == pc' = "idle" /\ err' = e

\* get_mem_region_one
ScanRefused ==
  /\ pc = "scan" /\ child <= Len(iomem)
  /\ LET r == iomem[child] IN
       Overlap(r, hv) /\ ~(Encloses(r, hv) /\ r.name = "Reserved")
  /\ Refuse("EINVAL")
  /\ UNCHANGED <<scanVars, mapVars>>

Scan ==
  /\ pc = "scan" /\ child <= Len(iomem)
  /\ LET r == iomem[child] IN
       \/ /\ ~Overlap(r, hv)
          /\ regions' = add_region(regions, r.start, r.end, r.name)
       \/ /\ Encloses(r, hv) /\ r.name = "Reserved"
          /\ regions' = split_region(r, hv, regions)
  /\ child' = child + 1 /\ seen' = seen \cup {iomem[child]}
  /\ UNCHANGED <<iomem, hv, res, enabled, mapVars, pc, err>>

\* the image is not one, or does not fit
ImageRefused ==
  /\ pc = "scan" /\ child > Len(iomem)
  /\ Refuse("EINVAL image")
  /\ UNCHANGED <<scanVars, mapVars>>

\* release_mem_region: the resource of the hypervisor is a top-level one if nothing
\* contained it
release(l) ==
  LET own == {i \in 1..Len(l) : l[i].name = "RVM hypervisor"}
  IN  IF own = {} THEN {l} ELSE {SubSeq(l, 1, i - 1) \o SubSeq(l, i + 1, Len(l)) : i \in own}

HvResource(h) == [start |-> h.start, end |-> h.end, name |-> "RVM hypervisor"]
link(l, i, r) == SubSeq(l, 1, i - 1) \o <<r>> \o SubSeq(l, i, Len(l))

\* request_mem_region: below the resource that contains the region, or between two
request(l, h) ==
  IF \E i \in 1..Len(l) : Encloses(l[i], h) THEN {l}
  ELSE {link(l, i, HvResource(h)) : i \in {k \in 1..(Len(l) + 1) :
          (k > 1 => l[k - 1].end <= h.start) /\ (k <= Len(l) => h.end <= l[k].start)}}

\* jailhouse_firmware_free, request_mem_region, init_system_config
Request ==
  /\ pc = "scan" /\ child > Len(iomem)
  /\ \E l \in release(iomem) : iomem' \in request(l, hv)
  /\ res' = hv
  /\ pc' = "map"
  /\ UNCHANGED <<hv, enabled, child, regions, mapVars, err, seen>>

\* RVM's state is dead from here on: the next enable copies a fresh image
NoImage == gpm' = {} /\ cur' = None /\ va' = 0 /\ pt' = {} /\ tables' = {}

\* error_code: err_add_rt_cpus, jailhouse_firmware_free
Fail(e) ==
  /\ Refuse(e)
  /\ iomem' \in release(iomem) /\ res' = None
  /\ NoImage
  /\ UNCHANGED <<hv, enabled, child, regions, seen>>

\* error_release_memreg: no resource, or no address space to map it into.  The one of
\* an earlier enable is gone by then.
RequestFails ==
  /\ pc = "scan" /\ child > Len(iomem)
  /\ Fail("EINVAL request")

Disable ==
  /\ pc = "idle" /\ enabled
  /\ enabled' = FALSE
  /\ NoImage
  /\ UNCHANGED <<iomem, hv, res, child, regions, seen, pc, err>>

-----------------------------------------------------------------------------
(* RVM *)

\* MemoryRegion::new
MemoryRegion(start, end, flags, mapper) ==
  [start |-> round_down(start), end |-> round_down(start) + round_up(end - start),
   flags |-> flags, mapper |-> mapper]

\* Cell::new_root: the regions in the order of their insertion
RegionToInsert(n) ==
  IF n = 1 THEN MemoryRegion(hv.start, hv.end, {"READ"}, "empty")
  ELSE MemoryRegion(regions[n - 1].start, regions[n - 1].end, regions[n - 1].flags, "offset")

\* the region before and the region after r in order of their starts
test_free_area(r) ==
  LET before == {b \in gpm : b.start < r.start}
      after == gpm \ before
  IN  /\ \A b \in before : (\A c \in before : c.start <= b.start) => ~Overlap(b, r)
      /\ \A a \in after : (\A c \in after : a.start <= c.start) => ~Overlap(a, r)

\* MemorySet::insert up to the call of map
insert ==
  /\ pc = "map" /\ cur = None /\ Cardinality(gpm) <= Len(regions)
  /\ LET r == RegionToInsert(Cardinality(gpm) + 1) IN
       IF test_free_area(r)
       THEN /\ cur' = r /\ va' = r.start
            /\ UNCHANGED <<scanVars, gpm, pt, tables, pc, err>>
       ELSE Fail("EINVAL overlap")

map_fn(r, a) == IF r.mapper = "empty" THEN "empty" ELSE a

\* map: the page size; the hypervisor's region is mapped with NO_HUGEPAGES
large_page(r, a) == r.mapper # "empty" /\ a % LARGE = 0 /\ r.end - a >= LARGE
block(a) == a - (a % LARGE)

\* next_table_mut and is_unused: the entry is taken, or lies below a large page
mapped(a, large) ==
  IF large THEN a \in tables \/ \E e \in pt : e.va = a
  ELSE \E e \in pt : e.va = a \/ (e.size = LARGE /\ e.va = block(a))

\* get_entry_mut_or_create and map_page, for one turn of the loop of map
map_page ==
  /\ pc = "map" /\ cur # None /\ va < cur.end
  /\ LET large == large_page(cur, va)
         size == IF large THEN LARGE ELSE PAGE_SIZE
         entry == [va |-> va, size |-> size, pa |-> map_fn(cur, va), flags |-> cur.flags]
     IN  \/ /\ ~large /\ block(va) \notin tables   \* no frame for the table
            /\ Fail("ENOMEM")
         \/ IF mapped(va, large) THEN Fail("AlreadyMapped")
            ELSE /\ pt' = pt \cup {entry}
                 /\ tables' = IF large THEN tables ELSE tables \cup {block(va)}
                 /\ va' = va + size
                 /\ UNCHANGED <<scanVars, gpm, cur, pc, err>>

\* the end of map and of insert
inserted ==
  /\ pc = "map" /\ cur # None /\ va = cur.end
  /\ gpm' = gpm \cup {cur} /\ cur' = None
  /\ UNCHANGED <<scanVars, va, pt, tables, pc, err>>

EnableEnd ==
  /\ pc = "map" /\ cur = None /\ Cardinality(gpm) = Len(regions) + 1
  /\ pc' = "idle" /\ enabled' = TRUE
  /\ UNCHANGED <<iomem, hv, res, child, regions, seen, mapVars, err>>

-----------------------------------------------------------------------------
Next ==
  \/ \E r \in HvRegion : EnableBegin(r)
  \/ Scan \/ ScanRefused \/ ImageRefused \/ Request \/ RequestFails \/ Disable
  \/ insert \/ map_page \/ inserted \/ EnableEnd

Spec == Init /\ [][Next]_vars

-----------------------------------------------------------------------------
(* Properties *)

TypeOK ==
  /\ pc \in {"idle", "scan", "map"} /\ enabled \in BOOLEAN
  /\ child = Cardinality(seen) + 1
  /\ hv \in HvRegion \cup {None} /\ res \in HvRegion \cup {None}
  /\ Cardinality(gpm) <= Len(regions) + 1

\* What the driver reports is made of whole pages ("must be PAGE_SIZE align"), in
\* order, without overlaps and clear of the hypervisor, although resources
\* begin and end anywhere, several may share a page, and one is cut in two.
RegionsApart ==
  /\ \A i \in DOMAIN regions :
       /\ regions[i].start < regions[i].end
       /\ Aligned(regions[i].start) /\ Aligned(regions[i].end)
       /\ ~Overlap(regions[i], hv)
  /\ \A i, j \in DOMAIN regions : i < j => regions[i].end <= regions[j].start

\* The array of the driver has an entry for each resource.  That is enough unless the
\* hypervisor's region is cut out of the middle of one.
RegionsFit ==
  Len(regions) <= Cardinality(seen)
    + (IF \E r \in seen : r.start < hv.start /\ hv.end < r.end THEN 1 ELSE 0)

\* When the driver accepted the regions, RVM maps them all: it fails for want of a
\* frame only.
RegionsAccepted == err \notin {"EINVAL overlap", "AlreadyMapped"}

\* Once enabled, each page is mapped at most once; the hypervisor's pages all show the
\* empty page, read-only; every page of a resource shows itself, with at least the
\* rights its resources have; and nothing else is mapped.
GuestView ==
  pc = "idle" /\ enabled =>
    LET covers(e, a) == e.va <= a /\ a < e.va + e.size
        top == IF regions = <<>> THEN hv.end
               ELSE IF regions[Len(regions)].end > hv.end THEN regions[Len(regions)].end ELSE hv.end
        page(a) == {r \in seen : r.start < round_down(a) + PAGE_SIZE /\ round_down(a) < r.end}
    IN  \A a \in 0..(top + PAGE_SIZE) :
          LET m == {e \in pt : covers(e, a)} IN
          IF hv.start <= a /\ a < hv.end
          THEN \E e \in m : m = {e} /\ e.pa = "empty" /\ e.flags = {"READ"}
          ELSE IF page(a) = {} THEN m = {}
          ELSE \E e \in m :
                 /\ m = {e} /\ e.pa = e.va
                 /\ \A r \in page(a) : mem_region_flag(r.name) \subseteq e.flags

\* A region inside a reserved resource is never refused for its place, also when it
\* is enabled again.  (A region that no resource contains is refused the second
\* time: by then it is a resource itself, which disabling does not give back.)
ReservedAccepted ==
  err = "EINVAL" =>
    ~\E i \in DOMAIN iomem : iomem[i].name = "Reserved" /\ Encloses(iomem[i], hv)
=============================================================================
