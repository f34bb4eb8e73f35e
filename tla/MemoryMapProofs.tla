--------------------------- MODULE MemoryMapProofs --------------------------
(***************************************************************************)
(* For any page size, any list of resources and any hypervisor region made *)
(* of pages: the regions of the driver are whole pages, in order, disjoint *)
(* and clear of the hypervisor (IInv); they show the resources that were   *)
(* scanned and fit the array (ScanInv); RVM inserts them all, and the page *)
(* table maps what is inserted, once and in full (MapInv).                 *)
(***************************************************************************)
EXTENDS MemoryMap, SequenceTheorems, FiniteSetTheorems, WellFoundedInduction, TLAPS

Flag == {"READ", "WRITE", "EXECUTE", "DMA"}
Region == [start : Nat, end : Nat, flags : SUBSET Flag]

\* RegionsApart of any list
Apart(q, h) ==
  /\ \A i \in 1..Len(q) :
       /\ q[i].start < q[i].end
       /\ Aligned(q[i].start) /\ Aligned(q[i].end)
       /\ ~Overlap(q[i], h)
  /\ \A i, j \in 1..Len(q) : i < j => q[i].end <= q[j].start

InOrder(l) ==
  \A i \in 1..Len(l) : l[i].start < l[i].end /\ (i > 1 => l[i - 1].end <= l[i].start)

\* The strengthening: the last region begins before the end of the last resource and
\* does not go beyond its last page.
Below(q, end) ==
  q # <<>> => q[Len(q)].start < end /\ q[Len(q)].end <= round_up(end)

IInv ==
  /\ iomem \in Seq(Resource) /\ InOrder(iomem)
  /\ regions \in Seq(Region) /\ Apart(regions, hv)
  /\ regions # <<>> \/ pc # "idle" => hv \in HvRegion
  /\ child \in Nat \ {0} /\ pc \in {"idle", "scan", "map"}
  /\ pc = "scan" => /\ child <= Len(iomem) + 1
                    /\ IF child = 1 THEN regions = <<>> ELSE Below(regions, iomem[child - 1].end)

\* The page of a belongs to r in part; a is an address of r.
Touches(r, a) == r.start < round_down(a) + PAGE_SIZE /\ round_down(a) < r.end
In(r, a) == r.start <= a /\ a < r.end

\* The regions of q show the pages of the resources s, the hypervisor's excepted, with
\* the rights these ask for, and no others.
Covered(q, h, s) ==
  /\ \A r \in s : \A a \in Nat : Touches(r, a) /\ ~In(h, a) =>
       \E i \in 1..Len(q) : In(q[i], a) /\ mem_region_flag(r.name) \subseteq q[i].flags
  /\ \A i \in 1..Len(q) : \A a \in Nat : In(q[i], a) => \E r \in s : Touches(r, a)

\* p has what q has and [s, e) with flags f, and nothing else.
Extended(q, p, s, e, f) ==
  /\ \A i \in 1..Len(q) : \E j \in 1..Len(p) :
       p[j].start <= q[i].start /\ q[i].end <= p[j].end /\ q[i].flags \subseteq p[j].flags
  /\ \E j \in 1..Len(p) : p[j].start <= s /\ e <= p[j].end /\ f \subseteq p[j].flags
  /\ \A j \in 1..Len(p) : \A x \in Nat :
       In(p[j], x) => (s <= x /\ x < e) \/ \E i \in 1..Len(q) : In(q[i], x)

\* p has what q has and the pages of r outside of h, and nothing else.
Grown(q, p, h, r) ==
  /\ \A i \in 1..Len(q) : \E j \in 1..Len(p) :
       p[j].start <= q[i].start /\ q[i].end <= p[j].end /\ q[i].flags \subseteq p[j].flags
  /\ \A x \in Nat : Touches(r, x) /\ ~In(h, x) =>
       \E j \in 1..Len(p) : In(p[j], x) /\ mem_region_flag(r.name) \subseteq p[j].flags
  /\ \A j \in 1..Len(p) : \A x \in Nat :
       In(p[j], x) => Touches(r, x) \/ \E i \in 1..Len(q) : In(q[i], x)

\* What get_mem_regions has seen so far is below the next resource.
ScanInv ==
  /\ seen \subseteq Resource /\ IsFiniteSet(seen) /\ Cardinality(seen) = child - 1
  /\ pc = "scan" => \A r \in seen : child > 1 /\ r.end <= iomem[child - 1].end
  /\ RegionsFit /\ Covered(regions, hv, seen)

\* A region of whole pages.
Whole(g) ==
  g.start \in Nat /\ g.end \in Nat /\ g.start < g.end /\ Aligned(g.start) /\ Aligned(g.end)

Covers(e, a) == e.va <= a /\ a < e.va + e.size

\* the entry e maps a part of [g.start, top) the way region g asks for
From(e, g, top) ==
  g.start <= e.va /\ e.va + e.size <= top /\ e.pa = map_fn(g, e.va) /\ e.flags = g.flags
Full(g, top) == \A a \in Nat : g.start <= a /\ a < top => \E e \in pt : Covers(e, a)

\* The regions are inserted one by one; the page table maps those that are inserted and
\* the current one up to va.
Inserting ==
  /\ hv \in HvRegion /\ IsFiniteSet(gpm) /\ Cardinality(gpm) <= Len(regions) + 1
  /\ gpm = {RegionToInsert(k) : k \in 1..Cardinality(gpm)}
  /\ cur # None => /\ Cardinality(gpm) <= Len(regions)
                   /\ cur = RegionToInsert(Cardinality(gpm) + 1)
                   /\ va \in Nat /\ Aligned(va) /\ cur.start <= va /\ va <= cur.end
Mapping ==
  /\ \A e \in pt : /\ e.va \in Nat /\ e.size \in {LARGE, PAGE_SIZE}
                   /\ (\E g \in gpm : From(e, g, g.end)) \/ (cur # None /\ From(e, cur, va))
  /\ \A e, f \in pt : e # f => e.va + e.size <= f.va \/ f.va + f.size <= e.va
  /\ \A g \in gpm : Full(g, g.end)
  /\ cur # None => Full(cur, va)
  /\ \A t \in tables : \E e \in pt : e.size = PAGE_SIZE /\ block(e.va) = t

MapInv ==
  /\ enabled \in BOOLEAN /\ hv \in HvRegion \cup {None} /\ res \in HvRegion \cup {None}
  /\ enabled => pc = "idle" /\ cur = None /\ Cardinality(gpm) = Len(regions) + 1
  /\ IF pc = "map" \/ enabled THEN Inserting /\ Mapping
     ELSE gpm = {} /\ cur = None /\ pt = {} /\ tables = {}
  /\ pc # "idle" => err = None
  /\ RegionsAccepted /\ ReservedAccepted

-----------------------------------------------------------------------------
(* Pages *)

\* A page-aligned number is a multiple of PAGE_SIZE, and every multiple is aligned.
LEMMA AlignedMultiple ==
  /\ \A x \in Nat : Aligned(x) => x \div PAGE_SIZE \in Nat /\ x = PAGE_SIZE * (x \div PAGE_SIZE)
  /\ \A k \in Nat : PAGE_SIZE * k \in Nat /\ Aligned(PAGE_SIZE * k)
<1>1. \A x \in Nat : x = PAGE_SIZE * (x \div PAGE_SIZE) + (x % PAGE_SIZE)
    BY SizeAssumption
<1>2. \A x \in Nat : x \div PAGE_SIZE \in Nat
    BY SizeAssumption
<1>3. \A k \in Nat : (PAGE_SIZE * k) % PAGE_SIZE = 0
    BY SizeAssumption
<1> QED
    BY <1>1, <1>2, <1>3, SizeAssumption DEF Aligned

\* Two page boundaries are the same or a page apart.
LEMMA AlignedApart ==
  ASSUME NEW x \in Nat, NEW y \in Nat, Aligned(x), Aligned(y), x < y
  PROVE  x + PAGE_SIZE <= y
<1> DEFINE i == x \div PAGE_SIZE
           j == y \div PAGE_SIZE
<1>1. i \in Nat /\ j \in Nat /\ x = PAGE_SIZE * i /\ y = PAGE_SIZE * j
    BY AlignedMultiple
<1> HIDE DEF i, j
<1>2. i < j
    BY <1>1, SizeAssumption
<1>3. PAGE_SIZE * (i + 1) <= PAGE_SIZE * j
    BY <1>1, <1>2, SizeAssumption
<1> QED
    BY <1>1, <1>3, SizeAssumption

\* Sums and differences of page boundaries are page boundaries, and a large page is made
\* of pages.
LEMMA AlignedSum ==
  /\ \A x, y \in Nat : Aligned(x) /\ Aligned(y) => Aligned(x + y)
  /\ \A x, y \in Nat : Aligned(x) /\ Aligned(y) /\ x <= y => y - x \in Nat /\ Aligned(y - x)
  /\ Aligned(LARGE) /\ Aligned(PAGE_SIZE)
<1>1. ASSUME NEW x \in Nat, NEW y \in Nat, Aligned(x), Aligned(y)
      PROVE  Aligned(x + y) /\ (x <= y => y - x \in Nat /\ Aligned(y - x))
  <2> DEFINE i == x \div PAGE_SIZE
             j == y \div PAGE_SIZE
  <2>1. i \in Nat /\ j \in Nat /\ x = PAGE_SIZE * i /\ y = PAGE_SIZE * j
      BY <1>1, AlignedMultiple
  <2> HIDE DEF i, j
  <2>2. x + y = PAGE_SIZE * (i + j) /\ i + j \in Nat
      BY <2>1, SizeAssumption
  <2>3. Aligned(x + y)
      BY <2>2, AlignedMultiple
  <2>4. ASSUME x <= y PROVE y - x \in Nat /\ Aligned(y - x)
    <3>1. CASE x = y
      <4>1. y - x = PAGE_SIZE * 0
          BY <3>1, SizeAssumption
      <4> QED
          BY <3>1, <4>1, AlignedMultiple
    <3>2. CASE x < y
      <4>1. i < j
          BY <2>1, <3>2, SizeAssumption
      <4>2. j - i \in Nat /\ y - x = PAGE_SIZE * (j - i)
          BY <2>1, <4>1, SizeAssumption
      <4> QED
          BY <4>2, AlignedMultiple
    <3> QED
        BY <2>4, <3>1, <3>2
  <2> QED
      BY <2>3, <2>4
<1>2. Aligned(LARGE) /\ Aligned(PAGE_SIZE)
    BY SizeAssumption DEF Aligned
<1> QED
    BY <1>1, <1>2

\* round_down is the last page boundary that is not after x.
LEMMA RoundDown ==
  ASSUME NEW x \in Nat
  PROVE  /\ round_down(x) \in Nat /\ Aligned(round_down(x))
         /\ round_down(x) <= x /\ x < round_down(x) + PAGE_SIZE
         /\ \A y \in Nat : Aligned(y) /\ y <= x => y <= round_down(x)
<1>1. x = PAGE_SIZE * (x \div PAGE_SIZE) + (x % PAGE_SIZE) /\ x \div PAGE_SIZE \in Nat
    BY SizeAssumption
<1>2. (x % PAGE_SIZE) \in 0..(PAGE_SIZE - 1)
    BY SizeAssumption
<1> DEFINE k == x \div PAGE_SIZE
<1> HIDE DEF k
<1>3. round_down(x) = PAGE_SIZE * k /\ k \in Nat
    BY <1>1, <1>2, SizeAssumption DEF round_down, k
<1>4. round_down(x) \in Nat /\ Aligned(round_down(x))
    BY <1>3, AlignedMultiple
<1>5. round_down(x) <= x /\ x < round_down(x) + PAGE_SIZE
    BY <1>2, SizeAssumption DEF round_down
<1>6. ASSUME NEW y \in Nat, Aligned(y), y <= x PROVE y <= round_down(x)
  <2> HIDE DEF round_down
  <2>1. CASE round_down(x) < y
      BY <1>4, <1>5, <1>6, <2>1, AlignedApart, SizeAssumption
  <2> QED
      BY <1>4, <2>1
<1> QED
    BY <1>4, <1>5, <1>6

\* round_up is the first page boundary that is not before x.
LEMMA RoundUp ==
  ASSUME NEW x \in Nat
  PROVE  /\ round_up(x) \in Nat /\ Aligned(round_up(x)) /\ x <= round_up(x)
         /\ \A y \in Nat : Aligned(y) /\ x <= y => round_up(x) <= y
<1> DEFINE z == x + PAGE_SIZE - 1
<1>1. z \in Nat
    BY SizeAssumption
<1>2. round_up(x) = round_down(z)
    BY DEF round_up
<1>3. /\ round_down(z) \in Nat /\ Aligned(round_down(z))
      /\ round_down(z) <= z /\ z < round_down(z) + PAGE_SIZE
    BY <1>1, RoundDown
<1>4. x <= round_up(x)
    BY <1>2, <1>3, SizeAssumption
<1>5. ASSUME NEW y \in Nat, Aligned(y), x <= y PROVE round_up(x) <= y
  <2>1. CASE y < round_down(z)
    <3>1. y + PAGE_SIZE <= round_down(z)
        BY <1>3, <1>5, <2>1, AlignedApart
    <3> QED
        BY <1>3, <1>5, <3>1, SizeAssumption
  <2> QED
      BY <1>2, <1>3, <2>1
<1> QED
    BY <1>2, <1>3, <1>4, <1>5

\* A page boundary is rounded to itself.
LEMMA RoundSame ==
  ASSUME NEW x \in Nat, Aligned(x)
  PROVE  round_down(x) = x /\ round_up(x) = x
<1>1. round_down(x) \in Nat /\ round_down(x) <= x /\ x <= round_down(x)
    BY RoundDown
<1>2. round_up(x) \in Nat /\ x <= round_up(x) /\ round_up(x) <= x
    BY RoundUp
<1> QED
    BY <1>1, <1>2

\* The large page of an address.
LEMMA Block ==
  ASSUME NEW x \in Nat
  PROVE  block(x) \in Nat /\ block(x) <= x /\ x < block(x) + LARGE
<1>1. x % LARGE \in 0..(LARGE - 1) /\ x % LARGE <= x
    BY SizeAssumption
<1> QED
    BY <1>1, SizeAssumption DEF block

\* The pages of a resource are those between its boundaries rounded outwards.
LEMMA PagesOf ==
  ASSUME NEW r, r.start \in Nat, r.end \in Nat, NEW x \in Nat
  PROVE  Touches(r, x) <=> round_down(r.start) <= x /\ x < round_up(r.end)
<1> DEFINE d == round_down(x)
           s == round_down(r.start)
           e == round_up(r.end)
<1>1. /\ d \in Nat /\ Aligned(d) /\ d <= x /\ x < d + PAGE_SIZE
      /\ \A y \in Nat : Aligned(y) /\ y <= x => y <= d
    BY RoundDown
<1>2. s \in Nat /\ Aligned(s) /\ s <= r.start /\ r.start < s + PAGE_SIZE
    BY RoundDown
<1>3. /\ e \in Nat /\ Aligned(e) /\ r.end <= e
      /\ \A y \in Nat : Aligned(y) /\ r.end <= y => e <= y
    BY RoundUp
<1>4. Touches(r, x) <=> r.start < d + PAGE_SIZE /\ d < r.end
    BY DEF Touches
<1> HIDE DEF d, s, e
<1>5. ASSUME r.start < d + PAGE_SIZE, d < r.end PROVE s <= x /\ x < e
  <2>1. d < s => d + PAGE_SIZE <= s
      BY <1>1, <1>2, AlignedApart
  <2>2. d + PAGE_SIZE <= e
      BY <1>1, <1>3, <1>5, AlignedApart
  <2> QED
      BY <1>1, <1>2, <1>3, <1>5, <2>1, <2>2, SizeAssumption
<1>6. ASSUME s <= x, x < e PROVE r.start < d + PAGE_SIZE /\ d < r.end
  <2>1. s <= d
      BY <1>1, <1>2, <1>6
  <2>2. r.end <= d => e <= d
      BY <1>1, <1>3
  <2> QED
      BY <1>1, <1>2, <1>3, <1>6, <2>1, <2>2, SizeAssumption
<1> QED
    BY <1>4, <1>5, <1>6 DEF s, e

-----------------------------------------------------------------------------
(* Regions *)

\* The flags are names.
LEMMA FlagType == ASSUME NEW n PROVE mem_region_flag(n) \in SUBSET Flag
BY DEF mem_region_flag, Flag

\* Replacing the last region keeps a list apart if the new one is no lower and clear.
LEMMA ApartLast ==
  ASSUME NEW q \in Seq(Region), NEW h, q # <<>>, Apart(q, h),
         NEW r \in Region, r.start < r.end, Aligned(r.start), Aligned(r.end),
         ~Overlap(r, h), r.start = q[Len(q)].start
  PROVE  LET p == [q EXCEPT ![Len(q)] = r]
         IN  p \in Seq(Region) /\ Len(p) = Len(q) /\ p[Len(p)] = r /\ Apart(p, h)
<1> DEFINE n == Len(q)
           p == [q EXCEPT ![n] = r]
<1>1. n \in Nat /\ n >= 1 /\ n \in 1..Len(q)
    OBVIOUS
<1>2. p \in Seq(Region) /\ Len(p) = n
    BY <1>1
<1>3. p[n] = r /\ \A i \in 1..n : i # n => p[i] = q[i]
    BY <1>1
<1> HIDE DEF p
<1>4. ASSUME NEW i \in 1..n
      PROVE  p[i].start < p[i].end /\ Aligned(p[i].start) /\ Aligned(p[i].end) /\ ~Overlap(p[i], h)
    BY <1>3, <1>4 DEF Apart
<1>5. ASSUME NEW i \in 1..n, NEW j \in 1..n, i < j PROVE p[i].end <= p[j].start
  <2>1. i # n /\ p[i] = q[i] /\ p[j].start = q[j].start
      BY <1>3, <1>5
  <2> QED
      BY <1>5, <2>1 DEF Apart
<1>6. Apart(p, h)
    BY <1>2, <1>4, <1>5 DEF Apart
<1> QED
    BY <1>2, <1>3, <1>6 DEF p

\* Appending a region keeps a list apart if the new one is above the last and clear.
LEMMA ApartAppend ==
  ASSUME NEW q \in Seq(Region), NEW h, Apart(q, h),
         NEW r \in Region, r.start < r.end, Aligned(r.start), Aligned(r.end),
         ~Overlap(r, h), q # <<>> => q[Len(q)].end <= r.start
  PROVE  LET p == Append(q, r)
         IN  p \in Seq(Region) /\ Len(p) = Len(q) + 1 /\ p[Len(p)] = r /\ Apart(p, h)
<1> DEFINE n == Len(q)
           p == Append(q, r)
<1>1. n \in Nat /\ p \in Seq(Region) /\ Len(p) = n + 1 /\ p[n + 1] = r
    OBVIOUS
<1>2. \A i \in 1..n : p[i] = q[i]
    OBVIOUS
<1> HIDE DEF p
<1>3. \A i \in 1..(n + 1) : i = n + 1 \/ i \in 1..n
    BY <1>1
<1>4. ASSUME NEW i \in 1..(n + 1)
      PROVE  p[i].start < p[i].end /\ Aligned(p[i].start) /\ Aligned(p[i].end) /\ ~Overlap(p[i], h)
    BY <1>1, <1>2, <1>3 DEF Apart
<1>5. ASSUME NEW i \in 1..(n + 1), NEW j \in 1..(n + 1), i < j PROVE p[i].end <= p[j].start
  <2>1. i \in 1..n /\ p[i] = q[i] /\ q[i] \in Region /\ q[n] \in Region /\ n \in 1..n
      BY <1>1, <1>2, <1>5
  <2>2. CASE j \in 1..n
      BY <1>2, <1>5, <2>1, <2>2 DEF Apart
  <2>3. CASE j = n + 1
    <3>1. q[i].end <= q[n].end
      <4>1. CASE i = n
          BY <2>1, <4>1 DEF Region
      <4>2. CASE i # n
        <5>1. q[i].end <= q[n].start /\ q[n].start < q[n].end
            BY <1>1, <2>1, <4>2 DEF Apart
        <5> QED
            BY <2>1, <5>1 DEF Region
      <4> QED
          BY <4>1, <4>2
    <3>2. q[n].end <= r.start /\ p[j] = r
        BY <1>1, <2>1, <2>3
    <3> QED
        BY <2>1, <3>1, <3>2 DEF Region
  <2> QED
      BY <1>3, <2>2, <2>3
<1>6. Apart(p, h)
    BY <1>1, <1>4, <1>5 DEF Apart
<1> QED
    BY <1>1, <1>6 DEF p

\* The last region grows to e: it has what it had and the rest of [s, e).
LEMMA ExtendedLast ==
  ASSUME NEW q \in Seq(Region), q # <<>>, NEW r \in Region, NEW s \in Nat, NEW f \in SUBSET Flag,
         r.start = q[Len(q)].start, r.start <= s, s < q[Len(q)].end, q[Len(q)].end <= r.end,
         r.flags = q[Len(q)].flags \cup f
  PROVE  Extended(q, [q EXCEPT ![Len(q)] = r], s, r.end, f)
<1> DEFINE n == Len(q)
           p == [q EXCEPT ![n] = r]
           l == q[n]
<1>1. n \in 1..n /\ Len(p) = n /\ p[n] = r /\ \A i \in 1..n : i # n => p[i] = q[i]
    OBVIOUS
<1>2. \A i \in 1..n : q[i] \in Region
    OBVIOUS
<1>3. \A i \in 1..n : q[i].start \in Nat /\ q[i].end \in Nat
    BY <1>2 DEF Region
<1>4. r.start \in Nat /\ r.end \in Nat
    BY DEF Region
<1>5. l.start = r.start /\ s < l.end /\ l.end <= r.end /\ r.flags = l.flags \cup f
    OBVIOUS
<1> HIDE DEF n, p
<1>6. ASSUME NEW i \in 1..n
      PROVE  \E j \in 1..n : p[j].start <= q[i].start /\ q[i].end <= p[j].end
                             /\ q[i].flags \subseteq p[j].flags
  <2>1. p[i].start <= q[i].start /\ q[i].end <= p[i].end /\ q[i].flags \subseteq p[i].flags
    <3>1. CASE i = n
        BY <1>1, <1>3, <1>4, <1>5, <3>1
    <3>2. CASE i # n
        BY <1>1, <1>3, <3>2
    <3> QED
        BY <3>1, <3>2
  <2> QED
      BY <2>1
<1>7. p[n].start <= s /\ r.end <= p[n].end /\ f \subseteq p[n].flags
    BY <1>1, <1>4, <1>5
<1>8. ASSUME NEW j \in 1..n, NEW x \in Nat, In(p[j], x)
      PROVE  (s <= x /\ x < r.end) \/ \E i \in 1..n : In(q[i], x)
  <2>1. CASE j # n
      BY <1>1, <1>8, <2>1
  <2>2. CASE j = n
    <3>1. r.start <= x /\ x < r.end
        BY <1>1, <1>8, <2>2 DEF In
    <3>2. CASE x < l.end
      <4>1. In(q[n], x)
          BY <1>5, <3>1, <3>2 DEF In
      <4> QED
          BY <1>1, <4>1
    <3>3. CASE ~(x < l.end)
        BY <1>1, <1>3, <1>5, <3>1, <3>3
    <3> QED
        BY <3>2, <3>3
  <2> QED
      BY <2>1, <2>2
<1> QED
    BY <1>1, <1>6, <1>7, <1>8 DEF Extended, n, p

\* A region is appended.
LEMMA ExtendedAppend ==
  ASSUME NEW q \in Seq(Region), NEW r \in Region
  PROVE  Extended(q, Append(q, r), r.start, r.end, r.flags)
<1> DEFINE n == Len(q)
           p == Append(q, r)
<1>1. n \in Nat /\ Len(p) = n + 1 /\ p[n + 1] = r /\ \A i \in 1..n : p[i] = q[i]
    OBVIOUS
<1>2. \A i \in 1..n : q[i] \in Region
    OBVIOUS
<1>3. \A i \in 1..n : q[i].start \in Nat /\ q[i].end \in Nat
    BY <1>2 DEF Region
<1>4. r.start \in Nat /\ r.end \in Nat
    BY DEF Region
<1> HIDE DEF n, p
<1>5. n + 1 \in 1..(n + 1) /\ \A i \in 1..n : i \in 1..(n + 1)
    BY <1>1
<1>6. ASSUME NEW i \in 1..n
      PROVE  \E j \in 1..(n + 1) : p[j].start <= q[i].start /\ q[i].end <= p[j].end
                                   /\ q[i].flags \subseteq p[j].flags
    BY <1>1, <1>3, <1>5
<1>7. p[n + 1].start <= r.start /\ r.end <= p[n + 1].end /\ r.flags \subseteq p[n + 1].flags
    BY <1>1, <1>4
<1>8. ASSUME NEW j \in 1..(n + 1), NEW x \in Nat, In(p[j], x)
      PROVE  (r.start <= x /\ x < r.end) \/ \E i \in 1..n : In(q[i], x)
  <2>1. CASE j = n + 1
      BY <1>1, <1>8, <2>1 DEF In
  <2>2. CASE j \in 1..n
      BY <1>1, <1>8, <2>2
  <2> QED
      BY <1>1, <2>1, <2>2
<1> QED
    BY <1>1, <1>5, <1>6, <1>7, <1>8 DEF Extended, n, p

\* What add_region does to a list: the new interval, which is above the last resource
\* and clear of the hypervisor, is widened without touching either.
LEMMA AddRegion ==
  ASSUME NEW q \in Seq(Region), NEW h \in HvRegion, Apart(q, h),
         NEW a \in Nat, NEW b \in Nat, a < b, NEW name,
         b <= h.start \/ h.end <= a,
         NEW prev \in Nat, q = <<>> \/ prev <= a, Below(q, prev)
  PROVE  LET p == add_region(q, a, b, name)
         IN  /\ p \in Seq(Region) /\ Apart(p, h) /\ Below(p, b) /\ Len(p) <= Len(q) + 1
             /\ Extended(q, p, round_down(a), round_up(b), mem_region_flag(name))
<1> DEFINE s == round_down(a)
           e == round_up(b)
           l == q[Len(q)]
           f == mem_region_flag(name)
           p == add_region(q, a, b, name)
<1>1. /\ s \in Nat /\ Aligned(s) /\ s <= a /\ a < s + PAGE_SIZE
      /\ \A y \in Nat : Aligned(y) /\ y <= a => y <= s
    BY RoundDown
<1>2. /\ e \in Nat /\ Aligned(e) /\ b <= e
      /\ \A y \in Nat : Aligned(y) /\ b <= y => e <= y
    BY RoundUp
<1>3. h.start \in Nat /\ h.end \in Nat /\ h.start < h.end /\ Aligned(h.start) /\ Aligned(h.end)
    BY RegionAssumption
<1>4. s < e /\ (e <= h.start \/ h.end <= s)
    BY <1>1, <1>2, <1>3
<1>5. f \in SUBSET Flag
    BY FlagType
<1>6. p = IF q # <<>> /\ s < l.end - 1
          THEN [q EXCEPT ![Len(q)] = [start |-> IF s < l.start THEN s ELSE l.start,
                                      end |-> IF e > l.end THEN e ELSE l.end,
                                      flags |-> l.flags \cup f]]
          ELSE Append(q, [start |-> s, end |-> e, flags |-> f])
    BY DEF add_region
<1>7. ASSUME q # <<>>
      PROVE  /\ l \in Region /\ l.start \in Nat /\ l.end \in Nat /\ l.flags \in SUBSET Flag
             /\ l.start < l.end /\ Aligned(l.start) /\ Aligned(l.end) /\ ~Overlap(l, h)
             /\ l.start <= s /\ l.end <= e
  <2>1. Len(q) \in 1..Len(q)
      BY <1>7
  <2>2. l \in Region
      BY <2>1
  <2>3. l.start \in Nat /\ l.end \in Nat /\ l.flags \in SUBSET Flag
      BY <2>2 DEF Region
  <2>4. l.start < l.end /\ Aligned(l.start) /\ Aligned(l.end) /\ ~Overlap(l, h)
      BY <2>1 DEF Apart
  <2>5. l.start < prev /\ l.end <= round_up(prev) /\ prev <= a
      BY <1>7 DEF Below
  <2>6. l.start <= s
      BY <1>1, <2>3, <2>4, <2>5
  <2>7. round_up(prev) \in Nat /\ round_up(prev) <= e
      BY <1>2, <2>5, RoundUp
  <2> HIDE DEF l, s, e
  <2>8. l.end <= e
      BY <1>2, <2>3, <2>5, <2>7
  <2> QED
      BY <2>2, <2>3, <2>4, <2>6, <2>8
<1> HIDE DEF s, e, l, f, p
<1>8. CASE q # <<>> /\ s < l.end - 1
  <2> DEFINE r == [start |-> l.start, end |-> e, flags |-> l.flags \cup f]
  <2>1. l \in Region /\ l.start \in Nat /\ l.end \in Nat /\ l.flags \in SUBSET Flag
        /\ l.start < l.end /\ Aligned(l.start) /\ Aligned(l.end) /\ ~Overlap(l, h)
        /\ l.start <= s /\ l.end <= e
      BY <1>7, <1>8
  <2>2. r.start = l.start /\ r.end = e /\ r \in Region
      BY <1>2, <1>5, <2>1 DEF Region
  <2>3. p = [q EXCEPT ![Len(q)] = r]
    <3>1. (IF s < l.start THEN s ELSE l.start) = l.start
        BY <1>1, <2>1
    <3>2. (IF e > l.end THEN e ELSE l.end) = e
        BY <1>2, <2>1
    <3> QED
        BY <1>6, <1>8, <3>1, <3>2
  <2>4. ~Overlap(r, h)
      BY <1>1, <1>2, <1>3, <1>4, <1>8, <2>1, <2>2 DEF Overlap
  <2>5. r.start < r.end /\ Aligned(r.start) /\ Aligned(r.end) /\ r.start = q[Len(q)].start
      BY <1>1, <1>2, <1>4, <2>1, <2>2 DEF l
  <2> HIDE DEF r
  <2>6. p \in Seq(Region) /\ Len(p) = Len(q) /\ p[Len(p)] = r /\ Apart(p, h)
      BY <1>8, <2>2, <2>3, <2>4, <2>5, ApartLast
  <2>7. Below(p, b)
    <3>1. r.start < b /\ r.end <= e
        BY <1>1, <1>2, <2>1, <2>2
    <3> QED
        BY <2>6, <3>1 DEF Below, e
  <2>8. Extended(q, p, s, e, f)
    <3>1. /\ r.start = q[Len(q)].start /\ r.start <= s /\ s < q[Len(q)].end
          /\ q[Len(q)].end <= r.end /\ r.flags = q[Len(q)].flags \cup f
        BY <1>1, <1>8, <2>1, <2>2 DEF l, r
    <3>2. Extended(q, [q EXCEPT ![Len(q)] = r], s, r.end, f)
        BY <1>1, <1>5, <1>8, <2>2, <3>1, ExtendedLast
    <3> QED
        BY <2>2, <2>3, <3>2
  <2> QED
      BY <2>6, <2>7, <2>8 DEF p, s, e, f
<1>9. CASE ~(q # <<>> /\ s < l.end - 1)
  <2> DEFINE r == [start |-> s, end |-> e, flags |-> f]
  <2>1. r.start = s /\ r.end = e /\ r \in Region
      BY <1>1, <1>2, <1>5 DEF Region
  <2>2. p = Append(q, r)
      BY <1>6, <1>9
  <2>3. ~Overlap(r, h)
      BY <1>1, <1>2, <1>3, <1>4, <2>1 DEF Overlap
  <2>4. q # <<>> => q[Len(q)].end <= r.start
    <3> SUFFICES ASSUME q # <<>> PROVE l.end <= s
        BY <2>1 DEF l
    <3>1. l.end \in Nat /\ Aligned(l.end) /\ l.end - 1 <= s
        BY <1>1, <1>7, <1>9
    <3>2. s < l.end => s + PAGE_SIZE <= l.end
        BY <1>1, <3>1, AlignedApart
    <3> QED
        BY <1>1, <3>1, <3>2, SizeAssumption
  <2>5. r.start < r.end /\ Aligned(r.start) /\ Aligned(r.end)
      BY <1>1, <1>2, <1>4, <2>1
  <2> HIDE DEF r
  <2>6. p \in Seq(Region) /\ Len(p) = Len(q) + 1 /\ p[Len(p)] = r /\ Apart(p, h)
      BY <2>1, <2>2, <2>3, <2>4, <2>5, ApartAppend
  <2>7. Below(p, b)
    <3>1. r.start < b /\ r.end <= e
        BY <1>1, <1>2, <2>1
    <3> QED
        BY <2>6, <3>1 DEF Below, e
  <2>8. Extended(q, p, s, e, f)
    <3>1. r.flags = f
        BY DEF r
    <3> QED
        BY <2>1, <2>2, <3>1, ExtendedAppend
  <2> QED
      BY <2>6, <2>7, <2>8 DEF p, s, e, f
<1> QED
    BY <1>8, <1>9 DEF p

\* A bound may be raised.
LEMMA BelowMore ==
  ASSUME NEW q \in Seq(Region), NEW x \in Nat, NEW y \in Nat, x <= y, Below(q, x)
  PROVE  Below(q, y)
<1> SUFFICES ASSUME q # <<>>
             PROVE  q[Len(q)].start < y /\ q[Len(q)].end <= round_up(y)
    BY DEF Below
<1>1. q[Len(q)] \in Region
    OBVIOUS
<1>2. q[Len(q)].start \in Nat /\ q[Len(q)].end \in Nat
    BY <1>1 DEF Region
<1>3. q[Len(q)].start < x /\ q[Len(q)].end <= round_up(x)
    BY DEF Below
<1>4. round_up(x) \in Nat /\ round_up(y) \in Nat /\ round_up(x) <= round_up(y)
    BY RoundUp
<1> QED
    BY <1>2, <1>3, <1>4

\* A resource beside the hypervisor brings its pages.
LEMMA GrownByAdd ==
  ASSUME NEW q \in Seq(Region), NEW p \in Seq(Region), NEW h, NEW r, r.start \in Nat, r.end \in Nat,
         Extended(q, p, round_down(r.start), round_up(r.end), mem_region_flag(r.name))
  PROVE  Grown(q, p, h, r)
<1> DEFINE s == round_down(r.start)
           e == round_up(r.end)
           f == mem_region_flag(r.name)
<1>1. s \in Nat /\ e \in Nat
    BY RoundDown, RoundUp
<1>2. \A x \in Nat : Touches(r, x) <=> s <= x /\ x < e
    BY PagesOf
<1>3. Extended(q, p, s, e, f)
    OBVIOUS
<1> HIDE DEF s, e
<1>4. \A j \in 1..Len(p) : p[j].start \in Nat /\ p[j].end \in Nat
  <2>1. \A j \in 1..Len(p) : p[j] \in Region
      OBVIOUS
  <2> QED
      BY <2>1 DEF Region
<1>5. ASSUME NEW x \in Nat, Touches(r, x)
      PROVE  \E j \in 1..Len(p) : In(p[j], x) /\ f \subseteq p[j].flags
  <2>1. PICK j \in 1..Len(p) : p[j].start <= s /\ e <= p[j].end /\ f \subseteq p[j].flags
      BY <1>3 DEF Extended
  <2>2. s <= x /\ x < e
      BY <1>2, <1>5
  <2>3. In(p[j], x)
      BY <1>1, <1>4, <2>1, <2>2 DEF In
  <2> QED
      BY <2>1, <2>3
<1> QED
    BY <1>2, <1>3, <1>5 DEF Extended, Grown

\* The same for the parts of a resource around the hypervisor.
LEMMA SplitRegion ==
  ASSUME NEW q \in Seq(Region), NEW h \in HvRegion, Apart(q, h),
         NEW r \in Resource, Encloses(r, h),
         NEW prev \in Nat, q = <<>> \/ prev <= r.start, Below(q, prev)
  PROVE  LET p == split_region(r, h, q)
         IN  /\ p \in Seq(Region) /\ Apart(p, h) /\ Below(p, r.end) /\ Grown(q, p, h, r)
             /\ Len(p) <= Len(q) + 2
             /\ ~(r.start < h.start /\ h.end < r.end) => Len(p) <= Len(q) + 1
<1> DEFINE left == IF r.start < h.start THEN add_region(q, r.start, h.start, r.name) ELSE q
           right == IF h.end < r.end THEN add_region(left, h.end, r.end, r.name) ELSE left
           s == round_down(r.start)
           e == round_up(r.end)
           f == mem_region_flag(r.name)
<1>1. /\ h.start \in Nat /\ h.end \in Nat /\ h.start < h.end
      /\ r.start \in Nat /\ r.end \in Nat /\ r.start <= h.start /\ h.end <= r.end
    BY RegionAssumption DEF Encloses, Resource
<1>2. Aligned(h.start) /\ Aligned(h.end)
    BY RegionAssumption
<1>3. round_up(h.start) = h.start /\ round_down(h.end) = h.end
  <2>1. round_up(h.start) \in Nat /\ h.start <= round_up(h.start) /\ round_up(h.start) <= h.start
      BY <1>1, <1>2, RoundUp
  <2>2. round_down(h.end) \in Nat /\ round_down(h.end) <= h.end /\ h.end <= round_down(h.end)
      BY <1>1, <1>2, RoundDown
  <2> QED
      BY <1>1, <2>1, <2>2
<1>4. PICK x \in Nat : /\ left \in Seq(Region) /\ Apart(left, h) /\ Below(left, x)
                       /\ left = <<>> \/ x <= h.start
                       /\ IF r.start < h.start
                          THEN Len(left) <= Len(q) + 1 /\ Extended(q, left, s, h.start, f)
                          ELSE left = q
  <2>1. CASE r.start < h.start
    <3>1. left = add_region(q, r.start, h.start, r.name)
        BY <2>1
    <3> HIDE DEF left
    <3>2. /\ left \in Seq(Region) /\ Apart(left, h) /\ Below(left, h.start)
          /\ Len(left) <= Len(q) + 1 /\ Extended(q, left, s, round_up(h.start), f)
        BY <1>1, <2>1, <3>1, AddRegion
    <3> QED
        BY <1>1, <1>3, <2>1, <3>2
  <2>2. CASE ~(r.start < h.start)
    <3>1. left = q
        BY <2>2
    <3>2. prev <= h.start \/ q = <<>>
        BY <1>1
    <3> HIDE DEF left
    <3> QED
        BY <2>2, <3>1, <3>2
  <2> QED
      BY <2>1, <2>2
<1> HIDE DEF left
<1>5. /\ right \in Seq(Region) /\ Apart(right, h) /\ Below(right, r.end)
      /\ IF h.end < r.end
         THEN Len(right) <= Len(left) + 1 /\ Extended(left, right, h.end, e, f)
         ELSE right = left
  <2>1. CASE h.end < r.end
    <3>1. left = <<>> \/ x <= h.end
        BY <1>1, <1>4
    <3>2. right = add_region(left, h.end, r.end, r.name)
        BY <2>1
    <3> HIDE DEF right
    <3>3. /\ right \in Seq(Region) /\ Apart(right, h) /\ Below(right, r.end)
          /\ Len(right) <= Len(left) + 1 /\ Extended(left, right, round_down(h.end), e, f)
      <4>1. left \in Seq(Region) /\ Apart(left, h) /\ Below(left, x) /\ x \in Nat
          BY <1>4
      <4>2. h.end \in Nat /\ r.end \in Nat /\ h.end < r.end /\ (r.end <= h.start \/ h.end <= h.end)
          BY <1>1, <2>1
      <4> QED
          BY ONLY <3>1, <3>2, <4>1, <4>2, h \in HvRegion, AddRegion DEF e, f
    <3> QED
        BY <1>3, <2>1, <3>3
  <2>2. CASE ~(h.end < r.end)
    <3>1. right = left
        BY <2>2
    <3>2. Below(left, r.end)
      <4>1. CASE left = <<>>
          BY <4>1 DEF Below
      <4>2. CASE x <= h.start
          BY <1>1, <1>4, <4>2, BelowMore
      <4> QED
          BY <1>4, <4>1, <4>2
    <3> QED
        BY <1>4, <2>2, <3>1, <3>2
  <2> QED
      BY <2>1, <2>2
<1> HIDE DEF right
<1>6. Len(q) \in Nat /\ Len(left) \in Nat /\ Len(right) \in Nat
    BY <1>4, <1>5
<1>7. /\ Len(right) <= Len(q) + 2
      /\ ~(r.start < h.start /\ h.end < r.end) => Len(right) <= Len(q) + 1
    BY <1>4, <1>5, <1>6
<1>8. Grown(q, right, h, r)
  <2>1. /\ \A i \in 1..Len(q) : q[i].start \in Nat /\ q[i].end \in Nat
        /\ \A i \in 1..Len(left) : left[i].start \in Nat /\ left[i].end \in Nat
        /\ \A i \in 1..Len(right) : right[i].start \in Nat /\ right[i].end \in Nat
    <3>1. /\ \A i \in 1..Len(q) : q[i] \in Region
          /\ \A i \in 1..Len(left) : left[i] \in Region
          /\ \A i \in 1..Len(right) : right[i] \in Region
        BY <1>4, <1>5
    <3> QED
        BY <3>1 DEF Region
  <2>2. s \in Nat /\ s <= r.start /\ e \in Nat /\ r.end <= e
      BY <1>1, RoundDown, RoundUp
  <2>3. \A y \in Nat : Touches(r, y) <=> s <= y /\ y < e
      BY <1>1, PagesOf
  <2>4. ~(r.start < h.start) => s = h.start
    <3>1. h.start <= r.start => h.start <= s
        BY <1>1, <1>2, RoundDown
    <3> QED
        BY <1>1, <2>2, <3>1
  <2>5. ~(h.end < r.end) => e = h.end
    <3>1. r.end <= h.end => e <= h.end
        BY <1>1, <1>2, RoundUp
    <3> QED
        BY <1>1, <2>2, <3>1
  <2> HIDE DEF s, e, f
  <2>6. /\ \A i \in 1..Len(q) : \E j \in 1..Len(left) :
             /\ left[j].start <= q[i].start /\ q[i].end <= left[j].end
             /\ q[i].flags \subseteq left[j].flags
        /\ \A j \in 1..Len(left) : \A y \in Nat :
             In(left[j], y) => (s <= y /\ y < h.start) \/ \E i \in 1..Len(q) : In(q[i], y)
    <3>1. CASE r.start < h.start
        BY <1>4, <3>1 DEF Extended
    <3>2. CASE ~(r.start < h.start)
      <4>1. left = q
          BY <1>4, <3>2
      <4> QED
          BY <2>1, <4>1
    <3> QED
        BY <3>1, <3>2
  <2>7. /\ \A i \in 1..Len(left) : \E j \in 1..Len(right) :
             /\ right[j].start <= left[i].start /\ left[i].end <= right[j].end
             /\ left[i].flags \subseteq right[j].flags
        /\ \A j \in 1..Len(right) : \A y \in Nat :
             In(right[j], y) => (h.end <= y /\ y < e) \/ \E i \in 1..Len(left) : In(left[i], y)
    <3>1. CASE h.end < r.end
        BY <1>5, <3>1 DEF Extended
    <3>2. CASE ~(h.end < r.end)
      <4>1. right = left
          BY <1>5, <3>2
      <4> QED
          BY <2>1, <4>1
    <3> QED
        BY <3>1, <3>2
  <2>8. ASSUME NEW i \in 1..Len(q)
        PROVE  \E j \in 1..Len(right) : /\ right[j].start <= q[i].start /\ q[i].end <= right[j].end
                                        /\ q[i].flags \subseteq right[j].flags
    <3>1. PICK k \in 1..Len(left) : /\ left[k].start <= q[i].start /\ q[i].end <= left[k].end
                                    /\ q[i].flags \subseteq left[k].flags
        BY <2>6
    <3>2. PICK j \in 1..Len(right) : /\ right[j].start <= left[k].start
                                     /\ left[k].end <= right[j].end
                                     /\ left[k].flags \subseteq right[j].flags
        BY <2>7
    <3>3. right[j].start <= q[i].start /\ q[i].end <= right[j].end
        BY <2>1, <3>1, <3>2
    <3> QED
        BY <3>1, <3>2, <3>3
  <2>9. ASSUME NEW y \in Nat, Touches(r, y), ~In(h, y)
        PROVE  \E j \in 1..Len(right) : In(right[j], y) /\ f \subseteq right[j].flags
    <3>1. s <= y /\ y < e /\ (y < h.start \/ h.end <= y)
        BY <1>1, <2>3, <2>9 DEF In
    <3>2. CASE y < h.start
      <4>1. r.start < h.start
          BY <1>1, <2>2, <2>4, <3>1, <3>2
      <4>2. PICK k \in 1..Len(left) :
              left[k].start <= s /\ h.start <= left[k].end /\ f \subseteq left[k].flags
          BY <1>4, <4>1 DEF Extended
      <4>3. PICK j \in 1..Len(right) : /\ right[j].start <= left[k].start
                                       /\ left[k].end <= right[j].end
                                       /\ left[k].flags \subseteq right[j].flags
          BY <2>7
      <4>4. right[j].start <= y /\ y < right[j].end
        <5>1. /\ right[j].start \in Nat /\ right[j].end \in Nat
              /\ left[k].start \in Nat /\ left[k].end \in Nat
            BY <2>1
        <5>2. right[j].start <= s /\ h.start <= right[j].end
          <6>1. /\ right[j].start <= left[k].start /\ left[k].start <= s /\ s \in Nat
                /\ h.start <= left[k].end /\ left[k].end <= right[j].end /\ h.start \in Nat
              BY <1>1, <2>2, <4>2, <4>3
          <6> QED
              BY ONLY <5>1, <6>1
        <5> QED
            BY ONLY <1>1, <2>2, <3>1, <3>2, <5>1, <5>2, y \in Nat
      <4> QED
          BY <4>2, <4>3, <4>4 DEF In
    <3>3. CASE h.end <= y
      <4>1. h.end < r.end
          BY <1>1, <2>2, <2>5, <3>1, <3>3
      <4>2. PICK j \in 1..Len(right) :
              right[j].start <= h.end /\ e <= right[j].end /\ f \subseteq right[j].flags
          BY <1>5, <4>1 DEF Extended
      <4>3. right[j].start <= y /\ y < right[j].end
          BY <1>1, <2>1, <2>2, <3>1, <3>3, <4>2
      <4> QED
          BY <4>2, <4>3 DEF In
    <3> QED
        BY <3>1, <3>2, <3>3
  <2>10. ASSUME NEW j \in 1..Len(right), NEW y \in Nat, In(right[j], y)
         PROVE  Touches(r, y) \/ \E i \in 1..Len(q) : In(q[i], y)
    <3>1. CASE h.end <= y /\ y < e
        BY <1>1, <2>2, <2>3, <3>1
    <3>2. ASSUME NEW k \in 1..Len(left), In(left[k], y)
          PROVE  Touches(r, y) \/ \E i \in 1..Len(q) : In(q[i], y)
      <4>1. CASE s <= y /\ y < h.start
          BY <1>1, <2>2, <2>3, <4>1
      <4> QED
          BY <2>6, <3>2, <4>1
    <3> QED
        BY <2>7, <2>10, <3>1, <3>2
  <2> QED
      BY <2>8, <2>9, <2>10 DEF Grown, f
<1> QED
    BY <1>5, <1>7, <1>8 DEF split_region, left, right

\* Regions that show the resources seen so far, and grow by r, show r as well.
LEMMA CoverGrow ==
  ASSUME NEW q \in Seq(Region), NEW p \in Seq(Region), NEW h, NEW r, NEW s,
         Covered(q, h, s), Grown(q, p, h, r)
  PROVE  Covered(p, h, s \cup {r})
<1>1. /\ \A i \in 1..Len(q) : q[i].start \in Nat /\ q[i].end \in Nat
      /\ \A i \in 1..Len(p) : p[i].start \in Nat /\ p[i].end \in Nat
  <2>1. (\A i \in 1..Len(q) : q[i] \in Region) /\ (\A i \in 1..Len(p) : p[i] \in Region)
      OBVIOUS
  <2> QED
      BY <2>1 DEF Region
<1>2. ASSUME NEW t \in s, NEW a \in Nat, Touches(t, a), ~In(h, a)
      PROVE  \E j \in 1..Len(p) : In(p[j], a) /\ mem_region_flag(t.name) \subseteq p[j].flags
  <2>1. PICK i \in 1..Len(q) : In(q[i], a) /\ mem_region_flag(t.name) \subseteq q[i].flags
      BY <1>2 DEF Covered
  <2>2. PICK j \in 1..Len(p) : /\ p[j].start <= q[i].start /\ q[i].end <= p[j].end
                               /\ q[i].flags \subseteq p[j].flags
      BY DEF Grown
  <2>3. In(p[j], a)
      BY <1>1, <2>1, <2>2 DEF In
  <2> QED
      BY <2>1, <2>2, <2>3
<1>3. ASSUME NEW a \in Nat, Touches(r, a), ~In(h, a)
      PROVE  \E j \in 1..Len(p) : In(p[j], a) /\ mem_region_flag(r.name) \subseteq p[j].flags
    BY <1>3 DEF Grown
<1>4. ASSUME NEW j \in 1..Len(p), NEW a \in Nat, In(p[j], a)
      PROVE  \E t \in s \cup {r} : Touches(t, a)
    BY <1>4 DEF Grown, Covered
<1>5. ASSUME NEW t \in s \cup {r}, NEW a \in Nat, Touches(t, a), ~In(h, a)
      PROVE  \E j \in 1..Len(p) : In(p[j], a) /\ mem_region_flag(t.name) \subseteq p[j].flags
    BY <1>2, <1>3, <1>5
<1> QED
    BY <1>4, <1>5 DEF Covered

-----------------------------------------------------------------------------
(* Resources *)

\* A set of naturals that is not empty has a least element.
LEMMA LeastElement ==
  ASSUME NEW S \in SUBSET Nat, S # {}
  PROVE  \E x \in S : \A y \in S : x <= y
<1> DEFINE LT == {ss \in Nat \X Nat : ss[1] < ss[2]}
<1>1. IsWellFoundedOn(LT, Nat)
    BY NatLessThanWellFounded, Zenon DEF OpToRel
<1> HIDE DEF LT
<1>2. PICK x \in S : \A y \in S : ~(<<y, x>> \in LT)
    BY <1>1, WFMin
<1>3. ASSUME NEW y \in S PROVE x <= y
  <2> DEFINE p == <<y, x>>
  <2>1. p \notin LT /\ p \in Nat \X Nat /\ p[1] = y /\ p[2] = x
      BY <1>2
  <2> HIDE DEF p
  <2> QED
      BY <2>1 DEF LT
<1> QED
    BY <1>3

\* A resource ends before each of the later ones begins.
LEMMA Pairwise ==
  ASSUME NEW l \in Seq(Resource), InOrder(l)
  PROVE  \A i, j \in 1..Len(l) : i < j => l[i].end <= l[j].start
<1>1. /\ \A k \in 1..Len(l) : l[k].start \in Nat /\ l[k].end \in Nat /\ l[k].start < l[k].end
      /\ \A k \in 1..Len(l) : k > 1 => l[k - 1].end <= l[k].start
  <2>1. \A k \in 1..Len(l) : l[k] \in Resource
      OBVIOUS
  <2> QED
      BY <2>1 DEF InOrder, Resource
<1> SUFFICES ASSUME NEW i \in 1..Len(l), \E j \in 1..Len(l) : i < j /\ ~(l[i].end <= l[j].start)
             PROVE  FALSE
    OBVIOUS
<1> DEFINE S == {j \in 1..Len(l) : i < j /\ ~(l[i].end <= l[j].start)}
<1>2. S \in SUBSET Nat /\ S # {}
    OBVIOUS
<1>3. PICK j \in S : \A k \in S : j <= k
  <2> HIDE DEF S
  <2> QED
      BY <1>2, LeastElement
<1>4. j \in 1..Len(l) /\ i < j /\ ~(l[i].end <= l[j].start) /\ j - 1 \in 1..Len(l) /\ j - 1 \notin S
    BY <1>3
<1>5. l[j - 1].end <= l[j].start
    BY <1>1, <1>4
<1>6. CASE i = j - 1
    BY <1>4, <1>5, <1>6
<1>7. CASE i < j - 1
  <2>1. l[i].end <= l[j - 1].start
      BY <1>4, <1>7
  <2>2. /\ l[i].end \in Nat /\ l[j].start \in Nat
        /\ l[j - 1].start \in Nat /\ l[j - 1].end \in Nat /\ l[j - 1].start < l[j - 1].end
      BY <1>1, <1>4
  <2> QED
      BY ONLY <1>4, <1>5, <2>1, <2>2
<1> QED
    BY <1>4, <1>6, <1>7

\* A part of a list.
LEMMA Part ==
  ASSUME NEW l \in Seq(Resource), NEW m \in 1..(Len(l) + 1), NEW n \in (m - 1)..Len(l)
  PROVE  /\ SubSeq(l, m, n) \in Seq(Resource) /\ Len(SubSeq(l, m, n)) = n - m + 1
         /\ \A i \in 1..(n - m + 1) : SubSeq(l, m, n)[i] = l[m + i - 1]
<1>1. \A i \in m..n : l[i] \in Resource
    OBVIOUS
<1>2. /\ SubSeq(l, m, n) \in Seq(Resource)
      /\ Len(SubSeq(l, m, n)) = IF m <= n THEN n - m + 1 ELSE 0
      /\ \A i \in 1..(n - m + 1) : SubSeq(l, m, n)[i] = l[m + i - 1]
    BY <1>1, SubSeqProperties
<1> QED
    BY <1>2

\* Releasing a resource keeps the others in order.
LEMMA ReleaseInOrder ==
  ASSUME NEW l \in Seq(Resource), InOrder(l), NEW p \in release(l)
  PROVE  p \in Seq(Resource) /\ InOrder(p)
<1>1. CASE p = l
    BY <1>1
<1>2. ASSUME NEW i \in 1..Len(l), p = SubSeq(l, 1, i - 1) \o SubSeq(l, i + 1, Len(l))
      PROVE  p \in Seq(Resource) /\ InOrder(p)
  <2> DEFINE x == SubSeq(l, 1, i - 1)
             y == SubSeq(l, i + 1, Len(l))
  <2>a. x \in Seq(Resource) /\ Len(x) = i - 1 /\ \A k \in 1..(i - 1) : x[k] = l[k]
      BY Part
  <2>b. y \in Seq(Resource) /\ Len(y) = Len(l) - i /\ \A k \in 1..(Len(l) - i) : y[k] = l[i + k]
      BY Part
  <2> HIDE DEF x, y
  <2>c. /\ x \o y \in Seq(Resource) /\ Len(x \o y) = Len(x) + Len(y)
        /\ \A k \in 1..(Len(x) + Len(y)) : (x \o y)[k] = IF k <= Len(x) THEN x[k] ELSE y[k - Len(x)]
      BY <2>a, <2>b, ConcatProperties
  <2>d. p = x \o y /\ Len(l) \in Nat
      BY <1>2 DEF x, y
  <2>2. p \in Seq(Resource) /\ Len(p) = Len(l) - 1
      BY <2>a, <2>b, <2>c, <2>d
  <2>3. \A k \in 1..Len(p) : p[k] = IF k < i THEN l[k] ELSE l[k + 1]
      BY <2>2, <2>a, <2>b, <2>c, <2>d
  <2>4. ASSUME NEW k \in 1..Len(p)
        PROVE  p[k].start < p[k].end /\ (k > 1 => p[k - 1].end <= p[k].start)
    <3>1. /\ \A j \in 1..Len(l) : l[j].start \in Nat /\ l[j].end \in Nat /\ l[j].start < l[j].end
          /\ \A j \in 1..Len(l) : j > 1 => l[j - 1].end <= l[j].start
      <4>1. \A j \in 1..Len(l) : l[j] \in Resource
          OBVIOUS
      <4> QED
          BY <4>1 DEF InOrder, Resource
    <3>2. k \in 1..Len(l) /\ k + 1 \in 1..Len(l)
        BY <2>2
    <3>3. p[k].start < p[k].end
        BY <2>3, <3>1, <3>2
    <3>4. ASSUME k > 1 PROVE p[k - 1].end <= p[k].start
      <4>1. k - 1 \in 1..Len(p) /\ k - 1 \in 1..Len(l)
          BY <3>4, <2>2
      <4>2. l[k - 1].end <= l[k].start /\ l[k].end <= l[k + 1].start
          BY <3>1, <3>2, <3>4
      <4>3. CASE k < i
        <5>1. p[k - 1] = l[k - 1] /\ p[k] = l[k]
            BY <2>3, <4>1, <4>3
        <5> QED
            BY <4>2, <5>1
      <4>4. CASE k = i
        <5>1. p[k - 1] = l[k - 1] /\ p[k] = l[k + 1]
            BY <2>3, <4>1, <4>4
        <5>2. /\ l[k - 1].end \in Nat /\ l[k].start \in Nat /\ l[k].end \in Nat
              /\ l[k + 1].start \in Nat /\ l[k].start < l[k].end
            BY <3>1, <3>2, <4>1
        <5>3. \A u, v, s, z \in Nat : u <= v /\ v < s /\ s <= z => u <= z
            OBVIOUS
        <5>4. l[k - 1].end <= l[k + 1].start
            BY ONLY <4>2, <5>2, <5>3
        <5> QED
            BY <5>1, <5>4
      <4>5. CASE k > i
        <5>1. p[k - 1] = l[k] /\ p[k] = l[k + 1]
            BY <2>3, <4>1, <4>5
        <5> QED
            BY <4>2, <5>1
      <4> QED
          BY <4>3, <4>4, <4>5
    <3> QED
        BY <3>3, <3>4
  <2> QED
      BY <2>2, <2>4 DEF InOrder
<1> QED
    BY <1>1, <1>2 DEF release

\* Requesting a region keeps the resources in order.
LEMMA RequestInOrder ==
  ASSUME NEW l \in Seq(Resource), InOrder(l), NEW h \in HvRegion, NEW p \in request(l, h)
  PROVE  p \in Seq(Resource) /\ InOrder(p)
<1> DEFINE r == HvResource(h)
<1>1. r \in Resource /\ r.start = h.start /\ r.end = h.end /\ r.start < r.end
    BY RegionAssumption DEF HvResource, Resource
<1> HIDE DEF r
<1>2. CASE p = l
    BY <1>2
<1>3. ASSUME NEW i \in 1..(Len(l) + 1), p = link(l, i, r),
             i > 1 => l[i - 1].end <= h.start, i <= Len(l) => h.end <= l[i].start
      PROVE  p \in Seq(Resource) /\ InOrder(p)
  <2> DEFINE x == SubSeq(l, 1, i - 1)
             y == SubSeq(l, i, Len(l))
             w == x \o <<r>>
  <2>1. p = w \o y /\ Len(l) \in Nat
      BY <1>3 DEF link
  <2>2. x \in Seq(Resource) /\ Len(x) = i - 1 /\ \A k \in 1..(i - 1) : x[k] = l[k]
      BY Part
  <2>3. /\ y \in Seq(Resource) /\ Len(y) = Len(l) - i + 1
        /\ \A k \in 1..(Len(l) - i + 1) : y[k] = l[i + k - 1]
      BY Part
  <2> HIDE DEF x, y
  <2>4. w \in Seq(Resource) /\ Len(w) = i /\ w[i] = r /\ \A k \in 1..(i - 1) : w[k] = l[k]
      BY <1>1, <2>2
  <2> HIDE DEF w
  <2>5. /\ w \o y \in Seq(Resource) /\ Len(w \o y) = Len(w) + Len(y)
        /\ \A k \in 1..(Len(w) + Len(y)) : (w \o y)[k] = IF k <= Len(w) THEN w[k] ELSE y[k - Len(w)]
      BY <2>3, <2>4, ConcatProperties
  <2>6. p \in Seq(Resource) /\ Len(p) = Len(l) + 1
      BY <2>1, <2>3, <2>4, <2>5
  <2>7. \A k \in 1..Len(p) : p[k] = IF k < i THEN l[k] ELSE IF k = i THEN r ELSE l[k - 1]
      BY <2>1, <2>3, <2>4, <2>5, <2>6
  <2>8. ASSUME NEW k \in 1..Len(p)
        PROVE  p[k].start < p[k].end /\ (k > 1 => p[k - 1].end <= p[k].start)
    <3>1. /\ \A j \in 1..Len(l) : l[j].start < l[j].end
          /\ \A j \in 1..Len(l) : j > 1 => l[j - 1].end <= l[j].start
        BY DEF InOrder
    <3>2. CASE k < i
      <4>1. k \in 1..Len(l) /\ k - 1 < i /\ (k > 1 => k - 1 \in 1..Len(p))
          BY <2>1, <2>6, <3>2
      <4>2. p[k] = l[k] /\ (k > 1 => p[k - 1] = l[k - 1])
          BY <2>7, <3>2, <4>1
      <4> QED
          BY <3>1, <4>1, <4>2
    <3>3. CASE k = i
      <4>1. p[k] = r /\ (k > 1 => k - 1 \in 1..Len(p) /\ p[k - 1] = l[k - 1])
          BY <2>1, <2>6, <2>7, <3>3
      <4> QED
          BY <1>1, <1>3, <3>3, <4>1
    <3>4. CASE k = i + 1
      <4>1. k - 1 \in 1..Len(p) /\ i \in 1..Len(l) /\ p[k] = l[i] /\ p[k - 1] = r
          BY <2>1, <2>6, <2>7, <3>4
      <4> QED
          BY <1>1, <1>3, <3>1, <4>1
    <3>5. CASE k > i + 1
      <4>1. k - 1 \in 1..Len(p) /\ k - 1 \in 1..Len(l) /\ k - 1 > 1 /\ k - 1 > i
          BY <2>1, <2>6, <3>5
      <4>2. p[k] = l[k - 1] /\ p[k - 1] = l[(k - 1) - 1]
          BY <2>7, <3>5, <4>1
      <4> QED
          BY <3>1, <4>1, <4>2
    <3> QED
        BY <3>2, <3>3, <3>4, <3>5
  <2> QED
      BY <2>6, <2>8 DEF InOrder
<1> QED
    BY <1>2, <1>3 DEF request, r

-----------------------------------------------------------------------------
(* The invariant *)

\* Before the first enable there are no regions.
LEMMA InitIInv == Init => IInv
<1> SUFFICES ASSUME Init PROVE IInv
    OBVIOUS
<1>1. iomem \in Seq(Resource) /\ InOrder(iomem)
    BY RegionAssumption DEF Init, InOrder
<1>2. regions = <<>> /\ pc = "idle" /\ child = 1
    BY DEF Init
<1>3. Apart(regions, hv)
    BY <1>2 DEF Apart
<1> QED
    BY <1>1, <1>2, <1>3 DEF IInv

\* What scanning one resource does to the regions: get_mem_region_one keeps them apart,
\* adds the pages of the resource, and at most two regions.
LEMMA ScanEffect ==
  ASSUME IInv, Scan
  PROVE  LET r == iomem[child]
         IN  /\ child \in 1..Len(iomem) /\ hv \in HvRegion
             /\ r \in Resource /\ r.start < r.end
             /\ child > 1 => iomem[child - 1] \in Resource /\ iomem[child - 1].end <= r.start
             /\ regions' \in Seq(Region) /\ Apart(regions', hv) /\ Below(regions', r.end)
             /\ Grown(regions, regions', hv, r) /\ Len(regions') <= Len(regions) + 2
             /\ ~(r.start < hv.start /\ hv.end < r.end) => Len(regions') <= Len(regions) + 1
<1> DEFINE r == iomem[child]
           prev == IF child = 1 THEN 0 ELSE iomem[child - 1].end
<1>1. child \in 1..Len(iomem) /\ hv \in HvRegion /\ pc = "scan"
    BY DEF IInv, Scan
<1>2. r \in Resource /\ r.start \in Nat /\ r.end \in Nat /\ r.start < r.end
  <2>1. iomem \in Seq(Resource) /\ InOrder(iomem)
      BY DEF IInv
  <2>2. r \in Resource
      BY <1>1, <2>1
  <2> QED
      BY <1>1, <2>1, <2>2 DEF InOrder, Resource
<1>3. /\ prev \in Nat /\ (regions = <<>> \/ prev <= r.start) /\ Below(regions, prev)
      /\ child > 1 => iomem[child - 1] \in Resource /\ iomem[child - 1].end <= r.start
  <2>1. CASE child = 1
      BY <1>1, <2>1 DEF IInv, Below
  <2>2. CASE child # 1
    <3>1. child - 1 \in 1..Len(iomem) /\ iomem[child - 1] \in Resource
        BY <1>1, <2>2 DEF IInv
    <3> QED
        BY <1>1, <2>2, <3>1 DEF IInv, InOrder, Resource
  <2> QED
      BY <2>1, <2>2
<1>4. regions \in Seq(Region) /\ Apart(regions, hv)
    BY DEF IInv
<1>5. hv.start \in Nat /\ hv.end \in Nat
    BY RegionAssumption, <1>1
<1>6. \/ ~Overlap(r, hv) /\ regions' = add_region(regions, r.start, r.end, r.name)
      \/ Encloses(r, hv) /\ regions' = split_region(r, hv, regions)
    BY DEF Scan
<1> HIDE DEF r, prev
<1>7. CASE ~Overlap(r, hv) /\ regions' = add_region(regions, r.start, r.end, r.name)
  <2>1. r.end <= hv.start \/ hv.end <= r.start
      BY <1>2, <1>5, <1>7 DEF Overlap
  <2>2. /\ regions' \in Seq(Region) /\ Apart(regions', hv) /\ Below(regions', r.end)
        /\ Len(regions') <= Len(regions) + 1
        /\ Extended(regions, regions', round_down(r.start), round_up(r.end),
                    mem_region_flag(r.name))
      BY <1>1, <1>2, <1>3, <1>4, <1>7, <2>1, AddRegion
  <2>3. Grown(regions, regions', hv, r)
      BY <1>2, <1>4, <2>2, GrownByAdd
  <2>4. Len(regions) \in Nat /\ Len(regions') \in Nat
      BY <1>4, <2>2
  <2> QED
      BY <1>1, <1>2, <1>3, <2>2, <2>3, <2>4 DEF r
<1>8. CASE Encloses(r, hv) /\ regions' = split_region(r, hv, regions)
  <2>1. /\ regions' \in Seq(Region) /\ Apart(regions', hv) /\ Below(regions', r.end)
        /\ Grown(regions, regions', hv, r) /\ Len(regions') <= Len(regions) + 2
        /\ ~(r.start < hv.start /\ hv.end < r.end) => Len(regions') <= Len(regions) + 1
      BY <1>1, <1>2, <1>3, <1>4, <1>8, SplitRegion
  <2> QED
      BY <1>1, <1>2, <1>3, <2>1 DEF r
<1> QED
    BY <1>6, <1>7, <1>8

\* Scanning one resource keeps the regions apart.
LEMMA ScanStep == IInv /\ Scan => IInv'
<1> SUFFICES ASSUME IInv, Scan PROVE IInv'
    OBVIOUS
<1>1. /\ child \in 1..Len(iomem) /\ hv \in HvRegion
      /\ regions' \in Seq(Region) /\ Apart(regions', hv) /\ Below(regions', iomem[child].end)
    BY ScanEffect
<1> QED
    BY <1>1 DEF IInv, Scan

\* Scanning one resource keeps the resources that were seen shown, and one region for
\* each, and one more for the one that is cut in two: no other contains the hypervisor.
LEMMA ScanInvScan == IInv /\ ScanInv /\ Scan => ScanInv'
<1> SUFFICES ASSUME IInv, ScanInv, Scan PROVE ScanInv'
    OBVIOUS
<1> DEFINE r == iomem[child]
           cut(t) == t.start < hv.start /\ hv.end < t.end
<1>1. /\ child \in 1..Len(iomem) /\ hv \in HvRegion
      /\ r \in Resource /\ r.start < r.end
      /\ child > 1 => iomem[child - 1] \in Resource /\ iomem[child - 1].end <= r.start
      /\ regions' \in Seq(Region)
      /\ Grown(regions, regions', hv, r) /\ Len(regions') <= Len(regions) + 2
      /\ ~cut(r) => Len(regions') <= Len(regions) + 1
    BY ScanEffect
<1>2. /\ seen \subseteq Resource /\ IsFiniteSet(seen) /\ Cardinality(seen) = child - 1
      /\ \A t \in seen : child > 1 /\ t.end <= iomem[child - 1].end
      /\ Covered(regions, hv, seen) /\ RegionsFit
    BY DEF ScanInv, Scan
<1>3. seen' = seen \cup {r} /\ child' = child + 1 /\ hv' = hv /\ iomem' = iomem /\ pc' = pc
    BY DEF Scan
<1>4. regions \in Seq(Region) /\ Len(regions) \in Nat /\ Len(regions') \in Nat /\ child \in Nat
    BY <1>1 DEF IInv
<1>5. iomem[child' - 1] = r
    BY <1>3, <1>4
<1>6. /\ r.start \in Nat /\ r.end \in Nat
      /\ hv.start \in Nat /\ hv.end \in Nat /\ hv.start < hv.end
      /\ child > 1 => iomem[child - 1].end \in Nat
      /\ \A t \in seen : t.start \in Nat /\ t.end \in Nat
    BY <1>1, <1>2, RegionAssumption DEF Resource
<1> HIDE DEF r
<1>7. ASSUME NEW t \in seen PROVE t.end <= r.start
    BY <1>1, <1>2, <1>6
<1>8. r \notin seen
    BY <1>1, <1>6, <1>7
<1>9. IsFiniteSet(seen') /\ Cardinality(seen') = child' - 1
  <2>1. IsFiniteSet(seen \cup {r}) /\ Cardinality(seen \cup {r}) = Cardinality(seen) + 1
      BY <1>2, <1>8, FS_AddElement
  <2> QED
      BY <1>2, <1>3, <1>4, <2>1
<1>10. seen' \subseteq Resource /\ \A t \in seen' : child' > 1 /\ t.end <= r.end
  <2>1. child' > 1
      BY <1>1, <1>3
  <2>2. \A t \in seen : t.end <= r.end
      BY <1>1, <1>6, <1>7
  <2> QED
      BY <1>1, <1>2, <1>3, <1>6, <2>1, <2>2
<1>11. Covered(regions', hv', seen')
    BY <1>1, <1>2, <1>3, <1>4, CoverGrow
<1>12. RegionsFit'
  <2>1. Len(regions) <= (child - 1) + (IF \E t \in seen : cut(t) THEN 1 ELSE 0)
      BY <1>2 DEF RegionsFit
  <2>2. Len(regions') <= child + (IF \E t \in seen' : cut(t) THEN 1 ELSE 0)
    <3>1. CASE cut(r)
      <4>1. ~\E t \in seen : cut(t)
          BY <1>6, <1>7, <3>1
      <4>2. \E t \in seen' : cut(t)
          BY <1>3, <3>1
      <4> QED
          BY <1>1, <1>4, <2>1, <4>1, <4>2
    <3>2. CASE ~cut(r)
      <4>1. (\E t \in seen' : cut(t)) <=> (\E t \in seen : cut(t))
          BY <1>3, <3>2
      <4> QED
          BY <1>1, <1>4, <2>1, <3>2, <4>1
    <3> QED
        BY <3>1, <3>2
  <2>3. Cardinality(seen') = child
      BY <1>3, <1>4, <1>9
  <2> QED
      BY <1>3, <2>2, <2>3 DEF RegionsFit
<1> QED
    BY <1>3, <1>5, <1>9, <1>10, <1>11, <1>12 DEF ScanInv

\* A step keeps the invariant.
LEMMA NextIInv == IInv /\ [Next]_vars => IInv'
<1> SUFFICES ASSUME IInv, [Next]_vars PROVE IInv'
    OBVIOUS
<1>1. ASSUME NEW r \in HvRegion, EnableBegin(r) PROVE IInv'
    BY <1>1 DEF IInv, EnableBegin, Apart
<1>2. CASE Scan
    BY <1>2, ScanStep
<1>3. CASE ScanRefused \/ ImageRefused
    BY <1>3 DEF IInv, ScanRefused, ImageRefused, Refuse, scanVars
<1>4. CASE Request
  <2>1. PICK l \in release(iomem) : iomem' \in request(l, hv)
      BY <1>4 DEF Request
  <2>2. hv \in HvRegion
      BY <1>4 DEF IInv, Request
  <2>3. l \in Seq(Resource) /\ InOrder(l)
      BY ReleaseInOrder DEF IInv
  <2>4. iomem' \in Seq(Resource) /\ InOrder(iomem')
      BY <2>1, <2>2, <2>3, RequestInOrder
  <2> QED
      BY <1>4, <2>4 DEF IInv, Request
<1>5. CASE Disable
    BY <1>5 DEF IInv, Disable
<1>6. ASSUME NEW e, Fail(e) PROVE IInv'
  <2>1. iomem' \in Seq(Resource) /\ InOrder(iomem')
      BY <1>6, ReleaseInOrder DEF IInv, Fail
  <2> QED
      BY <1>6, <2>1 DEF IInv, Fail, Refuse
<1>7. CASE UNCHANGED scanVars /\ UNCHANGED pc
    BY <1>7 DEF IInv, scanVars
<1>8. CASE insert
    BY <1>6, <1>7, <1>8 DEF insert
<1>9. CASE map_page
    BY <1>6, <1>7, <1>9 DEF map_page
<1>10. CASE inserted
    BY <1>7, <1>10 DEF inserted
<1>11. CASE EnableEnd
    BY <1>11 DEF IInv, EnableEnd
<1>12. CASE UNCHANGED vars
    BY <1>7, <1>12 DEF vars
<1>13. CASE RequestFails
    BY <1>6, <1>13 DEF RequestFails
<1> QED
    BY <1>1, <1>2, <1>3, <1>4, <1>5, <1>8, <1>9, <1>10, <1>11, <1>12, <1>13 DEF Next

\* Before the first scan nothing was seen.
LEMMA InitScanInv == Init => ScanInv
<1> SUFFICES ASSUME Init PROVE ScanInv
    OBVIOUS
<1>1. seen = {} /\ child = 1 /\ regions = <<>> /\ pc = "idle"
    BY DEF Init
<1>2. IsFiniteSet(seen) /\ Cardinality(seen) = 0
    BY <1>1, FS_EmptySet
<1>3. RegionsFit
    BY <1>1, <1>2 DEF RegionsFit
<1> QED
    BY <1>1, <1>2, <1>3 DEF ScanInv, Covered

\* A step keeps what is known of the scan.
LEMMA NextScanInv == IInv /\ ScanInv /\ [Next]_vars => ScanInv'
<1> SUFFICES ASSUME IInv, ScanInv, [Next]_vars PROVE ScanInv'
    OBVIOUS
<1>1. ASSUME NEW r \in HvRegion, EnableBegin(r) PROVE ScanInv'
  <2>1. seen' = {} /\ child' = 1 /\ regions' = <<>>
      BY <1>1 DEF EnableBegin
  <2>2. IsFiniteSet(seen') /\ Cardinality(seen') = 0
      BY <2>1, FS_EmptySet
  <2>3. RegionsFit'
      BY <2>1, <2>2 DEF RegionsFit
  <2>4. Covered(regions', hv', seen')
      BY <2>1 DEF Covered
  <2> QED
      BY <2>1, <2>2, <2>3, <2>4 DEF ScanInv
<1>2. CASE Scan
    BY <1>2, ScanInvScan
<1>3. CASE /\ UNCHANGED <<hv, child, regions, seen>>
           /\ pc' # "scan" \/ UNCHANGED <<iomem, pc>>
    BY <1>3 DEF ScanInv, RegionsFit
<1>4. CASE ScanRefused \/ ImageRefused
    BY <1>3, <1>4 DEF ScanRefused, ImageRefused, Refuse, scanVars
<1>5. CASE Request \/ Disable \/ EnableEnd
    BY <1>3, <1>5 DEF Request, Disable, EnableEnd
<1>6. ASSUME NEW e, Fail(e) PROVE ScanInv'
    BY <1>3, <1>6 DEF Fail, Refuse
<1>7. CASE UNCHANGED scanVars /\ UNCHANGED pc
    BY <1>3, <1>7 DEF scanVars
<1>8. CASE insert
    BY <1>6, <1>7, <1>8 DEF insert
<1>9. CASE map_page
    BY <1>6, <1>7, <1>9 DEF map_page
<1>10. CASE inserted
    BY <1>7, <1>10 DEF inserted
<1>11. CASE UNCHANGED vars
    BY <1>7, <1>11 DEF vars
<1>12. CASE RequestFails
    BY <1>6, <1>12 DEF RequestFails
<1> QED
    BY <1>1, <1>2, <1>4, <1>5, <1>8, <1>9, <1>10, <1>11, <1>12 DEF Next

-----------------------------------------------------------------------------
(* RVM *)

\* MemoryRegion::new takes a region of whole pages as it is.
LEMMA SameRegion ==
  ASSUME NEW s \in Nat, NEW e \in Nat, s < e, Aligned(s), Aligned(e), NEW f, NEW m
  PROVE  MemoryRegion(s, e, f, m) = [start |-> s, end |-> e, flags |-> f, mapper |-> m]
<1>1. e - s \in Nat /\ Aligned(e - s)
    BY AlignedSum
<1>2. round_down(s) = s /\ round_up(e - s) = e - s
    BY <1>1, RoundSame
<1>3. s + (e - s) = e
    OBVIOUS
<1> QED
    BY <1>2, <1>3 DEF MemoryRegion

\* What Cell::new_root inserts: the hypervisor's region and those of the driver.  They
\* are whole pages, and no two overlap.
LEMMA ToInsert ==
  ASSUME IInv, hv \in HvRegion
  PROVE  LET N == Len(regions) + 1
         IN  /\ RegionToInsert(1) = [start |-> hv.start, end |-> hv.end, flags |-> {"READ"},
                                     mapper |-> "empty"]
             /\ \A k \in 2..N :
                  RegionToInsert(k) = [start |-> regions[k - 1].start, end |-> regions[k - 1].end,
                                       flags |-> regions[k - 1].flags, mapper |-> "offset"]
             /\ \A k \in 1..N : Whole(RegionToInsert(k))
             /\ \A i, j \in 1..N : i # j =>
                  \/ RegionToInsert(i).end <= RegionToInsert(j).start
                  \/ RegionToInsert(j).end <= RegionToInsert(i).start
<1> DEFINE N == Len(regions) + 1
           R(k) == RegionToInsert(k)
<1>1. /\ hv.start \in Nat /\ hv.end \in Nat /\ hv.start < hv.end
      /\ Aligned(hv.start) /\ Aligned(hv.end)
    BY RegionAssumption
<1>2. N \in Nat /\ N >= 1
    BY DEF IInv
<1>3. ASSUME NEW i \in 1..Len(regions)
      PROVE  /\ regions[i].start \in Nat /\ regions[i].end \in Nat
             /\ regions[i].start < regions[i].end
             /\ Aligned(regions[i].start) /\ Aligned(regions[i].end)
             /\ regions[i].end <= hv.start \/ hv.end <= regions[i].start
  <2>1. regions[i] \in Region
      BY DEF IInv
  <2>2. regions[i].start \in Nat /\ regions[i].end \in Nat
      BY <2>1 DEF Region
  <2>3. /\ regions[i].start < regions[i].end
        /\ Aligned(regions[i].start) /\ Aligned(regions[i].end) /\ ~Overlap(regions[i], hv)
      BY DEF IInv, Apart
  <2> QED
      BY <1>1, <2>2, <2>3 DEF Overlap
<1>4. R(1) = [start |-> hv.start, end |-> hv.end, flags |-> {"READ"}, mapper |-> "empty"]
    BY <1>1, SameRegion DEF RegionToInsert
<1>5. ASSUME NEW k \in 2..N
      PROVE  R(k) = [start |-> regions[k - 1].start, end |-> regions[k - 1].end,
                     flags |-> regions[k - 1].flags, mapper |-> "offset"]
  <2>1. k - 1 \in 1..Len(regions) /\ k # 1
      BY <1>2
  <2>2. MemoryRegion(regions[k - 1].start, regions[k - 1].end, regions[k - 1].flags, "offset")
          = [start |-> regions[k - 1].start, end |-> regions[k - 1].end,
             flags |-> regions[k - 1].flags, mapper |-> "offset"]
      BY <1>3, <2>1, SameRegion
  <2> QED
      BY <2>1, <2>2 DEF RegionToInsert
<1> HIDE DEF R
<1>6. \A k \in 1..N : k = 1 \/ (k \in 2..N /\ k - 1 \in 1..Len(regions))
    BY <1>2
<1>7. ASSUME NEW k \in 1..N PROVE Whole(R(k))
  <2>1. CASE k = 1
      BY <1>1, <1>4, <2>1 DEF Whole
  <2>2. CASE k \in 2..N
    <3>1. R(k).start = regions[k - 1].start /\ R(k).end = regions[k - 1].end
        BY <1>5, <2>2
    <3> QED
        BY <1>3, <1>6, <2>2, <3>1 DEF Whole
  <2> QED
      BY <1>6, <2>1, <2>2
<1>8. ASSUME NEW i \in 1..N, NEW j \in 1..N, i < j
      PROVE  R(i).end <= R(j).start \/ R(j).end <= R(i).start
  <2>1. j \in 2..N /\ j - 1 \in 1..Len(regions)
      BY <1>2, <1>8
  <2>2. R(j).start = regions[j - 1].start /\ R(j).end = regions[j - 1].end
      BY <1>5, <2>1
  <2>3. CASE i = 1
      BY <1>3, <1>4, <2>1, <2>2, <2>3
  <2>4. CASE i \in 2..N
    <3>1. R(i).start = regions[i - 1].start /\ R(i).end = regions[i - 1].end
        BY <1>5, <2>4
    <3>2. i - 1 \in 1..Len(regions) /\ i - 1 < j - 1
        BY <1>2, <1>8, <2>4
    <3>3. regions[i - 1].end <= regions[j - 1].start
        BY <2>1, <3>2 DEF IInv, Apart
    <3> QED
        BY <2>2, <3>1, <3>3
  <2> QED
      BY <1>6, <2>3, <2>4
<1>9. \A i, j \in 1..N : i # j => i < j \/ j < i
    BY <1>2
<1>10. \A i, j \in 1..N : i # j => R(i).end <= R(j).start \/ R(j).end <= R(i).start
    BY <1>8, <1>9
<1> QED
    BY <1>4, <1>5, <1>7, <1>10 DEF R

\* What is being inserted does not overlap what was inserted before.
LEMMA CurrentApart ==
  ASSUME IInv, Inserting, NEW n, n = Cardinality(gpm), n <= Len(regions)
  PROVE  LET r == RegionToInsert(n + 1)
         IN  /\ n \in Nat /\ n + 1 \in 1..(Len(regions) + 1) /\ Whole(r)
             /\ \A g \in gpm : Whole(g) /\ (g.end <= r.start \/ r.end <= g.start)
<1>1. n \in Nat
    BY FS_CardinalityType DEF Inserting
<1>2. Len(regions) \in Nat /\ hv \in HvRegion
    BY DEF IInv, Inserting
<1>3. n + 1 \in 1..(Len(regions) + 1)
    BY <1>1, <1>2
<1>4. \A k \in 1..n : k \in 1..(Len(regions) + 1) /\ k # n + 1
    BY <1>1, <1>2
<1>5. \A g \in gpm : \E k \in 1..n : g = RegionToInsert(k)
    BY DEF Inserting
<1>6. /\ \A k \in 1..(Len(regions) + 1) : Whole(RegionToInsert(k))
      /\ \A i, j \in 1..(Len(regions) + 1) : i # j =>
           \/ RegionToInsert(i).end <= RegionToInsert(j).start
           \/ RegionToInsert(j).end <= RegionToInsert(i).start
    BY <1>2, ToInsert
<1> QED
    BY <1>1, <1>3, <1>4, <1>5, <1>6

\* The root cell's memory is empty when its regions are about to be inserted.
LEMMA NothingInserted ==
  ASSUME hv \in HvRegion, Len(regions) \in Nat, gpm = {}, cur = None, pt = {}, tables = {}
  PROVE  Inserting /\ Mapping
<1>1. IsFiniteSet(gpm) /\ Cardinality(gpm) = 0
    BY FS_EmptySet
<1>2. gpm = {RegionToInsert(k) : k \in 1..Cardinality(gpm)}
  <2>1. 1..Cardinality(gpm) = {}
      BY <1>1
  <2> QED
      BY <2>1
<1> QED
    BY <1>1, <1>2 DEF Inserting, Mapping

\* MemorySet::insert never finds an overlap; its first step leaves the table alone.
LEMMA InsertMapInv == IInv /\ MapInv /\ insert => MapInv'
<1> SUFFICES ASSUME IInv, MapInv, insert PROVE MapInv'
    OBVIOUS
<1> DEFINE n == Cardinality(gpm)
           r == RegionToInsert(n + 1)
<1>1. pc = "map" /\ cur = None /\ n <= Len(regions)
    BY DEF insert
<1>2. Inserting /\ Mapping /\ ~enabled
    BY <1>1 DEF MapInv
<1>3. /\ n \in Nat /\ n + 1 \in 1..(Len(regions) + 1) /\ Whole(r)
      /\ \A g \in gpm : Whole(g) /\ (g.end <= r.start \/ r.end <= g.start)
    BY <1>1, <1>2, CurrentApart
<1>4. \A g \in gpm : ~Overlap(g, r)
    BY <1>3 DEF Overlap, Whole
<1>5. test_free_area(r)
    BY <1>4 DEF test_free_area
<1>6. /\ cur' = r /\ va' = r.start
      /\ UNCHANGED <<scanVars, gpm, pt, tables, pc, err>>
    BY <1>5 DEF insert
<1> HIDE DEF r
<1>7. \A k : RegionToInsert(k)' = RegionToInsert(k)
    BY <1>6 DEF RegionToInsert, scanVars
<1>8. Inserting'
  <2>1. r = RegionToInsert(Cardinality(gpm) + 1)'
      BY <1>6 DEF r, RegionToInsert, scanVars
  <2>2. gpm' = {RegionToInsert(k)' : k \in 1..Cardinality(gpm)}
      BY <1>2, <1>6, <1>7 DEF Inserting
  <2>3. va' \in Nat /\ Aligned(va') /\ cur'.start <= va' /\ va' <= cur'.end
      BY <1>3, <1>6 DEF Whole
  <2>4. hv' \in HvRegion /\ IsFiniteSet(gpm') /\ Cardinality(gpm') <= Len(regions') + 1
      BY <1>2, <1>6 DEF Inserting, scanVars
  <2> QED
      BY <1>1, <1>6, <2>1, <2>2, <2>3, <2>4 DEF Inserting, scanVars
<1>9. Mapping'
  <2>1. \A e \in pt : e.va \in Nat /\ e.size \in {LARGE, PAGE_SIZE} /\ \E g \in gpm : From(e, g, g.end)
      BY <1>1, <1>2 DEF Mapping
  <2>2. Full(cur, va)'
      BY <1>3, <1>6 DEF Full, Whole
  <2>3. \A g \in gpm' : Full(g, g.end)'
      BY <1>2, <1>6 DEF Full, Mapping
  <2> QED
      BY <1>2, <1>6, <2>1, <2>2, <2>3 DEF Mapping
<1> QED
    BY <1>1, <1>2, <1>6, <1>8, <1>9 DEF MapInv, scanVars, RegionsAccepted, ReservedAccepted

\* An enable that fails for want of a frame or of the hypervisor's memory leaves no
\* mappings behind.
LEMMA FailMapInv ==
  ASSUME MapInv, pc # "idle", NEW e \in {"ENOMEM", "EINVAL request"}, Fail(e)
  PROVE  MapInv'
<1>1. enabled = FALSE
    BY DEF MapInv
<1>2. /\ pc' = "idle" /\ err' = e /\ res' = None
      /\ gpm' = {} /\ cur' = None /\ pt' = {} /\ tables' = {}
      /\ UNCHANGED <<hv, enabled>>
    BY DEF Fail, Refuse, NoImage
<1>3. RegionsAccepted' /\ ReservedAccepted'
    BY <1>2 DEF RegionsAccepted, ReservedAccepted
<1> QED
    BY <1>1, <1>2, <1>3 DEF MapInv

\* While a region is being mapped, each mapping is below va or above the region.
LEMMA MappingsBeside ==
  ASSUME IInv, Inserting, Mapping, cur # None
  PROVE  /\ Whole(cur) /\ \A g \in gpm : Whole(g)
         /\ \A e \in pt : e.va + e.size <= va \/ cur.end <= e.va
<1> DEFINE n == Cardinality(gpm)
<1>1. /\ n <= Len(regions) /\ cur = RegionToInsert(n + 1)
      /\ va \in Nat /\ cur.start <= va /\ va <= cur.end
    BY DEF Inserting
<1>2. /\ Whole(cur)
      /\ \A g \in gpm : Whole(g) /\ (g.end <= cur.start \/ cur.end <= g.start)
    BY <1>1, CurrentApart
<1>3. ASSUME NEW e \in pt PROVE e.va + e.size <= va \/ cur.end <= e.va
  <2>1. e.va \in Nat /\ e.va + e.size \in Nat
      BY SizeAssumption DEF Mapping
  <2>2. CASE From(e, cur, va)
      BY <2>2 DEF From
  <2>3. ASSUME NEW g \in gpm, From(e, g, g.end) PROVE e.va + e.size <= va \/ cur.end <= e.va
    <3>1. g.start <= e.va /\ e.va + e.size <= g.end
        BY <2>3 DEF From
    <3>2. g.start \in Nat /\ g.end \in Nat /\ cur.start \in Nat /\ cur.end \in Nat
        BY <1>2 DEF Whole
    <3>3. g.end <= cur.start \/ cur.end <= g.start
        BY <1>2
    <3> QED
        BY ONLY <1>1, <2>1, <3>1, <3>2, <3>3
  <2> QED
      BY <2>2, <2>3 DEF Mapping
<1> QED
    BY <1>2, <1>3

\* Level4PageTable::map never finds a page of the region mapped already.
LEMMA NotMapped ==
  ASSUME IInv, Inserting, Mapping, cur # None, va < cur.end
  PROVE  ~mapped(va, large_page(cur, va))
<1>1. /\ Whole(cur) /\ \A g \in gpm : Whole(g)
      /\ \A e \in pt : e.va + e.size <= va \/ cur.end <= e.va
    BY MappingsBeside
<1>2. va \in Nat /\ cur.end \in Nat /\ LARGE \in Nat \ {0} /\ PAGE_SIZE \in Nat \ {0}
    BY <1>1, SizeAssumption DEF Inserting, Whole
<1>3. \A e \in pt : e.va \in Nat /\ e.size \in Nat \ {0}
    BY <1>2 DEF Mapping
<1>4. \A e \in pt : e.va # va
    BY <1>1, <1>2, <1>3
<1>5. CASE large_page(cur, va)
  <2>1. va + LARGE <= cur.end
      BY <1>2, <1>5 DEF large_page
  <2>2. ASSUME va \in tables PROVE FALSE
    <3>1. PICK e \in pt : e.size = PAGE_SIZE /\ block(e.va) = va
        BY <2>2 DEF Mapping
    <3>2. va <= e.va /\ e.va < va + LARGE
        BY <1>3, <3>1, Block
    <3> QED
        BY <1>1, <1>2, <1>3, <2>1, <3>1, <3>2
  <2> QED
      BY <1>4, <1>5, <2>2 DEF mapped
<1>6. CASE ~large_page(cur, va)
  <2>1. ASSUME NEW e \in pt, e.size = LARGE, e.va = block(va) PROVE FALSE
    <3>1. e.va <= va /\ va < e.va + LARGE
        BY <1>2, <2>1, Block
    <3> QED
        BY <1>1, <1>2, <1>3, <2>1, <3>1
  <2> QED
      BY <1>4, <1>6, <2>1 DEF mapped
<1> QED
    BY <1>5, <1>6

\* Mapping one page of the region keeps the mappings apart and full up to va.
LEMMA MapPageMapInv == IInv /\ MapInv /\ map_page => MapInv'
<1> SUFFICES ASSUME IInv, MapInv, map_page PROVE MapInv'
    OBVIOUS
<1> DEFINE large == large_page(cur, va)
           size == IF large THEN LARGE ELSE PAGE_SIZE
           entry == [va |-> va, size |-> size, pa |-> map_fn(cur, va), flags |-> cur.flags]
<1>1. pc = "map" /\ cur # None /\ va < cur.end
    BY DEF map_page
<1>2. Inserting /\ Mapping /\ enabled = FALSE
    BY <1>1 DEF MapInv
<1>3. ~mapped(va, large)
    BY <1>1, <1>2, NotMapped
<1>4. CASE Fail("ENOMEM")
    BY <1>1, <1>4, FailMapInv
<1>5. CASE /\ pt' = pt \cup {entry}
           /\ tables' = IF large THEN tables ELSE tables \cup {block(va)}
           /\ va' = va + size
           /\ UNCHANGED <<scanVars, gpm, cur, pc, err>>
  <2>1. /\ Whole(cur) /\ \A g \in gpm : Whole(g)
        /\ \A e \in pt : e.va + e.size <= va \/ cur.end <= e.va
      BY <1>1, <1>2, MappingsBeside
  <2>2. /\ va \in Nat /\ Aligned(va) /\ cur.start <= va
        /\ cur.start \in Nat /\ cur.end \in Nat /\ Aligned(cur.end)
      BY <1>1, <1>2, <2>1 DEF Inserting, Whole
  <2>3. LARGE \in Nat \ {0} /\ PAGE_SIZE \in Nat \ {0}
      BY SizeAssumption
  <2>4. size \in {LARGE, PAGE_SIZE} /\ size \in Nat \ {0} /\ Aligned(size) /\ va + size <= cur.end
    <3>1. CASE large
      <4>1. cur.end - va >= LARGE
          BY <3>1 DEF large_page
      <4>2. va + LARGE <= cur.end
          BY <2>2, <2>3, <4>1
      <4> QED
          BY <2>3, <3>1, <4>2, AlignedSum
    <3>2. CASE ~large
      <4>1. va + PAGE_SIZE <= cur.end
          BY <1>1, <2>2, AlignedApart
      <4> QED
          BY <2>3, <3>2, <4>1, AlignedSum
    <3> QED
        BY <3>1, <3>2
  <2>5. /\ entry.va = va /\ entry.size = size /\ entry.pa = map_fn(cur, va)
        /\ entry.flags = cur.flags /\ (~large => size = PAGE_SIZE)
      OBVIOUS
  <2> HIDE DEF entry, size, large
  <2>6. va' \in Nat /\ Aligned(va') /\ cur.start <= va' /\ va' <= cur.end /\ va <= va'
    <3>1. Aligned(va + size)
        BY <2>2, <2>4, AlignedSum
    <3> QED
        BY <1>5, <2>2, <2>4, <3>1
  <2>7. Inserting'
    <3>1. gpm' = gpm /\ cur' = cur /\ regions' = regions /\ hv' = hv
        BY <1>5 DEF scanVars
    <3>2. \A k : RegionToInsert(k)' = RegionToInsert(k)
        BY <3>1 DEF RegionToInsert
    <3>3. gpm' = {RegionToInsert(k)' : k \in 1..Cardinality(gpm)}
        BY <1>2, <3>1, <3>2 DEF Inserting
    <3>4. cur' = RegionToInsert(Cardinality(gpm) + 1)'
        BY <1>1, <1>2, <3>1 DEF Inserting, RegionToInsert
    <3> QED
        BY <1>1, <1>2, <2>6, <3>1, <3>3, <3>4 DEF Inserting
  <2>8. Mapping'
    <3>1. gpm' = gpm /\ cur' = cur /\ pt' = pt \cup {entry}
        BY <1>5
    <3>2. \A e \in pt : e.va \in Nat /\ e.size \in {LARGE, PAGE_SIZE} /\ e.va + e.size \in Nat
        BY <1>2, <2>3 DEF Mapping
    <3>3. ASSUME NEW e \in pt'
          PROVE  /\ e.va \in Nat /\ e.size \in {LARGE, PAGE_SIZE}
                 /\ (\E g \in gpm : From(e, g, g.end)) \/ From(e, cur, va')
      <4>1. CASE e = entry
          BY <1>5, <2>2, <2>4, <2>5, <2>6, <4>1 DEF From
      <4>2. CASE e \in pt
        <5>1. (\E g \in gpm : From(e, g, g.end)) \/ From(e, cur, va)
            BY <1>2, <4>2 DEF Mapping
        <5>2. From(e, cur, va) => From(e, cur, va')
            BY <2>2, <2>6, <3>2, <4>2 DEF From
        <5> QED
            BY <3>2, <4>2, <5>1, <5>2
      <4> QED
          BY <3>1, <4>1, <4>2
    <3>4. ASSUME NEW e \in pt', NEW f \in pt', e # f
          PROVE  e.va + e.size <= f.va \/ f.va + f.size <= e.va
      <4>1. ASSUME NEW x \in pt
            PROVE  x.va + x.size <= entry.va \/ entry.va + entry.size <= x.va
          BY <2>1, <2>2, <2>4, <2>5, <3>2
      <4> QED
          BY <1>2, <3>1, <3>4, <4>1 DEF Mapping
    <3>5. \A g \in gpm : Full(g, g.end)'
        BY <1>2, <3>1 DEF Mapping, Full
    <3>6. Full(cur, va)'
      <4>1. ASSUME NEW a \in Nat, cur.start <= a, a < va'
            PROVE  \E e \in pt' : Covers(e, a)
        <5>1. CASE a < va
            BY <1>1, <1>2, <3>1, <4>1, <5>1 DEF Mapping, Full
        <5>2. CASE va <= a
          <6>1. Covers(entry, a)
              BY <1>5, <2>5, <4>1, <5>2 DEF Covers
          <6> QED
              BY <3>1, <6>1
        <5> QED
            BY <2>2, <5>1, <5>2
      <4> QED
          BY <3>1, <4>1 DEF Full
    <3>7. ASSUME NEW t \in tables'
          PROVE  \E e \in pt' : e.size = PAGE_SIZE /\ block(e.va) = t
      <4>1. CASE t \in tables
          BY <1>2, <3>1, <4>1 DEF Mapping
      <4>2. CASE t \notin tables
        <5>1. ~large /\ t = block(va)
            BY <1>5, <4>2
        <5> QED
            BY <2>5, <3>1, <5>1
      <4> QED
          BY <4>1, <4>2
    <3> QED
        BY <1>1, <3>1, <3>3, <3>4, <3>5, <3>6, <3>7 DEF Mapping
  <2> QED
      BY <1>1, <1>2, <1>5, <2>7, <2>8 DEF MapInv, scanVars, RegionsAccepted, ReservedAccepted
<1> QED
    BY <1>3, <1>4, <1>5 DEF map_page

\* The region is complete: it joins the root cell's memory.
LEMMA InsertedMapInv == IInv /\ MapInv /\ inserted => MapInv'
<1> SUFFICES ASSUME IInv, MapInv, inserted PROVE MapInv'
    OBVIOUS
<1> DEFINE n == Cardinality(gpm)
<1>1. /\ pc = "map" /\ cur # None /\ va = cur.end
      /\ gpm' = gpm \cup {cur} /\ cur' = None
      /\ UNCHANGED <<scanVars, va, pt, tables, pc, err>>
    BY DEF inserted
<1>2. Inserting /\ Mapping /\ enabled = FALSE
    BY <1>1 DEF MapInv
<1>3. n <= Len(regions) /\ cur = RegionToInsert(n + 1)
    BY <1>1, <1>2 DEF Inserting
<1>4. /\ n \in Nat /\ n + 1 \in 1..(Len(regions) + 1) /\ Whole(cur)
      /\ \A g \in gpm : Whole(g) /\ (g.end <= cur.start \/ cur.end <= g.start)
    BY <1>2, <1>3, CurrentApart
<1>5. cur \notin gpm
    BY <1>4 DEF Whole
<1>6. IsFiniteSet(gpm') /\ Cardinality(gpm') = n + 1
    BY <1>1, <1>2, <1>5, FS_AddElement DEF Inserting
<1> HIDE DEF n
<1>7. regions' = regions /\ hv' = hv
    BY <1>1 DEF scanVars
<1>8. gpm' = {RegionToInsert(k)' : k \in 1..(n + 1)}
  <2>1. \A k : RegionToInsert(k)' = RegionToInsert(k)
      BY <1>7 DEF RegionToInsert
  <2>2. gpm = {RegionToInsert(k) : k \in 1..n}
      BY <1>2 DEF Inserting, n
  <2>3. 1..(n + 1) = 1..n \cup {n + 1}
      BY <1>4
  <2>4. gpm' = {RegionToInsert(k) : k \in 1..(n + 1)}
      BY <1>1, <1>3, <2>2, <2>3
  <2> QED
      BY <2>1, <2>4
<1>9. Inserting'
  <2>1. gpm' = {RegionToInsert(k)' : k \in 1..Cardinality(gpm')}
      BY <1>6, <1>8
  <2>2. Cardinality(gpm') <= Len(regions') + 1
      BY <1>3, <1>4, <1>6, <1>7
  <2> QED
      BY <1>1, <1>2, <1>6, <1>7, <2>1, <2>2 DEF Inserting
<1>10. Mapping'
    BY <1>1, <1>2 DEF Mapping, Full
<1> QED
    BY <1>1, <1>2, <1>9, <1>10 DEF MapInv, scanVars, RegionsAccepted, ReservedAccepted

\* A resource that overlaps the hypervisor's region is refused only when no reserved one
\* contains that region: two resources do not overlap.
LEMMA RefusedNotReserved ==
  ASSUME IInv, ScanRefused
  PROVE  ~\E i \in 1..Len(iomem) : iomem[i].name = "Reserved" /\ Encloses(iomem[i], hv)
<1> SUFFICES ASSUME NEW i \in 1..Len(iomem), iomem[i].name = "Reserved", Encloses(iomem[i], hv)
             PROVE  FALSE
    OBVIOUS
<1>1. /\ pc = "scan" /\ child <= Len(iomem) /\ Overlap(iomem[child], hv)
      /\ ~(Encloses(iomem[child], hv) /\ iomem[child].name = "Reserved")
    BY DEF ScanRefused
<1>2. iomem \in Seq(Resource) /\ InOrder(iomem) /\ child \in 1..Len(iomem) /\ hv \in HvRegion
    BY <1>1 DEF IInv
<1>3. i # child
    BY <1>1
<1>4. /\ i < child => iomem[i].end <= iomem[child].start
      /\ child < i => iomem[child].end <= iomem[i].start
    BY <1>2, Pairwise
<1>5. iomem[i] \in Resource /\ iomem[child] \in Resource
    BY <1>2
<1>6. /\ iomem[i].start \in Nat /\ iomem[i].end \in Nat
      /\ iomem[child].start \in Nat /\ iomem[child].end \in Nat
      /\ hv.start \in Nat /\ hv.end \in Nat /\ hv.start < hv.end
    BY <1>2, <1>5, RegionAssumption DEF Resource
<1>7. /\ iomem[i].start <= hv.start /\ hv.end <= iomem[i].end
      /\ iomem[child].start < hv.end /\ hv.start < iomem[child].end
    BY <1>1 DEF Encloses, Overlap
<1>8. i < child \/ child < i
    BY <1>2, <1>3
<1> QED
    BY ONLY <1>4, <1>6, <1>7, <1>8

\* Before the first enable there is no memory set.
LEMMA InitMapInv == Init => MapInv
<1> SUFFICES ASSUME Init PROVE MapInv
    OBVIOUS
<1>1. /\ enabled = FALSE /\ hv = None /\ res = None /\ pc = "idle" /\ err = None
      /\ gpm = {} /\ cur = None /\ pt = {} /\ tables = {}
    BY DEF Init
<1>2. RegionsAccepted /\ ReservedAccepted
    BY <1>1, NoneAssumption DEF RegionsAccepted, ReservedAccepted
<1> QED
    BY <1>1, <1>2 DEF MapInv

\* A step keeps what is known of the page table and of the errors.
LEMMA NextMapInv == IInv /\ MapInv /\ [Next]_vars => MapInv'
<1> SUFFICES ASSUME IInv, MapInv, [Next]_vars PROVE MapInv'
    OBVIOUS
<1> DEFINE Empty == gpm = {} /\ cur = None /\ pt = {} /\ tables = {}
<1>1. ASSUME NEW r \in HvRegion, EnableBegin(r) PROVE MapInv'
  <2>1. /\ hv' = r /\ pc' = "scan" /\ err' = None /\ enabled' = FALSE /\ UNCHANGED <<res, mapVars>>
      BY <1>1 DEF EnableBegin, MapInv
  <2>2. Empty'
      BY <1>1, <2>1 DEF EnableBegin, MapInv, mapVars
  <2>3. RegionsAccepted' /\ ReservedAccepted'
      BY <2>1, NoneAssumption DEF RegionsAccepted, ReservedAccepted
  <2> QED
      BY <1>1, <2>1, <2>2, <2>3 DEF MapInv
<1>2. CASE Scan
  <2>1. /\ pc = "scan" /\ pc' = "scan" /\ UNCHANGED <<iomem, hv, res, enabled, mapVars, err>>
      BY <1>2 DEF Scan
  <2>2. RegionsAccepted' /\ ReservedAccepted'
      BY <2>1 DEF MapInv, RegionsAccepted, ReservedAccepted
  <2> QED
      BY <2>1, <2>2 DEF MapInv, mapVars
<1>3. CASE ScanRefused
  <2>1. /\ pc = "scan" /\ pc' = "idle" /\ err' = "EINVAL" /\ UNCHANGED <<scanVars, mapVars>>
      BY <1>3 DEF ScanRefused, Refuse
  <2>2. DOMAIN iomem = 1..Len(iomem)
      BY DEF IInv
  <2>3. RegionsAccepted' /\ ReservedAccepted'
    <3>1. RegionsAccepted'
        BY <2>1 DEF RegionsAccepted
    <3>2. iomem' = iomem /\ hv' = hv
        BY <2>1 DEF scanVars
    <3>3. ~\E i \in DOMAIN iomem' : iomem'[i].name = "Reserved" /\ Encloses(iomem'[i], hv')
        BY <1>3, <2>2, <3>2, RefusedNotReserved
    <3> QED
        BY <3>1, <3>3 DEF ReservedAccepted
  <2> QED
      BY <2>1, <2>3 DEF MapInv, scanVars, mapVars
<1>4. CASE ImageRefused
  <2>1. /\ pc = "scan" /\ pc' = "idle" /\ err' = "EINVAL image" /\ UNCHANGED <<scanVars, mapVars>>
      BY <1>4 DEF ImageRefused, Refuse
  <2>2. RegionsAccepted' /\ ReservedAccepted'
      BY <2>1 DEF RegionsAccepted, ReservedAccepted
  <2> QED
      BY <2>1, <2>2 DEF MapInv, scanVars, mapVars
<1>5. CASE Request
  <2>1. /\ pc = "scan" /\ pc' = "map" /\ res' = hv /\ UNCHANGED <<hv, enabled, regions, mapVars, err>>
      BY <1>5 DEF Request
  <2>2. hv \in HvRegion /\ Len(regions) \in Nat
      BY <2>1 DEF IInv
  <2>3. Empty /\ enabled = FALSE /\ err = None
      BY <2>1 DEF MapInv
  <2>4. Inserting /\ Mapping
      BY <2>2, <2>3, NothingInserted
  <2>5. Inserting' /\ Mapping'
      BY <2>1, <2>4 DEF Inserting, Mapping, Full, RegionToInsert, mapVars
  <2>6. RegionsAccepted' /\ ReservedAccepted'
      BY <2>1, <2>3, NoneAssumption DEF RegionsAccepted, ReservedAccepted
  <2> QED
      BY <2>1, <2>2, <2>3, <2>5, <2>6 DEF MapInv
<1>6. CASE Disable
  <2>1. /\ pc = "idle" /\ pc' = "idle" /\ enabled' = FALSE /\ UNCHANGED <<iomem, hv, res, err>>
      BY <1>6 DEF Disable
  <2>2. Empty'
      BY <1>6 DEF Disable, NoImage
  <2>3. RegionsAccepted' /\ ReservedAccepted'
      BY <2>1 DEF MapInv, RegionsAccepted, ReservedAccepted
  <2> QED
      BY <2>1, <2>2, <2>3 DEF MapInv
<1>7. CASE EnableEnd
  <2>1. /\ pc = "map" /\ cur = None /\ Cardinality(gpm) = Len(regions) + 1
        /\ pc' = "idle" /\ enabled' = TRUE
        /\ UNCHANGED <<iomem, hv, res, regions, mapVars, err>>
      BY <1>7 DEF EnableEnd
  <2>2. Inserting' /\ Mapping'
      BY <2>1 DEF MapInv, Inserting, Mapping, Full, RegionToInsert, mapVars
  <2>3. RegionsAccepted' /\ ReservedAccepted'
      BY <2>1 DEF MapInv, RegionsAccepted, ReservedAccepted
  <2> QED
      BY <2>1, <2>2, <2>3 DEF MapInv, mapVars
<1>8. CASE UNCHANGED vars
  <2>1. /\ UNCHANGED <<iomem, hv, res, enabled, pc, regions, err>>
        /\ UNCHANGED <<gpm, cur, va, pt, tables>>
      BY <1>8 DEF vars, scanVars, mapVars
  <2>2. (Inserting /\ Mapping) => (Inserting /\ Mapping)'
      BY <2>1 DEF Inserting, Mapping, Full, RegionToInsert
  <2>3. RegionsAccepted' /\ ReservedAccepted'
      BY <2>1 DEF MapInv, RegionsAccepted, ReservedAccepted
  <2> QED
      BY <2>1, <2>2, <2>3 DEF MapInv
<1>9. CASE RequestFails
    BY <1>9, FailMapInv DEF RequestFails
<1> QED
    BY <1>1, <1>2, <1>3, <1>4, <1>5, <1>6, <1>7, <1>8, <1>9, InsertMapInv, MapPageMapInv,
       InsertedMapInv
       DEF Next

-----------------------------------------------------------------------------
(* What the guest sees *)

\* Once all the regions are inserted, the page table shows what GuestView says: an
\* address lies in one region at most, which is mapped in full and once.
LEMMA GuestViewHolds == IInv /\ ScanInv /\ MapInv => GuestView
<1> SUFFICES ASSUME IInv, ScanInv, MapInv, enabled PROVE GuestView
    BY DEF GuestView
<1> DEFINE N == Len(regions) + 1
           R(k) == RegionToInsert(k)
           m(a) == {e \in pt : Covers(e, a)}
           page(a) == {r \in seen : Touches(r, a)}
<1>1. Inserting /\ Mapping /\ cur = None /\ Cardinality(gpm) = N /\ hv \in HvRegion
    BY DEF MapInv, Inserting
<1>2. gpm = {R(k) : k \in 1..N}
    BY <1>1 DEF Inserting
<1>3. Len(regions) \in Nat /\ N \in Nat /\ 1 \in 1..N
    BY DEF IInv
<1>4. /\ R(1) = [start |-> hv.start, end |-> hv.end, flags |-> {"READ"}, mapper |-> "empty"]
      /\ \A k \in 2..N :
           R(k) = [start |-> regions[k - 1].start, end |-> regions[k - 1].end,
                   flags |-> regions[k - 1].flags, mapper |-> "offset"]
      /\ \A k \in 1..N : Whole(R(k))
      /\ \A i, j \in 1..N : i # j => R(i).end <= R(j).start \/ R(j).end <= R(i).start
    BY <1>1, ToInsert
<1> HIDE DEF R
<1>5. \A k \in 1..N : R(k).start \in Nat /\ R(k).end \in Nat
    BY <1>4 DEF Whole
<1>6. ASSUME NEW i \in 1..N, NEW j \in 1..N, NEW a \in Nat, In(R(i), a), In(R(j), a)
      PROVE  i = j
  <2>1. /\ R(i).start \in Nat /\ R(i).end \in Nat /\ R(j).start \in Nat /\ R(j).end \in Nat
        /\ R(i).start <= a /\ a < R(i).end /\ R(j).start <= a /\ a < R(j).end
      BY <1>5, <1>6 DEF In
  <2>2. i # j => R(i).end <= R(j).start \/ R(j).end <= R(i).start
      BY <1>4
  <2> QED
      BY ONLY <2>1, <2>2, a \in Nat
<1>7. ASSUME NEW a \in Nat, NEW e \in m(a)
      PROVE  \E k \in 1..N : In(R(k), a) /\ e.pa = map_fn(R(k), e.va) /\ e.flags = R(k).flags
  <2>1. e \in pt /\ e.va \in Nat /\ e.size \in Nat /\ e.va <= a /\ a < e.va + e.size
      BY <1>1, SizeAssumption DEF Mapping, Covers
  <2>2. PICK k \in 1..N : From(e, R(k), R(k).end)
      BY <1>1, <1>2, <2>1 DEF Mapping
  <2>3. In(R(k), a)
    <3>1. R(k).start <= e.va /\ e.va + e.size <= R(k).end /\ R(k).start \in Nat /\ R(k).end \in Nat
        BY <1>5, <2>2 DEF From
    <3> QED
        BY <2>1, <3>1 DEF In
  <2> QED
      BY <2>2, <2>3 DEF From
<1>8. ASSUME NEW a \in Nat, NEW k \in 1..N, In(R(k), a)
      PROVE  \E e \in m(a) : /\ m(a) = {e} /\ e.pa = map_fn(R(k), e.va)
                             /\ e.flags = R(k).flags
  <2>1. PICK e \in pt : Covers(e, a)
    <3>1. Full(R(k), R(k).end)
        BY <1>1, <1>2 DEF Mapping
    <3> QED
        BY <1>8, <3>1 DEF Full, In
  <2>2. ASSUME NEW f \in m(a) PROVE f = e
    <3>1. f \in pt /\ Covers(f, a)
        OBVIOUS
    <3>2. e # f => e.va + e.size <= f.va \/ f.va + f.size <= e.va
        BY <1>1, <3>1 DEF Mapping
    <3>3. e.va \in Nat /\ e.size \in Nat /\ f.va \in Nat /\ f.size \in Nat
        BY <1>1, <3>1, SizeAssumption DEF Mapping
    <3> QED
        BY <2>1, <3>1, <3>2, <3>3 DEF Covers
  <2>3. e \in m(a) /\ m(a) = {e}
      BY <2>1, <2>2
  <2>4. PICK j \in 1..N : In(R(j), a) /\ e.pa = map_fn(R(j), e.va) /\ e.flags = R(j).flags
      BY <1>7, <2>3
  <2>5. j = k
      BY <1>6, <1>8, <2>4
  <2> QED
      BY <2>3, <2>4, <2>5
<1>9. ASSUME NEW a \in Nat, In(hv, a)
      PROVE  \E e \in m(a) : m(a) = {e} /\ e.pa = "empty" /\ e.flags = {"READ"}
  <2>1. In(R(1), a) /\ R(1).mapper = "empty" /\ R(1).flags = {"READ"}
      BY <1>4, <1>9 DEF In
  <2>2. PICK e \in m(a) : m(a) = {e} /\ e.pa = map_fn(R(1), e.va) /\ e.flags = R(1).flags
      BY <1>3, <1>8, <2>1
  <2> QED
      BY <2>1, <2>2 DEF map_fn
<1>10. ASSUME NEW i \in 1..Len(regions)
       PROVE  /\ i + 1 \in 1..N /\ \A a \in Nat : In(regions[i], a) <=> In(R(i + 1), a)
              /\ R(i + 1).flags = regions[i].flags /\ R(i + 1).mapper = "offset"
  <2>1. i + 1 \in 2..N /\ (i + 1) - 1 = i /\ i + 1 \in 1..N
      BY <1>3
  <2>2. R(i + 1) = [start |-> regions[i].start, end |-> regions[i].end,
                    flags |-> regions[i].flags, mapper |-> "offset"]
      BY <1>4, <2>1
  <2> QED
      BY <2>1, <2>2 DEF In
<1>11. ASSUME NEW a \in Nat, ~In(hv, a), page(a) = {} PROVE m(a) = {}
  <2> SUFFICES ASSUME NEW e \in m(a) PROVE FALSE
      OBVIOUS
  <2>1. PICK k \in 1..N : In(R(k), a)
      BY <1>7
  <2>2. k # 1
      BY <1>4, <1>11, <2>1 DEF In
  <2>3. k - 1 \in 1..Len(regions) /\ (k - 1) + 1 = k
      BY <1>3, <2>2
  <2>4. In(regions[k - 1], a)
      BY <1>10, <2>1, <2>3
  <2>5. \E r \in seen : Touches(r, a)
      BY <2>3, <2>4 DEF ScanInv, Covered
  <2> QED
      BY <1>11, <2>5
<1>12. ASSUME NEW a \in Nat, ~In(hv, a), page(a) # {}
       PROVE  \E e \in m(a) : /\ m(a) = {e} /\ e.pa = e.va
                              /\ \A r \in page(a) : mem_region_flag(r.name) \subseteq e.flags
  <2>1. ASSUME NEW r \in page(a)
        PROVE  \E i \in 1..Len(regions) :
                 In(regions[i], a) /\ mem_region_flag(r.name) \subseteq regions[i].flags
      BY <1>12 DEF ScanInv, Covered
  <2>2. PICK i \in 1..Len(regions) : In(regions[i], a)
      BY <1>12, <2>1
  <2>3. /\ i + 1 \in 1..N /\ In(R(i + 1), a)
        /\ R(i + 1).flags = regions[i].flags /\ R(i + 1).mapper = "offset"
      BY <1>10, <2>2
  <2>4. PICK e \in m(a) : /\ m(a) = {e} /\ e.pa = map_fn(R(i + 1), e.va)
                          /\ e.flags = R(i + 1).flags
      BY <1>8, <2>3
  <2>5. e.pa = e.va
      BY <2>3, <2>4 DEF map_fn
  <2>6. ASSUME NEW r \in page(a) PROVE mem_region_flag(r.name) \subseteq e.flags
    <3>1. PICK j \in 1..Len(regions) :
            In(regions[j], a) /\ mem_region_flag(r.name) \subseteq regions[j].flags
        BY <2>1
    <3>2. j + 1 \in 1..N /\ In(R(j + 1), a) /\ R(j + 1).flags = regions[j].flags
        BY <1>10, <3>1
    <3>3. j + 1 = i + 1
        BY <1>6, <2>3, <3>2
    <3> QED
        BY <2>4, <3>1, <3>2, <3>3
  <2> QED
      BY <2>4, <2>5, <2>6
<1> DEFINE top == IF regions = <<>> THEN hv.end
                  ELSE IF regions[Len(regions)].end > hv.end THEN regions[Len(regions)].end
                  ELSE hv.end
<1>13. top + PAGE_SIZE \in Nat
  <2>1. hv.end \in Nat
      BY <1>1, RegionAssumption
  <2>2. regions # <<>> => regions[Len(regions)].end \in Nat
    <3>1. regions # <<>> => regions[Len(regions)] \in Region
        BY DEF IInv
    <3> QED
        BY <3>1 DEF Region
  <2> QED
      BY <2>1, <2>2, SizeAssumption
<1>14. \A a \in 0..(top + PAGE_SIZE) : a \in Nat
    BY <1>13
<1> HIDE DEF top
<1>15. \A a \in 0..(top + PAGE_SIZE) :
         IF In(hv, a)
         THEN \E e \in m(a) : m(a) = {e} /\ e.pa = "empty" /\ e.flags = {"READ"}
         ELSE IF page(a) = {} THEN m(a) = {}
         ELSE \E e \in m(a) :
                /\ m(a) = {e} /\ e.pa = e.va
                /\ \A r \in page(a) : mem_region_flag(r.name) \subseteq e.flags
  <2> HIDE DEF m, page
  <2> QED
      BY <1>9, <1>11, <1>12, <1>14
<1> QED
    BY <1>15, Zenon DEF GuestView, In, Touches, Covers, top

-----------------------------------------------------------------------------
(* The theorems *)

\* The three invariants together.
LEMMA Invariance == Spec => [](IInv /\ ScanInv /\ MapInv)
BY InitIInv, InitScanInv, InitMapInv, NextIInv, NextScanInv, NextMapInv, PTL DEF Spec

\* Every variable keeps its type: the counter of get_mem_regions is one ahead of what it
\* has seen, and Cell::new_root inserts no more regions than there are.
THEOREM TypeCorrect == Spec => []TypeOK
<1>1. IInv /\ ScanInv /\ MapInv => TypeOK
  <2> SUFFICES ASSUME IInv, ScanInv, MapInv PROVE TypeOK
      OBVIOUS
  <2>1. child = Cardinality(seen) + 1
      BY DEF IInv, ScanInv
  <2>2. Cardinality(gpm) <= Len(regions) + 1
    <3>1. CASE pc = "map" \/ enabled
        BY <3>1 DEF MapInv, Inserting
    <3>2. CASE ~(pc = "map" \/ enabled)
      <4>1. Cardinality(gpm) = 0 /\ Len(regions) \in Nat
        <5>1. gpm = {} /\ regions \in Seq(Region)
            BY <3>2 DEF MapInv, IInv
        <5> QED
            BY <5>1, FS_EmptySet
      <4> QED
          BY <4>1
    <3> QED
        BY <3>1, <3>2
  <2> QED
      BY <2>1, <2>2 DEF IInv, MapInv, TypeOK
<1> QED
    BY <1>1, Invariance, PTL

\* RegionsApart for every page size, every resource list and every hypervisor region:
\* what get_mem_regions hands to the hypervisor is made of disjoint, ordered pages
\* outside of hv_region.
THEOREM RegionsStayApart == Spec => []RegionsApart
<1>1. IInv => RegionsApart
  <2>1. IInv => DOMAIN regions = 1..Len(regions)
      BY DEF IInv
  <2> QED
      BY <2>1 DEF IInv, Apart, RegionsApart
<1> QED
    BY <1>1, InitIInv, NextIInv, PTL DEF Spec
\* The mem_regions array of get_mem_regions, which has an entry for each resource, is
\* exceeded by one entry at most, and only if hv_region lies strictly inside a resource.
THEOREM RegionsAlwaysFit == Spec => []RegionsFit
<1>1. ScanInv => RegionsFit
    BY DEF ScanInv
<1> QED
    BY <1>1, Invariance, PTL

\* Cell::new_root accepts every list of regions the driver hands over: neither
\* MemorySet::insert nor Level4PageTable::map finds anything in the way.
THEOREM RegionsAlwaysAccepted == Spec => []RegionsAccepted
<1>1. MapInv => RegionsAccepted
    BY DEF MapInv
<1> QED
    BY <1>1, Invariance, PTL

\* get_mem_region_one never refuses a hypervisor region inside a reserved resource, in
\* whichever order the resources come and however often it was enabled before.
THEOREM ReservedAlwaysAccepted == Spec => []ReservedAccepted
<1>1. MapInv => ReservedAccepted
    BY DEF MapInv
<1> QED
    BY <1>1, Invariance, PTL

\* What the guest of an enabled hypervisor sees, for every page size, large page size and
\* list of resources: every address is mapped as its resources ask for, the hypervisor's
\* memory as the empty page, and nothing else.
THEOREM GuestSeesItsMemory == Spec => []GuestView
BY GuestViewHolds, Invariance, PTL
=============================================================================
