------------------------ MODULE NativeConstants_proofs ------------------------
(***************************************************************************)
(* Every recorded binding keeps the constants it was recorded with, for any *)
(* packets, pages, slices of a page, budget and number of frames.           *)
(***************************************************************************)
EXTENDS NativeConstants, FiniteSetTheorems, SequenceTheorems, WellFoundedInduction, TLAPS

Contents == Packets \union {Empty}
Addresses == [page : PageIds \union {0}, slice : Nat, sdk : Contents]
Bindings == [frame : Nat, address : Addresses, packet : Packets]
MemoStates == [frame : Nat, packet : Contents, address : Addresses]

Heaps == {"none", "gpu", "upload", "released", "gpu_retained", "retained"}
PoolStates ==
  [writable : Seq(PageIds), submitted : Seq(PageIds), used : 0 .. PageSlices,
   gpu_failed : BOOLEAN, disabled : BOOLEAN, shutdown : BOOLEAN]
PageStates == [heap : Heaps, last : Nat, slices : [1 .. PageSlices -> Contents]]
DrawStates ==
  [pool : PoolStates, pages : [PageIds -> PageStates],
   memo : [pixel : MemoStates, vertex : MemoStates], bind : SUBSET Bindings, ok : BOOLEAN]

(* A pool whose pages are on one of its lists, once, and whose open page is *)
(* filled from its start.                                                   *)
Listing(p) == Range(p.writable) \union Range(p.submitted)
Lists(p, pgs) ==
  /\ \A i, j \in 1 .. Len(p.writable) : p.writable[i] = p.writable[j] => i = j
  /\ \A i, j \in 1 .. Len(p.submitted) : p.submitted[i] = p.submitted[j] => i = j
  /\ \A i \in 1 .. Len(p.writable), j \in 1 .. Len(p.submitted) :
       p.writable[i] # p.submitted[j]
  /\ \A id \in PageIds : id \in Listing(p) <=> pgs[id].heap \in {"gpu", "upload"}
  /\ p.writable = <<>> /\ ~p.shutdown => p.used = 0

(* A packet's slice, for a binding or for a memo of frame f: it holds the   *)
(* packet, in a page that is not reclaimed before f is done.                *)
Stored(pgs, address, packet, f) ==
  IF InPool(address)
  THEN /\ address.slice \in 1 .. PageSlices
       /\ pgs[address.page].heap \notin {"none", "released"}
       /\ pgs[address.page].slices[address.slice] = packet
       /\ pgs[address.page].last >= f
  ELSE address.slice = f /\ address.sdk = packet

(* The pool does not give the slice away again: the page is submitted, or   *)
(* it is the open one, beyond the slice.                                    *)
Taken(p, address) ==
  InPool(address) =>
    \/ address.page \in Range(p.submitted)
    \/ p.writable # <<>> /\ address.page = Head(p.writable) /\ address.slice <= p.used

Kept(d, address, packet, f) == Stored(d.pages, address, packet, f) /\ Taken(d.pool, address)

(* The memos that can still be found. *)
Found(memos) == {m \in {"pixel", "vertex"} : memos[m].frame = frame.current}

(* A draw being recorded. *)
DrawInv(d) ==
  /\ d \in DrawStates
  /\ ~d.pool.shutdown
  /\ Lists(d.pool, d.pages)
  /\ HeldPages(d) <= GpuBudget
  /\ \A b \in bound \union d.bind : Kept(d, b.address, b.packet, b.frame)
  /\ \A b \in d.bind : b.frame = frame.current
  /\ \A m \in Found(d.memo) : Kept(d, d.memo[m].address, d.memo[m].packet, frame.current)
  /\ \A m \in {"pixel", "vertex"} : d.memo[m].frame <= frame.current

Frames ==
  /\ frame \in [current : Nat, completed : Nat, done : Nat]
  /\ frame.completed <= frame.done /\ frame.done < frame.current
  /\ bound \in SUBSET Bindings
  /\ \A b \in bound : frame.done < b.frame /\ b.frame <= frame.current

IInv ==
  /\ Frames
  /\ Draw \in DrawStates
  /\ Lists(pool, pages)
  /\ HeldPages(Draw) <= GpuBudget
  /\ \A b \in bound : Stored(pages, b.address, b.packet, b.frame)
  /\ ~pool.shutdown => DrawInv(Draw)
  /\ pool.shutdown => Listing(pool) = {}

-----------------------------------------------------------------------------
(* Lists. *)

LEMMA LeastOfNaturals ==
  ASSUME NEW S \in SUBSET Nat, S # {}
  PROVE  \E x \in S : \A y \in S : x <= y
<1> DEFINE Less == {ss \in Nat \X Nat : ss[1] < ss[2]}
<1>1. IsWellFoundedOn(Less, Nat)
  BY NatLessThanWellFounded, Zenon DEF OpToRel
<1>2. PICK x \in S : \A y \in S : ~(<<y, x>> \in Less)
  BY <1>1, WFMin
<1>3. ASSUME NEW y \in S PROVE x <= y
  <2>1. <<y, x>> \in Nat \X Nat /\ ~(<<y, x>> \in Less)
    BY <1>2
  <2>2. ~(y < x)
    BY <2>1
  <2> QED BY <2>2
<1> QED BY <1>3

LEMMA InRange ==
  ASSUME NEW S, NEW s \in Seq(S), NEW x
  PROVE  x \in Range(s) <=> \E i \in 1 .. Len(s) : s[i] = x
BY DEF Range

LEMMA SmallPages == PageIds \subseteq Nat \ {0} /\ IsFiniteSet(PageIds) /\ PageSlices \in Nat \ {0}
BY NativeConstantsAssumption

(* The open page goes to the end of the submitted list.                     *)
LEMMA RetiredKeeps ==
  ASSUME NEW p \in PoolStates, NEW pgs, Lists(p, pgs), NEW q \in PoolStates,
         q.writable = Retired(p).writable, q.submitted = Retired(p).submitted,
         q.used = 0, q.shutdown = p.shutdown
  PROVE  Lists(q, pgs) /\ \A a : Taken(p, a) => Taken(q, a)
<1>1. /\ p.writable \in Seq(PageIds) /\ p.submitted \in Seq(PageIds) /\ p.used \in 0 .. PageSlices
      /\ q.writable \in Seq(PageIds) /\ q.submitted \in Seq(PageIds)
  BY DEF PoolStates
<1>2. CASE p.writable = <<>>
  <2>1. q.writable = p.writable /\ q.submitted = p.submitted
    BY <1>2 DEF Retired
  <2> QED BY <1>2, <2>1 DEF Lists, Listing, Taken
<1>3. CASE p.writable # <<>>
  <2>1. q.writable = Tail(p.writable) /\ q.submitted = Append(p.submitted, Head(p.writable))
    BY <1>3 DEF Retired, PoolStates
  <2>2. /\ Len(q.writable) = Len(p.writable) - 1 /\ Len(p.writable) >= 1
        /\ Len(q.submitted) = Len(p.submitted) + 1
        /\ \A i \in 1 .. Len(q.writable) : q.writable[i] = p.writable[i + 1]
        /\ \A i \in 1 .. Len(p.submitted) : q.submitted[i] = p.submitted[i]
        /\ q.submitted[Len(q.submitted)] = p.writable[1]
    BY <1>1, <1>3, <2>1
  <2>3. \A x : x \in Range(q.writable) <=> \E i \in 1 .. Len(p.writable) : i > 1 /\ p.writable[i] = x
    <3>1. \A x : x \in Range(q.writable) <=> \E i \in 1 .. Len(q.writable) : q.writable[i] = x
      BY <1>1, InRange
    <3>2. \A i \in 1 .. Len(p.writable) : i > 1 => i - 1 \in 1 .. Len(q.writable) /\
                                                  q.writable[i - 1] = p.writable[i]
      BY <2>2
    <3>3. \A i \in 1 .. Len(q.writable) : i + 1 \in 1 .. Len(p.writable) /\ i + 1 > 1
      BY <2>2
    <3> QED BY <2>2, <3>1, <3>2, <3>3, SMTT(30)
  <2>4. \A x : x \in Range(q.submitted) <=> x \in Range(p.submitted) \/ x = p.writable[1]
    <3>1. \A x : x \in Range(q.submitted) <=> \E i \in 1 .. Len(q.submitted) : q.submitted[i] = x
      BY <1>1, InRange
    <3>2. \A x : x \in Range(p.submitted) <=> \E i \in 1 .. Len(p.submitted) : p.submitted[i] = x
      BY <1>1, InRange
    <3>3. /\ \A i \in 1 .. Len(q.submitted) : i \in 1 .. Len(p.submitted) \/ i = Len(q.submitted)
          /\ \A i \in 1 .. Len(p.submitted) : i \in 1 .. Len(q.submitted)
          /\ Len(q.submitted) \in 1 .. Len(q.submitted)
      BY <1>1, <2>2
    <3> QED BY <2>2, <3>1, <3>2, <3>3, SMTT(30)
  <2>5. \A x : x \in Range(p.writable) <=> x \in Range(q.writable) \/ x = p.writable[1]
    <3>1. \A x : x \in Range(p.writable) <=> \E i \in 1 .. Len(p.writable) : p.writable[i] = x
      BY <1>1, InRange
    <3>2. 1 \in 1 .. Len(p.writable) /\ \A i \in 1 .. Len(p.writable) : i > 1 \/ i = 1
      BY <1>1, <2>2
    <3> QED BY <2>3, <3>1, <3>2
  <2>6. \A i, j \in 1 .. Len(q.writable) : q.writable[i] = q.writable[j] => i = j
    <3> SUFFICES ASSUME NEW i \in 1 .. Len(q.writable), NEW j \in 1 .. Len(q.writable),
                        q.writable[i] = q.writable[j]
                 PROVE  i = j
      OBVIOUS
    <3>1. /\ i + 1 \in 1 .. Len(p.writable) /\ j + 1 \in 1 .. Len(p.writable)
          /\ p.writable[i + 1] = p.writable[j + 1]
      BY <1>1, <2>2
    <3>2. i + 1 = j + 1
      BY <3>1 DEF Lists
    <3> QED BY <3>2
  <2>7. \A i, j \in 1 .. Len(q.submitted) : q.submitted[i] = q.submitted[j] => i = j
    <3>1. \A i \in 1 .. Len(p.submitted) : q.submitted[i] # p.writable[1]
      BY <1>1, <2>2 DEF Lists
    <3> QED BY <1>1, <2>2, <3>1, SMTT(30) DEF Lists
  <2>8. \A i \in 1 .. Len(q.writable), j \in 1 .. Len(q.submitted) : q.writable[i] # q.submitted[j]
    <3> SUFFICES ASSUME NEW i \in 1 .. Len(q.writable), NEW j \in 1 .. Len(q.submitted)
                 PROVE  q.writable[i] # q.submitted[j]
      OBVIOUS
    <3>1. /\ i + 1 \in 1 .. Len(p.writable) /\ q.writable[i] = p.writable[i + 1]
          /\ 1 \in 1 .. Len(p.writable) /\ i + 1 # 1
      BY <1>1, <2>2
    <3>2. CASE j \in 1 .. Len(p.submitted)
      BY <2>2, <3>1, <3>2 DEF Lists
    <3>3. CASE j = Len(q.submitted)
      BY <2>2, <3>1, <3>3 DEF Lists
    <3> QED BY <1>1, <2>2, <3>2, <3>3
  <2>9. Lists(q, pgs)
    <3>1. \A id \in PageIds : id \in Listing(q) <=> id \in Listing(p)
      BY <2>4, <2>5 DEF Listing
    <3> QED BY <2>6, <2>7, <2>8, <3>1 DEF Lists
  <2> QED BY <1>3, <2>4, <2>9 DEF Taken
<1> QED BY <1>2, <1>3

LEMMA RetiredState ==
  ASSUME NEW p \in PoolStates
  PROVE  /\ Retired(p) \in PoolStates
         /\ Retired(p).used = p.used /\ Retired(p).shutdown = p.shutdown
         /\ Retired(p).gpu_failed = p.gpu_failed /\ Retired(p).disabled = p.disabled
<1>1. CASE p.writable = <<>>
  BY <1>1 DEF Retired
<1>2. CASE p.writable # <<>>
  <2>1. Retired(p) = [p EXCEPT !.submitted = Append(@, Head(p.writable)), !.writable = Tail(@)]
    BY <1>2 DEF Retired
  <2>2. /\ Append(p.submitted, Head(p.writable)) \in Seq(PageIds)
        /\ Tail(p.writable) \in Seq(PageIds)
    BY <1>2 DEF PoolStates
  <2> QED BY <2>1, <2>2 DEF PoolStates
<1> QED BY <1>1, <1>2

-----------------------------------------------------------------------------
(* The pool, for a draw being recorded. *)

(* What the slices' takers rely on, when only the pool and its pages move.  *)
LEMMA MovedPool ==
  ASSUME Frames, NEW d, DrawInv(d), NEW r \in DrawStates,
         r.memo = d.memo, r.bind = d.bind, ~r.pool.shutdown, Lists(r.pool, r.pages),
         HeldPages(r) <= GpuBudget,
         \A a : Taken(d.pool, a) => Taken(r.pool, a),
         \A id \in PageIds : d.pages[id].heap # "none" => r.pages[id] = d.pages[id]
  PROVE  DrawInv(r)
<1>1. ASSUME NEW a \in Addresses, NEW packet, NEW f, Kept(d, a, packet, f)
      PROVE  Kept(r, a, packet, f)
  <2>1. Taken(r.pool, a)
    BY <1>1 DEF Kept
  <2>2. InPool(a) => a.page \in PageIds
    BY DEF InPool, Addresses
  <2> QED BY <1>1, <2>1, <2>2 DEF Kept, Stored
<1>2. \A b \in d.bind : b.address \in Addresses
  BY DEF DrawInv, DrawStates, Bindings
<1>3. \A m \in {"pixel", "vertex"} : d.memo[m].address \in Addresses
  BY DEF DrawInv, DrawStates, MemoStates
<1>4. \A b \in bound : b.address \in Addresses
  BY DEF Frames, Bindings
<1> QED BY <1>1, <1>2, <1>3, <1>4 DEF DrawInv, Found

LEMMA HeldIsFinite ==
  ASSUME NEW d, NEW heaps
  PROVE  Held(d, heaps) \subseteq PageIds /\ IsFiniteSet(Held(d, heaps))
         /\ Cardinality(Held(d, heaps)) \in Nat
BY SmallPages, FS_Subset, FS_CardinalityType DEF Held

LEMMA CreatePageKeeps ==
  ASSUME Frames, NEW d, DrawInv(d), NEW r \in CreatePage(d), Retired(d.pool).writable = <<>>,
         NeedsPage(d.pool)
  PROVE  /\ DrawInv(r) /\ r.bind = d.bind /\ r.memo = d.memo /\ r.ok = d.ok
         /\ r.pool.writable # <<>> /\ r.pool.used = 0
<1> DEFINE tried == ~d.pool.gpu_failed /\ BudgetAvailable(d)
           free == Held(d, {"none"})
           id == CHOOSE i \in free : \A j \in free : i <= j
<1>1. free # {}
  BY DEF CreatePage
<1>2. id \in free
  <2>1. free \in SUBSET Nat
    BY SmallPages, HeldIsFinite
  <2>2. \E i \in free : \A j \in free : i <= j
    BY <1>1, <2>1, LeastOfNaturals
  <2> QED BY <2>2
<1>3. PICK heap \in {"gpu", "upload"} :
        /\ heap = "gpu" => tried
        /\ r = [d EXCEPT !.pool = [Retired(d.pool) EXCEPT
                                        !.writable = <<id>>, !.used = 0,
                                        !.gpu_failed = @ \/ (tried /\ heap = "upload")],
                         !.pages[id] = [NoPage EXCEPT !.heap = heap]]
  BY <1>1 DEF CreatePage
<1>4. id \in PageIds /\ d.pages[id].heap = "none"
  BY <1>2 DEF Held
<1> HIDE DEF id, tried, free
<1>5. d \in DrawStates /\ d.pool \in PoolStates /\ tried \in BOOLEAN
  BY DEF DrawInv, DrawStates, tried
<1> DEFINE q == [Retired(d.pool) EXCEPT !.used = 0]
<1>6. /\ q \in PoolStates /\ q.writable = <<>> /\ q.submitted = Retired(d.pool).submitted
      /\ ~q.shutdown /\ q.used = 0 /\ q.shutdown = d.pool.shutdown
      /\ Retired(d.pool) \in PoolStates
  <2>1. 0 \in 0 .. PageSlices
    BY SmallPages
  <2> QED BY <1>5, <2>1, RetiredState, SMTT(30) DEF PoolStates, DrawInv
<1>7. Lists(q, d.pages) /\ \A a : Taken(d.pool, a) => Taken(q, a)
  BY <1>5, <1>6, RetiredKeeps DEF DrawInv
<1> DEFINE fresh == [NoPage EXCEPT !.heap = heap]
           opened == [Retired(d.pool) EXCEPT !.writable = <<id>>, !.used = 0,
                                             !.gpu_failed = @ \/ (tried /\ heap = "upload")]
<1>8. /\ r.pool \in PoolStates /\ r.pool.writable = <<id>> /\ r.pool.submitted = q.submitted
      /\ r.pool.used = 0 /\ ~r.pool.shutdown
  <2>1. r.pool = opened
    <3>1. r = [d EXCEPT !.pool = opened, !.pages[id] = fresh]
      BY <1>3
    <3> HIDE DEF opened, fresh
    <3> QED BY <1>5, <3>1 DEF DrawStates
  <2>2. <<id>> \in Seq(PageIds) /\ 0 \in 0 .. PageSlices
    BY <1>4, SmallPages
  <2> QED BY <1>5, <1>6, <2>1, <2>2 DEF PoolStates
<1> HIDE DEF q
<1>9. fresh \in PageStates /\ fresh.heap = heap
  BY DEF NoPage, PageStates, Heaps, Contents
<1>10. /\ r \in DrawStates /\ r.pages = [d.pages EXCEPT ![id] = fresh]
       /\ r.memo = d.memo /\ r.bind = d.bind /\ r.ok = d.ok
  BY <1>3, <1>4, <1>5, <1>8, <1>9 DEF DrawStates
<1>11. /\ r.pages[id].heap = heap
       /\ \A other \in PageIds \ {id} : r.pages[other] = d.pages[other]
  BY <1>4, <1>5, <1>9, <1>10 DEF DrawStates
<1>12. Lists(r.pool, r.pages)
  <2>1. \A x : x \in Range(r.pool.writable) <=> x = id
    BY <1>8 DEF Range
  <2>2. \A x : x \notin Range(q.writable)
    BY <1>6 DEF Range
  <2>3. id \notin Range(q.submitted)
    BY <1>4, <1>7 DEF Lists, Listing
  <2>4. /\ Len(r.pool.writable) = 1 /\ r.pool.writable[1] = id
    BY <1>8
  <2>5. \A j \in 1 .. Len(r.pool.submitted) : r.pool.submitted[j] # id
    BY <1>6, <1>8, <2>3, InRange DEF PoolStates
  <2> QED BY <1>7, <1>8, <1>11, <2>1, <2>2, <2>3, <2>4, <2>5 DEF Lists, Listing
<1>13. HeldPages(r) <= GpuBudget
  <2>1. CASE heap = "upload"
    <3>1. Held(r, {"gpu", "gpu_retained"}) = Held(d, {"gpu", "gpu_retained"})
      BY <1>4, <1>11, <2>1 DEF Held
    <3> QED BY <3>1 DEF HeldPages, DrawInv
  <2>2. CASE heap = "gpu"
    <3>1. /\ Held(r, {"gpu", "gpu_retained"}) = Held(d, {"gpu", "gpu_retained"}) \union {id}
          /\ id \notin Held(d, {"gpu", "gpu_retained"})
      BY <1>4, <1>11, <2>2 DEF Held
    <3>2. HeldPages(r) = HeldPages(d) + 1
      BY <3>1, HeldIsFinite, FS_AddElement DEF HeldPages
    <3> QED BY <1>3, <2>2, <3>2 DEF tried, BudgetAvailable
  <2> QED BY <2>1, <2>2
<1>14. \A a : Taken(d.pool, a) => Taken(r.pool, a)
  BY <1>6, <1>7, <1>8 DEF Taken
<1>15. DrawInv(r)
  <2>1. \A other \in PageIds : d.pages[other].heap # "none" => r.pages[other] = d.pages[other]
    BY <1>4, <1>11
  <2> QED BY <1>8, <1>10, <1>12, <1>13, <1>14, <2>1, MovedPool
<1> QED BY <1>8, <1>10, <1>15

(* With an open page that has room.                                         *)
LEMMA WithRoomKeeps ==
  ASSUME Frames, NEW d, DrawInv(d), NEW r \in WithRoom(d)
  PROVE  /\ DrawInv(r) /\ r.bind = d.bind /\ r.memo = d.memo /\ r.ok = d.ok
         /\ r.pool.writable # <<>> /\ r.pool.used < PageSlices
<1>1. d \in DrawStates /\ d.pool \in PoolStates /\ d.pool.used \in 0 .. PageSlices
  BY DEF DrawInv, DrawStates, PoolStates
<1>2. CASE ~NeedsPage(d.pool)
  BY <1>1, <1>2, SmallPages DEF WithRoom, NeedsPage
<1>3. CASE NeedsPage(d.pool) /\ Retired(d.pool).writable # <<>>
  <2>1. r = [d EXCEPT !.pool = [Retired(@) EXCEPT !.used = 0]]
    BY <1>3 DEF WithRoom
  <2>2. 0 \in 0 .. PageSlices /\ 0 < PageSlices
    BY SmallPages
  <2>3. r.pool = [Retired(d.pool) EXCEPT !.used = 0]
    BY <1>1, <2>1 DEF DrawStates
  <2>4. /\ r.pool \in PoolStates /\ r.pool.writable = Retired(d.pool).writable
        /\ r.pool.submitted = Retired(d.pool).submitted
        /\ r.pool.shutdown = d.pool.shutdown /\ r.pool.used = 0
    BY <1>1, <2>2, <2>3, RetiredState DEF PoolStates
  <2>5. /\ r \in DrawStates /\ r.pages = d.pages /\ r.memo = d.memo /\ r.bind = d.bind
        /\ r.ok = d.ok
    BY <1>1, <2>1, <2>4 DEF DrawStates
  <2>6. HeldPages(r) = HeldPages(d)
    BY <2>5 DEF HeldPages, Held
  <2>7. Lists(r.pool, r.pages) /\ \A a : Taken(d.pool, a) => Taken(r.pool, a)
    BY <1>1, <2>4, <2>5, RetiredKeeps DEF DrawInv
  <2>8. DrawInv(r)
    BY <2>4, <2>5, <2>6, <2>7, MovedPool DEF DrawInv
  <2> QED BY <1>3, <2>2, <2>4, <2>5, <2>8
<1>4. CASE NeedsPage(d.pool) /\ Retired(d.pool).writable = <<>>
  BY <1>4, CreatePageKeeps, SmallPages DEF WithRoom
<1> QED BY <1>2, <1>3, <1>4

-----------------------------------------------------------------------------
(* Slices. *)

(* A slice that was just handed out is the caller's alone.                  *)
Others(d, address) ==
  /\ \A b \in bound \union d.bind :
       b.address.page = address.page => b.address.slice # address.slice
  /\ \A m \in Found(d.memo) :
       d.memo[m].address.page = address.page => d.memo[m].address.slice # address.slice
OwnSlice(d, address, packet) ==
  IF InPool(address)
  THEN /\ address.page \in PageIds /\ address.slice \in 1 .. PageSlices
       /\ d.pages[address.page].heap \in {"gpu", "upload"}
       /\ d.pages[address.page].last = frame.current
       /\ Taken(d.pool, address)
       /\ Others(d, address)
  ELSE address = NoSlice \/ (address.slice = frame.current /\ address.sdk = packet)

LEMMA ServedKeeps ==
  ASSUME Frames, NEW d, DrawInv(d), d.pool.writable # <<>>, d.pool.used < PageSlices,
         NEW packet
  PROVE  /\ DrawInv(Served(d).draw) /\ OwnSlice(Served(d).draw, Served(d).address, packet)
         /\ Served(d).draw.memo = d.memo /\ Served(d).draw.bind = d.bind
         /\ Served(d).draw.ok = d.ok /\ Served(d).address \in Addresses
<1> DEFINE page == Head(d.pool.writable)
           slice == d.pool.used + 1
           r == [d EXCEPT !.pool.used = slice, !.pages[page].last = Tag(d.pages[page].last)]
           a == Address(page, slice, Empty)
<1>1. Served(d).draw = r /\ Served(d).address = a
  BY DEF Served, Slice
<1>2. /\ d \in DrawStates /\ d.pool \in PoolStates /\ d.pool.used \in 0 .. PageSlices
      /\ d.pool.writable \in Seq(PageIds) /\ d.pool.submitted \in Seq(PageIds)
      /\ frame.current \in Nat
  BY DEF DrawInv, DrawStates, PoolStates, Frames
<1>3. /\ page \in PageIds /\ page = d.pool.writable[1] /\ 1 \in 1 .. Len(d.pool.writable)
      /\ slice \in 1 .. PageSlices /\ slice \in 0 .. PageSlices /\ slice > d.pool.used
  BY <1>2, SmallPages
<1>4. page \in Range(d.pool.writable) /\ page \notin Range(d.pool.submitted)
  <2>1. page \in Range(d.pool.writable)
    BY <1>2, <1>3, InRange
  <2>2. \A j \in 1 .. Len(d.pool.submitted) : d.pool.submitted[j] # page
    BY <1>3 DEF DrawInv, Lists
  <2> QED BY <1>2, <2>1, <2>2, InRange
<1>5. d.pages[page].heap \in {"gpu", "upload"}
  BY <1>3, <1>4 DEF DrawInv, Lists, Listing
<1> HIDE DEF page, slice
<1>6. /\ a \in Addresses /\ a.page = page /\ a.slice = slice /\ InPool(a)
  <2>1. a = [page |-> page, slice |-> slice, sdk |-> Empty]
    BY DEF Address
  <2>2. page # 0 /\ slice \in Nat /\ Empty \in Contents
    BY <1>3, SmallPages DEF Contents
  <2> QED BY <1>3, <2>1, <2>2 DEF Addresses, InPool
<1> DEFINE opened == [d.pool EXCEPT !.used = slice]
           tagged == [d.pages EXCEPT ![page] = [d.pages[page] EXCEPT !.last = frame.current]]
<1>7. /\ r \in DrawStates /\ r.memo = d.memo /\ r.bind = d.bind /\ r.ok = d.ok
      /\ r.pool = opened /\ r.pages = tagged
  <2>1. r = [d EXCEPT !.pool = opened, !.pages = tagged]
    BY <1>2, <1>3 DEF DrawStates, Tag
  <2>2. opened \in PoolStates
    BY <1>2, <1>3 DEF PoolStates
  <2>3. tagged \in [PageIds -> PageStates]
    BY <1>2, <1>3 DEF DrawStates, PageStates
  <2> HIDE DEF opened, tagged, r
  <2> QED BY <1>2, <2>1, <2>2, <2>3 DEF DrawStates
<1> HIDE DEF r, a
<1>8. /\ r.pool.writable = d.pool.writable /\ r.pool.submitted = d.pool.submitted
      /\ r.pool.used = slice /\ r.pool.shutdown = d.pool.shutdown
  BY <1>2, <1>7 DEF PoolStates
<1>9. /\ \A id \in PageIds : r.pages[id].heap = d.pages[id].heap
                             /\ r.pages[id].slices = d.pages[id].slices
      /\ \A id \in PageIds : id # page => r.pages[id] = d.pages[id]
      /\ r.pages[page].last = frame.current
  BY <1>2, <1>3, <1>7 DEF DrawStates, PageStates
<1>10. Lists(r.pool, r.pages)
  BY <1>8, <1>9 DEF DrawInv, Lists, Listing
<1>11. HeldPages(r) <= GpuBudget
  <2>1. Held(r, {"gpu", "gpu_retained"}) = Held(d, {"gpu", "gpu_retained"})
    BY <1>9 DEF Held
  <2> QED BY <2>1 DEF DrawInv, HeldPages
<1>12. ASSUME NEW b \in Addresses, NEW content, NEW f \in Nat, f <= frame.current,
              Kept(d, b, content, f)
       PROVE  Kept(r, b, content, f) /\ (b.page = page => b.slice # slice)
  <2>1. CASE b.page = 0
    BY <1>3, <1>12, <2>1, SmallPages DEF Kept, Stored, Taken, InPool
  <2>2. CASE b.page \in PageIds
    <3>1. b.page # 0
      BY <2>2, SmallPages
    <3>2. Taken(d.pool, b) /\ b.slice \in 1 .. PageSlices
      BY <1>12, <3>1 DEF Kept, Stored, InPool
    <3>3. b.page = page => b.slice <= d.pool.used
      BY <1>4, <3>1, <3>2 DEF Taken, InPool, page
    <3>4. Taken(r.pool, b)
      BY <1>2, <1>3, <1>8, <3>1, <3>2 DEF Taken, InPool
    <3>5. Stored(r.pages, b, content, f)
      BY <1>9, <1>12, <2>2, <3>1 DEF Kept, Stored, InPool
    <3> QED BY <1>2, <1>3, <3>2, <3>3, <3>4, <3>5 DEF Kept
  <2> QED BY <2>1, <2>2 DEF Addresses
<1>13. /\ \A b \in bound \union d.bind : b.address \in Addresses /\ b.frame \in Nat
                                         /\ b.frame <= frame.current
       /\ \A m \in {"pixel", "vertex"} : d.memo[m].address \in Addresses
  BY <1>2 DEF Frames, DrawInv, DrawStates, Bindings, MemoStates
<1>14. DrawInv(r)
  <2>1. \A b \in bound \union r.bind : Kept(r, b.address, b.packet, b.frame)
    BY <1>7, <1>12, <1>13 DEF DrawInv
  <2>2. \A m \in Found(r.memo) : Kept(r, r.memo[m].address, r.memo[m].packet, frame.current)
    BY <1>2, <1>7, <1>12, <1>13 DEF DrawInv, Found
  <2> QED BY <1>7, <1>8, <1>10, <1>11, <2>1, <2>2 DEF DrawInv
<1>15. Others(r, a)
  BY <1>2, <1>6, <1>7, <1>12, <1>13, SMTT(30) DEF Others, DrawInv, Found
<1>16. Taken(r.pool, a)
  BY <1>3, <1>6, <1>8 DEF Taken, page
<1> QED BY <1>1, <1>3, <1>5, <1>6, <1>7, <1>9, <1>14, <1>15, <1>16 DEF OwnSlice

LEMMA RefusedKeeps ==
  ASSUME Frames, NEW d, DrawInv(d)
  PROVE  /\ DrawInv(Refused(d)) /\ Refused(d).memo = d.memo /\ Refused(d).bind = d.bind
         /\ Refused(d).ok = d.ok
<1>1. d \in DrawStates /\ d.pool \in PoolStates
  BY DEF DrawInv, DrawStates
<1>2. CASE d.pool.disabled
  <2>1. Refused(d) = d
    BY <1>1, <1>2 DEF Refused, DrawStates
  <2> QED BY <2>1
<1>3. CASE ~d.pool.disabled
  <2> DEFINE q == [Retired(d.pool) EXCEPT !.disabled = TRUE, !.used = 0]
  <2>1. /\ q \in PoolStates /\ q.writable = Retired(d.pool).writable
        /\ q.submitted = Retired(d.pool).submitted /\ q.used = 0 /\ q.shutdown = d.pool.shutdown
    <3>1. 0 \in 0 .. PageSlices
      BY SmallPages
    <3> QED BY <1>1, <3>1, RetiredState DEF PoolStates
  <2>2. Refused(d) = [d EXCEPT !.pool = q]
    BY <1>3 DEF Refused
  <2> HIDE DEF q
  <2>3. /\ Refused(d) \in DrawStates /\ Refused(d).pool = q /\ Refused(d).pages = d.pages
        /\ Refused(d).memo = d.memo /\ Refused(d).bind = d.bind /\ Refused(d).ok = d.ok
    BY <1>1, <2>1, <2>2 DEF DrawStates
  <2>4. HeldPages(Refused(d)) = HeldPages(d)
    BY <2>3 DEF HeldPages, Held
  <2>5. Lists(q, d.pages) /\ \A a : Taken(d.pool, a) => Taken(q, a)
    BY <1>1, <2>1, RetiredKeeps DEF DrawInv
  <2>6. DrawInv(Refused(d))
    BY <2>1, <2>3, <2>4, <2>5, MovedPool DEF DrawInv
  <2> QED BY <2>3, <2>6
<1> QED BY <1>2, <1>3

LEMMA SlicesKeep ==
  ASSUME Frames, NEW d, DrawInv(d), NEW packet \in Packets, NEW s \in Slices(d, packet)
  PROVE  /\ DrawInv(s.draw) /\ s.draw.memo = d.memo /\ s.draw.bind = d.bind /\ s.draw.ok = d.ok
         /\ s.address \in Addresses /\ OwnSlice(s.draw, s.address, packet)
<1>1. CASE \E r \in WithRoom(d) : s = Served(r)
  <2>1. PICK r \in WithRoom(d) : s = Served(r)
    BY <1>1
  <2>2. /\ DrawInv(r) /\ r.bind = d.bind /\ r.memo = d.memo /\ r.ok = d.ok
        /\ r.pool.writable # <<>> /\ r.pool.used < PageSlices
    BY WithRoomKeeps
  <2> QED BY <2>1, <2>2, ServedKeeps
<1>2. CASE \E a \in {NoSlice, Address(0, frame.current, packet)} :
             s = Slice(Refused(d), a)
  <2>1. PICK a \in {NoSlice, Address(0, frame.current, packet)} :
          s = Slice(Refused(d), a)
    BY <1>2
  <2>2. s.draw = Refused(d) /\ s.address = a
    BY <2>1 DEF Slice
  <2>3. /\ a \in Addresses /\ ~InPool(a)
        /\ a = NoSlice \/ (a.slice = frame.current /\ a.sdk = packet)
    <3>1. \/ a = NoSlice
          \/ a = [page |-> 0, slice |-> frame.current, sdk |-> packet]
      BY DEF Address
    <3>2. frame.current \in Nat /\ Empty \in Contents /\ packet \in Contents
      BY DEF Frames, Contents
    <3> QED BY <3>1, <3>2 DEF NoSlice, Address, Addresses, InPool
  <2> QED BY <2>2, <2>3, RefusedKeeps DEF OwnSlice
<1> QED BY <1>1, <1>2 DEF Slices

-----------------------------------------------------------------------------
(* Record. *)

LEMMA NoMemoState ==
  ASSUME Frames
  PROVE  NoMemo \in MemoStates /\ NoMemo.frame # frame.current /\ NoMemo.frame <= frame.current
<1>1. frame.current \in Nat /\ 0 < frame.current /\ Empty \in Contents
  BY DEF Frames, Contents
<1>2. NoSlice \in Addresses
  BY <1>1 DEF NoSlice, Address, Addresses
<1> QED BY <1>1, <1>2 DEF NoMemo, MemoStates

LEMMA NewBinding ==
  ASSUME Frames, NEW a \in Addresses, NEW packet \in Packets
  PROVE  /\ [frame |-> frame.current, address |-> a, packet |-> packet] \in Bindings
         /\ \A found : Published(found, packet, a) \in MemoStates
<1>1. frame.current \in Nat /\ packet \in Contents
  BY DEF Frames, Contents
<1> QED BY <1>1 DEF Published, MemoStates, Bindings

(* A packet that is kept may be bound again.                                *)
LEMMA BindKeeps ==
  ASSUME Frames, NEW d, DrawInv(d), NEW a \in Addresses, NEW packet \in Packets,
         Kept(d, a, packet, frame.current)
  PROVE  /\ DrawInv(Bind(d, a, packet)) /\ Bind(d, a, packet).ok = d.ok
<1> DEFINE b == [frame |-> frame.current, address |-> a, packet |-> packet]
           r == Bind(d, a, packet)
<1>1. d \in DrawStates /\ b \in Bindings
  BY NewBinding DEF DrawInv
<1>2. b.frame = frame.current /\ b.address = a /\ b.packet = packet
  OBVIOUS
<1> HIDE DEF b
<1>3. /\ r \in DrawStates /\ r.bind = d.bind \union {b} /\ r.pool = d.pool /\ r.pages = d.pages
      /\ r.memo = d.memo /\ r.ok = d.ok
  <2>1. r = [d EXCEPT !.bind = d.bind \union {b}]
    BY <1>1 DEF Bind, DrawStates, b
  <2>2. d.bind \union {b} \in SUBSET Bindings
    BY <1>1 DEF DrawStates
  <2> HIDE DEF r
  <2> QED BY <1>1, <2>1, <2>2 DEF DrawStates
<1> HIDE DEF r
<1>4. HeldPages(r) = HeldPages(d)
  BY <1>3 DEF HeldPages, Held
<1>5. \A x \in bound \union r.bind : Kept(r, x.address, x.packet, x.frame)
  BY <1>2, <1>3 DEF DrawInv, Kept
<1>6. \A m \in Found(r.memo) : Kept(r, r.memo[m].address, r.memo[m].packet, frame.current)
  BY <1>3 DEF DrawInv, Kept, Found
<1> QED BY <1>2, <1>3, <1>4, <1>5, <1>6 DEF DrawInv, r

(* Memos may be reset at any time.                                          *)
LEMMA ResetKeeps ==
  ASSUME Frames, NEW d, DrawInv(d), NEW r \in DrawStates,
         r.pool = d.pool, r.pages = d.pages, r.bind = d.bind,
         \A m \in {"pixel", "vertex"} : r.memo[m] \in {d.memo[m], NoMemo}
  PROVE  DrawInv(r)
<1>1. NoMemo.frame # frame.current /\ NoMemo.frame <= frame.current
  BY DEF NoMemo, Frames
<1>2. HeldPages(r) = HeldPages(d)
  BY DEF HeldPages, Held
<1>3. \A m \in Found(r.memo) : m \in Found(d.memo) /\ r.memo[m] = d.memo[m]
  BY <1>1 DEF Found
<1> QED BY <1>1, <1>2, <1>3 DEF DrawInv, Kept

(* A slice of the draw's own may be written, and be published.              *)
LEMMA WriteKeeps ==
  ASSUME Frames, NEW d, DrawInv(d), NEW a \in Addresses, NEW packet \in Packets,
         a # NoSlice, OwnSlice(d, a, packet), NEW r \in DrawStates,
         r.pool = d.pool, r.pages = Written(d.pages, a, packet), r.bind = d.bind,
         \A m \in {"pixel", "vertex"} :
           r.memo[m] \in {d.memo[m], NoMemo, Published(d.memo[m], packet, a)}
  PROVE  DrawInv(r) /\ Kept(r, a, packet, frame.current)
<1>1. d \in DrawStates /\ d.pages \in [PageIds -> PageStates]
  BY DEF DrawInv, DrawStates
<1>2. NoMemo.frame # frame.current /\ NoMemo.frame <= frame.current
  BY DEF NoMemo, Frames
<1>3. /\ \A id \in PageIds : r.pages[id].heap = d.pages[id].heap
                             /\ r.pages[id].last = d.pages[id].last
      /\ \A id \in PageIds, s \in 1 .. PageSlices :
           (InPool(a) /\ id = a.page /\ s = a.slice) \/ r.pages[id].slices[s] = d.pages[id].slices[s]
      /\ InPool(a) => r.pages[a.page].slices[a.slice] = packet
  <2>1. CASE ~InPool(a)
    BY <2>1 DEF Written
  <2>2. CASE InPool(a)
    <3>1. a.page \in PageIds /\ a.slice \in 1 .. PageSlices
      BY <2>2 DEF OwnSlice
    <3>2. r.pages = [d.pages EXCEPT ![a.page].slices[a.slice] = packet]
      BY <2>2 DEF Written
    <3> DEFINE old == d.pages[a.page]
               new == r.pages[a.page]
    <3>3. /\ \A id \in PageIds \ {a.page} : r.pages[id] = d.pages[id]
          /\ new = [old EXCEPT !.slices[a.slice] = packet] /\ old \in PageStates
      BY <1>1, <3>1, <3>2
    <3> HIDE DEF old, new
    <3>4. /\ new.heap = old.heap /\ new.last = old.last
          /\ new.slices = [old.slices EXCEPT ![a.slice] = packet]
          /\ old.slices \in [1 .. PageSlices -> Contents]
      BY <3>3 DEF PageStates
    <3>5. /\ new.slices[a.slice] = packet
          /\ \A s \in (1 .. PageSlices) \ {a.slice} : new.slices[s] = old.slices[s]
      BY <3>1, <3>4
    <3> QED BY <2>2, <3>3, <3>4, <3>5 DEF old, new
  <2> QED BY <2>1, <2>2
<1>4. Kept(r, a, packet, frame.current)
  <2>1. CASE ~InPool(a)
    BY <2>1 DEF OwnSlice, Kept, Stored, Taken
  <2>2. CASE InPool(a)
    BY <1>3, <2>2 DEF OwnSlice, Kept, Stored, Frames
  <2> QED BY <2>1, <2>2
<1>5. ASSUME NEW b \in Addresses, NEW content, NEW f, Kept(d, b, content, f),
             InPool(a) /\ b.page = a.page => b.slice # a.slice
      PROVE  Kept(r, b, content, f)
  <2>1. InPool(b) => b.page \in PageIds
    BY DEF InPool, Addresses
  <2> QED BY <1>3, <1>5, <2>1 DEF Kept, Stored
<1>6. HeldPages(r) = HeldPages(d)
  <2>1. Held(r, {"gpu", "gpu_retained"}) = Held(d, {"gpu", "gpu_retained"})
    BY <1>3 DEF Held
  <2> QED BY <2>1 DEF HeldPages
<1>7. Lists(r.pool, r.pages)
  BY <1>3 DEF DrawInv, Lists
<1>8. \A b \in bound \union r.bind : Kept(r, b.address, b.packet, b.frame)
  <2>1. \A b \in bound \union d.bind : b.address \in Addresses
    BY <1>1 DEF Frames, Bindings, DrawStates
  <2> QED BY <1>5, <2>1 DEF DrawInv, OwnSlice, Others
<1>9. \A m \in Found(r.memo) : Kept(r, r.memo[m].address, r.memo[m].packet, frame.current)
  <2> SUFFICES ASSUME NEW m \in Found(r.memo)
               PROVE  Kept(r, r.memo[m].address, r.memo[m].packet, frame.current)
    OBVIOUS
  <2>1. m \in {"pixel", "vertex"} /\ r.memo[m].frame = frame.current
    BY DEF Found
  <2>2. CASE r.memo[m] = d.memo[m]
    <3>1. m \in Found(d.memo)
      BY <2>1, <2>2 DEF Found
    <3>2. d.memo[m].address \in Addresses
      BY <1>1, <2>1 DEF DrawStates, MemoStates
    <3>3. Kept(d, d.memo[m].address, d.memo[m].packet, frame.current)
      BY <3>1 DEF DrawInv
    <3> QED BY <1>5, <2>2, <3>1, <3>2, <3>3 DEF OwnSlice, Others
  <2>3. CASE r.memo[m] = Published(d.memo[m], packet, a)
    BY <1>4, <2>3 DEF Published
  <2> QED BY <1>2, <2>1, <2>2, <2>3
<1>10. \A m \in {"pixel", "vertex"} : r.memo[m].frame <= frame.current
  BY <1>2 DEF Published, DrawInv, Frames
<1> QED BY <1>4, <1>6, <1>7, <1>8, <1>9, <1>10 DEF DrawInv

LEMMA WrittenState ==
  ASSUME NEW d, d.pages \in [PageIds -> PageStates], NEW packet \in Packets, NEW a,
         OwnSlice(d, a, packet)
  PROVE  Written(d.pages, a, packet) \in [PageIds -> PageStates]
<1>1. CASE ~InPool(a)
  BY <1>1 DEF Written
<1>2. CASE InPool(a)
  <2>1. a.page \in PageIds /\ a.slice \in 1 .. PageSlices
    BY <1>2 DEF OwnSlice
  <2> DEFINE old == d.pages[a.page]
             new == [old EXCEPT !.slices = [old.slices EXCEPT ![a.slice] = packet]]
  <2>2. Written(d.pages, a, packet) = [d.pages EXCEPT ![a.page] = new]
    BY <1>2, <2>1 DEF Written
  <2>3. new \in PageStates
    <3>1. old \in PageStates
      BY <2>1
    <3> HIDE DEF old
    <3>2. old.slices \in [1 .. PageSlices -> Contents] /\ packet \in Contents
      BY <3>1 DEF PageStates, Contents
    <3>3. [old.slices EXCEPT ![a.slice] = packet] \in [1 .. PageSlices -> Contents]
      BY <3>2
    <3> QED BY <3>1, <3>3 DEF PageStates
  <2> QED BY <2>1, <2>2, <2>3
<1> QED BY <1>1, <1>2

LEMMA FillKeeps ==
  ASSUME Frames, NEW s, DrawInv(s.draw), s.address \in Addresses, NEW packet \in Packets,
         OwnSlice(s.draw, s.address, packet), NEW m \in {"pixel", "vertex"}, NEW reuse \in BOOLEAN
  PROVE  DrawInv(Fill(s, m, packet, reuse))
<1> DEFINE d == s.draw
           a == s.address
<1>1. /\ d \in DrawStates /\ a \in Addresses
      /\ d.memo \in [pixel : MemoStates, vertex : MemoStates]
      /\ d.pages \in [PageIds -> PageStates]
  BY DEF DrawInv, DrawStates
<1>2. CASE a = NoSlice
  <2> DEFINE kept == [d.memo EXCEPT ![m] = IF m = "vertex" THEN NoMemo ELSE d.memo[m]]
             r == [d EXCEPT !.ok = FALSE, !.memo = kept]
  <2>1. Fill(s, m, packet, reuse) = r
    BY <1>1, <1>2 DEF Fill, DrawStates
  <2>2. /\ kept \in [pixel : MemoStates, vertex : MemoStates]
        /\ \A n \in {"pixel", "vertex"} : kept[n] \in {d.memo[n], NoMemo}
    <3>1. CASE m = "pixel"
      BY <1>1, <3>1
    <3>2. CASE m = "vertex"
      BY <1>1, <3>2, NoMemoState
    <3> QED BY <3>1, <3>2
  <2> HIDE DEF kept, d, a
  <2>3. /\ r \in DrawStates /\ r.pool = d.pool /\ r.pages = d.pages /\ r.bind = d.bind
        /\ r.memo = kept
    BY <1>1, <2>2 DEF DrawStates
  <2> QED BY <2>1, <2>2, <2>3, ResetKeeps DEF d
<1>3. CASE a # NoSlice
  <2> DEFINE filled == Written(d.pages, a, packet)
             kept == [d.memo EXCEPT ![m] = IF reuse THEN Published(d.memo[m], packet, a) ELSE NoMemo]
             r == [d EXCEPT !.pages = filled, !.memo = kept]
  <2>1. Fill(s, m, packet, reuse) = Bind(r, a, packet)
    BY <1>1, <1>3 DEF Fill, DrawStates
  <2>2. /\ kept \in [pixel : MemoStates, vertex : MemoStates]
        /\ \A n \in {"pixel", "vertex"} :
             kept[n] \in {d.memo[n], NoMemo, Published(d.memo[n], packet, a)}
    <3>1. \A found : Published(found, packet, a) \in MemoStates
      BY <1>1, NewBinding
    <3>2. CASE m = "pixel"
      BY <1>1, <3>1, <3>2, NoMemoState
    <3>3. CASE m = "vertex"
      BY <1>1, <3>1, <3>3, NoMemoState
    <3> QED BY <3>2, <3>3
  <2>3. filled \in [PageIds -> PageStates]
    BY <1>1, WrittenState
  <2> HIDE DEF kept, filled
  <2>4. /\ r \in DrawStates /\ r.pool = d.pool /\ r.pages = filled /\ r.bind = d.bind
        /\ r.memo = kept
    BY <1>1, <2>2, <2>3 DEF DrawStates
  <2> HIDE DEF r, d, a
  <2>5. DrawInv(r) /\ Kept(r, a, packet, frame.current)
    BY <1>1, <1>3, <2>2, <2>4, WriteKeeps DEF filled, d, a
  <2> QED BY <1>1, <2>1, <2>5, BindKeeps
<1> QED BY <1>2, <1>3

LEMMA UploadStageKeeps ==
  ASSUME Frames, NEW d, DrawInv(d), NEW packet \in Packets, NEW m \in {"pixel", "vertex"},
         NEW reuse \in BOOLEAN, NEW r \in UploadStage(d, m, packet, reuse)
  PROVE  DrawInv(r)
<1>1. CASE reuse /\ Hit(d.memo[m], packet)
  <2>1. r = Bind(d, d.memo[m].address, packet)
    BY <1>1 DEF UploadStage
  <2>2. m \in Found(d.memo) /\ d.memo[m].packet = packet
    BY <1>1 DEF Hit, Found
  <2>3. d.memo[m].address \in Addresses
    BY DEF DrawInv, DrawStates, MemoStates
  <2>4. Kept(d, d.memo[m].address, packet, frame.current)
    BY <2>2 DEF DrawInv
  <2> QED BY <2>1, <2>3, <2>4, BindKeeps
<1>2. CASE ~(reuse /\ Hit(d.memo[m], packet))
  <2>1. PICK s \in Slices(d, packet) : r = Fill(s, m, packet, reuse)
    BY <1>2 DEF UploadStage
  <2> QED BY <2>1, SlicesKeep, FillKeeps
<1> QED BY <1>1, <1>2

LEMMA UploadRootKeeps ==
  ASSUME Frames, NEW d, DrawInv(d), NEW packet \in Packets, NEW r \in UploadRoot(d, packet)
  PROVE  DrawInv(r)
<1>1. PICK s \in Slices(d, packet) :
        r = IF s.address = NoSlice THEN [s.draw EXCEPT !.ok = FALSE]
            ELSE Bind([s.draw EXCEPT !.pages = Written(@, s.address, packet)], s.address, packet)
  BY DEF UploadRoot
<1> DEFINE e == s.draw
           a == s.address
<1>2. /\ DrawInv(e) /\ a \in Addresses /\ OwnSlice(e, a, packet) /\ e \in DrawStates
  BY SlicesKeep DEF DrawInv
<1> HIDE DEF e, a
<1>3. CASE a = NoSlice
  <2> DEFINE f == [e EXCEPT !.ok = FALSE]
  <2>1. /\ f \in DrawStates /\ f.pool = e.pool /\ f.pages = e.pages /\ f.bind = e.bind
        /\ f.memo = e.memo
    BY <1>2 DEF DrawStates
  <2> HIDE DEF f
  <2>2. DrawInv(f)
    BY <1>2, <2>1, ResetKeeps
  <2> QED BY <1>1, <1>3, <2>2 DEF e, a, f
<1>4. CASE a # NoSlice
  <2> DEFINE filled == Written(e.pages, a, packet)
             f == [e EXCEPT !.pages = filled]
  <2>1. filled \in [PageIds -> PageStates]
    BY <1>2, WrittenState DEF DrawStates
  <2> HIDE DEF filled
  <2>2. /\ f \in DrawStates /\ f.pool = e.pool /\ f.pages = filled /\ f.bind = e.bind
        /\ f.memo = e.memo
    BY <1>2, <2>1 DEF DrawStates
  <2> HIDE DEF f
  <2>3. DrawInv(f) /\ Kept(f, a, packet, frame.current)
    BY <1>2, <1>4, <2>2, WriteKeeps DEF filled
  <2>4. r = Bind(f, a, packet)
    BY <1>1, <1>2, <1>4 DEF e, a, f, filled, DrawStates
  <2> QED BY <1>2, <2>3, <2>4, BindKeeps
<1> QED BY <1>3, <1>4

-----------------------------------------------------------------------------
(* The steps. *)

LEMMA ReclaimedIsDefined ==
  ASSUME pool \in PoolStates
  PROVE  \E n \in 0 .. Len(pool.submitted) :
           /\ ReclaimedPages = SubSeq(pool.submitted, 1, n)
           /\ \A i \in 1 .. n : Reclaimable(pool.submitted[i])
<1> DEFINE len == Len(pool.submitted)
           Stop(k) == k < len => ~Reclaimable(pool.submitted[k + 1])
           First(k) == (\A i \in 1 .. k : Reclaimable(pool.submitted[i])) /\ Stop(k)
<1>1. len \in Nat
  BY DEF PoolStates
<1>2. PICK k \in {j \in 0 .. len : Stop(j)} : \A j \in {i \in 0 .. len : Stop(i)} : k <= j
  <2>1. len \in {j \in 0 .. len : Stop(j)}
    BY <1>1
  <2>2. {j \in 0 .. len : Stop(j)} \in SUBSET Nat
    OBVIOUS
  <2> HIDE DEF Stop
  <2> QED BY <2>1, <2>2, LeastOfNaturals
<1>3. ASSUME NEW i \in 1 .. k PROVE Reclaimable(pool.submitted[i])
  <2>1. i - 1 \in 0 .. len /\ ~(k <= i - 1) /\ (i - 1) + 1 = i
    BY <1>1, <1>2
  <2>2. ~Stop(i - 1)
    BY <1>2, <2>1
  <2> QED BY <2>1, <2>2
<1>4. \E j \in 0 .. len : First(j)
  BY <1>2, <1>3
<1>5. PICK n \in 0 .. len : n = (CHOOSE j \in 0 .. len : First(j)) /\ First(n)
  <2> HIDE DEF First, len
  <2> QED BY <1>4
<1> QED BY <1>5 DEF ReclaimedPages

LEMMA RecordKeeps ==
  ASSUME IInv, NEW vertex \in Packets, NEW pixel \in Packets \union {Empty}, NEW reuse \in Switches,
         NEW ranges \in BOOLEAN, NEW root \in BOOLEAN, Record(vertex, pixel, reuse, ranges, root)
  PROVE  IInv'
<1> DEFINE Usable(m) == IF m \in reuse THEN memo[m] ELSE NoMemo
           kept == [pixel |-> Usable("pixel"), vertex |-> Usable("vertex")]
           start == [Draw EXCEPT !.memo = kept]
<1>1. Frames /\ DrawInv(Draw) /\ Draw \in DrawStates /\ ~pool.shutdown
  BY DEF IInv, Record
<1>2. memo \in [pixel : MemoStates, vertex : MemoStates]
  BY <1>1 DEF Draw, DrawStates
<1>3. DrawInv(start)
  <2>2. kept \in [pixel : MemoStates, vertex : MemoStates]
    BY <1>1, <1>2, NoMemoState
  <2>3. \A m \in {"pixel", "vertex"} : kept[m] \in {memo[m], NoMemo}
    OBVIOUS
  <2> HIDE DEF kept
  <2>4. /\ start \in DrawStates /\ start.pool = Draw.pool /\ start.pages = Draw.pages
        /\ start.bind = Draw.bind /\ start.memo = kept /\ Draw.memo = memo
    BY <1>1, <2>2 DEF DrawStates, Draw
  <2> HIDE DEF start
  <2> QED BY <1>1, <2>3, <2>4, ResetKeeps
<1>4. PICK v \in UploadStage(start, "vertex", vertex, "vertex" \in reuse) :
        \E p \in IF v.ok /\ pixel # Empty THEN UploadStage(v, "pixel", pixel, "pixel" \in reuse)
                 ELSE {v} :
        \E d \in IF p.ok /\ ranges /\ root THEN UploadRoot(p, vertex) ELSE {p} :
          /\ pool' = d.pool /\ pages' = d.pages /\ memo' = d.memo
          /\ bound' = IF d.ok /\ ranges THEN bound \union d.bind ELSE bound
  BY ZenonT(60) DEF Record
<1> HIDE DEF start
<1>5. DrawInv(v)
  BY <1>1, <1>3, UploadStageKeeps, ("vertex" \in reuse) \in BOOLEAN
<1>6. PICK p \in IF v.ok /\ pixel # Empty THEN UploadStage(v, "pixel", pixel, "pixel" \in reuse)
                 ELSE {v} :
        \E d \in IF p.ok /\ ranges /\ root THEN UploadRoot(p, vertex) ELSE {p} :
          /\ pool' = d.pool /\ pages' = d.pages /\ memo' = d.memo
          /\ bound' = IF d.ok /\ ranges THEN bound \union d.bind ELSE bound
  BY <1>4
<1>7. DrawInv(p)
  BY <1>1, <1>5, UploadStageKeeps, ("pixel" \in reuse) \in BOOLEAN
<1>8. PICK d \in IF p.ok /\ ranges /\ root THEN UploadRoot(p, vertex) ELSE {p} :
        /\ pool' = d.pool /\ pages' = d.pages /\ memo' = d.memo
        /\ bound' = IF d.ok /\ ranges THEN bound \union d.bind ELSE bound
  BY <1>6
<1>9. DrawInv(d)
  BY <1>1, <1>7, UploadRootKeeps
<1>10. frame' = frame /\ bound' \subseteq bound \union d.bind
  BY <1>8 DEF Record
<1>11. /\ d.pool \in PoolStates /\ d.pages \in [PageIds -> PageStates]
       /\ d.memo \in [pixel : MemoStates, vertex : MemoStates]
       /\ d.bind \in SUBSET Bindings /\ \A b \in d.bind : b.frame = frame.current
       /\ ~d.pool.shutdown /\ Lists(d.pool, d.pages)
  BY <1>9 DEF DrawInv, DrawStates
<1>12. Frames'
  BY <1>1, <1>10, <1>11 DEF Frames
<1>13. (Draw \in DrawStates)'
  BY <1>8, <1>11 DEF Draw, DrawStates
<1>14. /\ Draw'.pool = d.pool /\ Draw'.pages = d.pages /\ Draw'.memo = d.memo /\ Draw'.bind = {}
  BY <1>8 DEF Draw
<1>15. (HeldPages(Draw) <= GpuBudget)'
  <2>1. HeldPages(Draw)' = HeldPages(d)
    BY <1>8 DEF HeldPages, Held, Draw
  <2> QED BY <1>9, <2>1 DEF DrawInv
<1>16. \A b \in bound' : Kept(d, b.address, b.packet, b.frame)
  BY <1>9, <1>10 DEF DrawInv
<1>17. DrawInv(Draw)'
  <2>1. (\A m \in Found(Draw.memo) : Kept(Draw, Draw.memo[m].address, Draw.memo[m].packet, frame.current))'
    BY <1>9, <1>10, <1>14, ZenonT(60) DEF DrawInv, Found, Kept, Stored, Taken, InPool
  <2>2. (\A b \in bound \union Draw.bind : Kept(Draw, b.address, b.packet, b.frame))'
    BY <1>14, <1>16 DEF Kept, Stored, Taken, InPool
  <2>3. (\A m \in {"pixel", "vertex"} : Draw.memo[m].frame <= frame.current)'
    BY <1>9, <1>10, <1>14 DEF DrawInv
  <2>4. (Lists(Draw.pool, Draw.pages))' /\ ~Draw'.pool.shutdown
    BY <1>11, <1>14 DEF Lists, Listing
  <2> QED BY <1>13, <1>14, <1>15, <2>1, <2>2, <2>3, <2>4 DEF DrawInv
<1> QED BY <1>8, <1>11, <1>12, <1>13, <1>15, <1>16, <1>17 DEF IInv, Kept, Lists, Listing, Stored, InPool

(* The reclaimed pages go from the start of the submitted list to the end   *)
(* of the writable one.  First for any two lists w, s of lengths lw, ls,    *)
(* the first n of s being appended to w, which gives w2, s2.                *)
Distinct(lw, ls, w, s) ==
  /\ \A i, j \in 1 .. lw : w[i] = w[j] => i = j
  /\ \A i, j \in 1 .. ls : s[i] = s[j] => i = j
  /\ \A i \in 1 .. lw, j \in 1 .. ls : w[i] # s[j]
Moved(lw, ls, n, w, s, w2, s2) ==
  /\ \A j \in 1 .. ls - n : s2[j] = s[j + n]
  /\ \A i \in 1 .. lw : w2[i] = w[i]
  /\ \A i \in 1 .. n : w2[lw + i] = s[i]
SameMembers(lw, ls, n, w, s, w2, s2) ==
  /\ \A x : (\E i \in 1 .. lw + n : w2[i] = x) <=>
            (\E i \in 1 .. lw : w[i] = x) \/ (\E i \in 1 .. n : s[i] = x)
  /\ \A x : (\E i \in 1 .. ls : s[i] = x) <=>
            (\E i \in 1 .. ls - n : s2[i] = x) \/ (\E i \in 1 .. n : s[i] = x)

LEMMA MovedPrefix ==
  ASSUME NEW lw \in Nat, NEW ls \in Nat, NEW n \in 0 .. ls,
         NEW w, NEW s, NEW w2, NEW s2,
         Moved(lw, ls, n, w, s, w2, s2), Distinct(lw, ls, w, s)
  PROVE  /\ Distinct(lw + n, ls - n, w2, s2)
         /\ SameMembers(lw, ls, n, w, s, w2, s2)
<1> USE DEF Moved, Distinct
<1>1. ASSUME NEW i \in 1 .. lw + n
      PROVE  \/ i \in 1 .. lw /\ w2[i] = w[i]
             \/ \E k \in 1 .. n : i = lw + k /\ w2[i] = s[k] /\ k \in 1 .. ls
  <2>1. CASE i <= lw
    <3>1. i \in 1 .. lw
      BY <2>1
    <3> QED BY <3>1
  <2>2. CASE i > lw
    <3>1. i - lw \in 1 .. n /\ i = lw + (i - lw) /\ i - lw \in 1 .. ls
      BY <2>2
    <3>2. w2[lw + (i - lw)] = s[i - lw]
      BY <3>1
    <3> QED BY <3>1, <3>2
  <2> QED BY <2>1, <2>2
<1>2. ASSUME NEW i \in 1 .. ls - n PROVE i + n \in 1 .. ls /\ s2[i] = s[i + n] /\ i + n > n
  OBVIOUS
<1>3. \A i \in 1 .. lw : i \in 1 .. lw + n
  OBVIOUS
<1>4. \A i \in 1 .. n : lw + i \in 1 .. lw + n /\ i \in 1 .. ls
  OBVIOUS
<1>5. ASSUME NEW i \in 1 .. lw + n, NEW j \in 1 .. lw + n, w2[i] = w2[j] PROVE i = j
  BY <1>1, <1>5
<1>6. ASSUME NEW i \in 1 .. ls - n, NEW j \in 1 .. ls - n, s2[i] = s2[j] PROVE i = j
  <2>1. i + n = j + n
    BY <1>2, <1>6
  <2> QED BY <2>1
<1>7. ASSUME NEW i \in 1 .. lw + n, NEW j \in 1 .. ls - n PROVE w2[i] # s2[j]
  <2>1. j + n \in 1 .. ls /\ s2[j] = s[j + n] /\ j + n > n
    BY <1>2
  <2>2. CASE i \in 1 .. lw /\ w2[i] = w[i]
    BY <2>1, <2>2
  <2>3. CASE \E k \in 1 .. n : i = lw + k /\ w2[i] = s[k] /\ k \in 1 .. ls
    <3>1. PICK k \in 1 .. n : w2[i] = s[k] /\ k \in 1 .. ls
      BY <2>3
    <3>2. k # j + n
      BY <2>1
    <3> QED BY <2>1, <3>1, <3>2
  <2> QED BY <1>1, <2>2, <2>3
<1>8. ASSUME NEW x
      PROVE  (\E i \in 1 .. lw + n : w2[i] = x) <=>
             (\E i \in 1 .. lw : w[i] = x) \/ (\E i \in 1 .. n : s[i] = x)
  <2>1. ASSUME NEW i \in 1 .. lw + n, w2[i] = x
        PROVE  (\E k \in 1 .. lw : w[k] = x) \/ (\E k \in 1 .. n : s[k] = x)
    BY <1>1, <2>1
  <2> QED BY <1>3, <1>4, <2>1
<1>9. ASSUME NEW x
      PROVE  (\E i \in 1 .. ls : s[i] = x) <=>
             (\E i \in 1 .. ls - n : s2[i] = x) \/ (\E i \in 1 .. n : s[i] = x)
  <2>1. ASSUME NEW i \in 1 .. ls, s[i] = x
        PROVE  (\E k \in 1 .. ls - n : s2[k] = x) \/ (\E k \in 1 .. n : s[k] = x)
    <3>1. CASE i <= n
      <4>1. i \in 1 .. n
        BY <3>1
      <4> QED BY <2>1, <4>1
    <3>2. CASE i > n
      <4>1. i - n \in 1 .. ls - n /\ (i - n) + n = i
        BY <3>2
      <4>2. s2[i - n] = s[(i - n) + n]
        BY <4>1
      <4> QED BY <2>1, <4>1, <4>2
    <3> QED BY <3>1, <3>2
  <2> QED BY <1>2, <1>4, <2>1
<1> QED BY <1>5, <1>6, <1>7, <1>8, <1>9 DEF SameMembers

(* What the two lists are made of. *)
Spliced(w, s, n, f, w2, s2) ==
  f = SubSeq(s, 1, n) /\ w2 = w \o f /\ s2 = SubSeq(s, n + 1, Len(s))

LEMMA SplicedFacts ==
  ASSUME NEW S, NEW w \in Seq(S), NEW s \in Seq(S), NEW n \in 0 .. Len(s), NEW f, NEW w2, NEW s2,
         Spliced(w, s, n, f, w2, s2)
  PROVE  /\ f \in Seq(S) /\ Len(f) = n /\ \A i \in 1 .. n : f[i] = s[i]
         /\ s2 \in Seq(S) /\ Len(s2) = Len(s) - n /\ \A j \in 1 .. Len(s) - n : s2[j] = s[j + n]
         /\ w2 \in Seq(S) /\ Len(w2) = Len(w) + n
         /\ \A i \in 1 .. Len(w) : w2[i] = w[i]
         /\ \A i \in 1 .. n : w2[Len(w) + i] = s[i]
<1>1. Len(s) \in Nat /\ Len(w) \in Nat /\ n \in Int /\ n + 1 \in Int /\ Len(s) \in Int
  OBVIOUS
<1>2. f \in Seq(S) /\ Len(f) = n /\ \A i \in 1 .. n : f[i] = s[i]
  <2>1. \A i \in 1 .. n : s[i] \in S
    BY <1>1
  <2>2. \A i \in 1 .. n : 1 + i - 1 = i /\ i \in 1 .. n - 1 + 1
    BY <1>1
  <2> QED BY <1>1, <2>1, <2>2, SubSeqProperties DEF Spliced
<1>3. s2 \in Seq(S) /\ Len(s2) = Len(s) - n /\ \A j \in 1 .. Len(s) - n : s2[j] = s[j + n]
  <2>1. \A i \in n + 1 .. Len(s) : s[i] \in S
    BY <1>1
  <2>2. \A j \in 1 .. Len(s) - n : n + 1 + j - 1 = j + n /\ j \in 1 .. Len(s) - (n + 1) + 1
    BY <1>1
  <2>3. Len(s2) = Len(s) - n
    BY <1>1, <2>1, SubSeqProperties DEF Spliced
  <2> QED BY <1>1, <2>1, <2>2, <2>3, SubSeqProperties DEF Spliced
<1>4. /\ w2 \in Seq(S) /\ Len(w2) = Len(w) + n
      /\ \A i \in 1 .. Len(w) : w2[i] = w[i]
      /\ \A i \in 1 .. n : w2[Len(w) + i] = s[i]
  <2>1. /\ w2 \in Seq(S) /\ Len(w2) = Len(w) + n
        /\ \A i \in 1 .. Len(w) + n : w2[i] = IF i <= Len(w) THEN w[i] ELSE f[i - Len(w)]
    BY <1>2, ConcatProperties DEF Spliced
  <2>2. \A i \in 1 .. Len(w) : i \in 1 .. Len(w) + n /\ i <= Len(w)
    BY <1>1
  <2>3. \A i \in 1 .. n : /\ Len(w) + i \in 1 .. Len(w) + n /\ ~(Len(w) + i <= Len(w))
                          /\ (Len(w) + i) - Len(w) = i
    BY <1>1
  <2> QED BY <1>2, <2>1, <2>2, <2>3
<1> QED BY <1>2, <1>3, <1>4

LEMMA SplicedLists ==
  ASSUME NEW S, NEW w \in Seq(S), NEW s \in Seq(S), NEW n \in 0 .. Len(s), NEW f, NEW w2, NEW s2,
         Spliced(w, s, n, f, w2, s2), Distinct(Len(w), Len(s), w, s)
  PROVE  /\ Distinct(Len(w2), Len(s2), w2, s2)
         /\ \A x : x \in Range(w2) <=> x \in Range(w) \/ x \in Range(f)
         /\ \A x : x \in Range(s) <=> x \in Range(s2) \/ x \in Range(f)
         /\ \A x : x \in Range(f) => \E i \in 1 .. n : s[i] = x
         /\ w # <<>> => w2 # <<>> /\ Head(w2) = Head(w)
<1>1. Len(s) \in Nat /\ Len(w) \in Nat
  OBVIOUS
<1>2. f \in Seq(S) /\ Len(f) = n /\ \A i \in 1 .. n : f[i] = s[i]
  BY SplicedFacts
<1>3. s2 \in Seq(S) /\ Len(s2) = Len(s) - n /\ \A j \in 1 .. Len(s) - n : s2[j] = s[j + n]
  BY SplicedFacts
<1>4. /\ w2 \in Seq(S) /\ Len(w2) = Len(w) + n
      /\ \A i \in 1 .. Len(w) : w2[i] = w[i]
      /\ \A i \in 1 .. n : w2[Len(w) + i] = s[i]
  BY SplicedFacts
<1>5. /\ Distinct(Len(w2), Len(s2), w2, s2)
      /\ SameMembers(Len(w), Len(s), n, w, s, w2, s2)
  <2>1. Moved(Len(w), Len(s), n, w, s, w2, s2)
    BY <1>3, <1>4 DEF Moved
  <2> QED BY <1>1, <1>3, <1>4, <2>1, MovedPrefix
<1>6. \A x : x \in Range(f) <=> \E i \in 1 .. n : s[i] = x
  <2>1. \A x : x \in Range(f) <=> \E i \in 1 .. Len(f) : f[i] = x
    BY <1>2, InRange
  <2> QED BY <1>2, <2>1
<1>7. \A x : x \in Range(w2) <=> x \in Range(w) \/ x \in Range(f)
  <2>1. \A x : x \in Range(w2) <=> \E i \in 1 .. Len(w) + n : w2[i] = x
    BY <1>4, InRange
  <2>2. \A x : x \in Range(w) <=> \E i \in 1 .. Len(w) : w[i] = x
    BY InRange
  <2> QED BY <1>5, <1>6, <2>1, <2>2 DEF SameMembers
<1>8. \A x : x \in Range(s) <=> x \in Range(s2) \/ x \in Range(f)
  <2>1. \A x : x \in Range(s2) <=> \E i \in 1 .. Len(s) - n : s2[i] = x
    BY <1>3, InRange
  <2>2. \A x : x \in Range(s) <=> \E i \in 1 .. Len(s) : s[i] = x
    BY InRange
  <2> QED BY <1>5, <1>6, <2>1, <2>2 DEF SameMembers
<1>9. w # <<>> => w2 # <<>> /\ Head(w2) = Head(w)
  <2>1. w # <<>> => 1 \in 1 .. Len(w) /\ Len(w) >= 1
    BY <1>1
  <2>2. w # <<>> => w2 # <<>> /\ w2[1] = w[1]
    BY <1>1, <1>4, <2>1
  <2>3. (w2 # <<>> => Head(w2) = w2[1]) /\ (w # <<>> => Head(w) = w[1])
    BY <1>4, HeadTailProperties
  <2> QED BY <2>2, <2>3
<1> QED BY <1>5, <1>6, <1>7, <1>8, <1>9

Reclaims(p, q, n) ==
  /\ q.writable = p.writable \o SubSeq(p.submitted, 1, n)
  /\ q.submitted = SubSeq(p.submitted, n + 1, Len(p.submitted))

LEMMA ReclaimKeepsLists ==
  ASSUME NEW p \in PoolStates, NEW pgs, NEW q \in PoolStates, NEW n \in 0 .. Len(p.submitted),
         Lists(p, pgs), q.shutdown = p.shutdown, q.used = p.used,
         Reclaims(p, q, n)
  PROVE  /\ Lists(q, pgs)
         /\ \A x : x \in Range(SubSeq(p.submitted, 1, n)) => \E i \in 1 .. n : p.submitted[i] = x
         /\ \A x : x \in Range(p.submitted) =>
              x \in Range(q.submitted) \/ x \in Range(SubSeq(p.submitted, 1, n))
         /\ p.writable # <<>> => q.writable # <<>> /\ Head(q.writable) = Head(p.writable)
<1> DEFINE f == SubSeq(p.submitted, 1, n)
<1>1. p.writable \in Seq(PageIds) /\ p.submitted \in Seq(PageIds)
  BY DEF PoolStates
<1>2. Distinct(Len(p.writable), Len(p.submitted), p.writable, p.submitted)
  BY DEF Lists, Distinct
<1>3. /\ Distinct(Len(q.writable), Len(q.submitted), q.writable, q.submitted)
      /\ \A x : x \in Range(q.writable) <=> x \in Range(p.writable) \/ x \in Range(f)
      /\ \A x : x \in Range(p.submitted) <=> x \in Range(q.submitted) \/ x \in Range(f)
      /\ \A x : x \in Range(f) => \E i \in 1 .. n : p.submitted[i] = x
      /\ p.writable # <<>> => q.writable # <<>> /\ Head(q.writable) = Head(p.writable)
  <2>1. Spliced(p.writable, p.submitted, n, f, q.writable, q.submitted)
    BY DEF Reclaims, Spliced
  <2> HIDE DEF f
  <2> QED BY <1>1, <1>2, <2>1, SplicedLists
<1> HIDE DEF f
<1>4. Lists(q, pgs)
  <2>1. \A id : id \in Listing(q) <=> id \in Listing(p)
    BY <1>3 DEF Listing
  <2>2. q.writable = <<>> => p.writable = <<>>
    BY <1>3
  <2> QED BY <1>3, <2>1, <2>2 DEF Lists, Distinct
<1> QED BY <1>3, <1>4 DEF f

LEMMA IInvState ==
  ASSUME IInv
  PROVE  /\ pool \in PoolStates /\ pages \in [PageIds -> PageStates]
         /\ memo \in [pixel : MemoStates, vertex : MemoStates]
         /\ \A b \in bound : /\ b.address \in Addresses /\ b.frame \in Nat
                             /\ InPool(b.address) => b.address.page \in PageIds
         /\ frame.current \in Nat /\ frame.done \in Nat /\ frame.completed \in Nat
BY DEF IInv, Draw, DrawStates, Frames, Bindings, Addresses, InPool

LEMMA SwapKeeps ==
  ASSUME IInv, Swap
  PROVE  IInv'
<1> DEFINE freed == ReclaimedPages
<1>1. /\ Frames /\ DrawInv(Draw) /\ ~pool.shutdown /\ Lists(pool, pages)
      /\ \A b \in bound : Stored(pages, b.address, b.packet, b.frame)
      /\ \A b \in bound : Taken(pool, b.address)
  BY DEF IInv, Swap, DrawInv, Draw, Kept
<1>2. /\ pool \in PoolStates /\ pages \in [PageIds -> PageStates]
      /\ memo \in [pixel : MemoStates, vertex : MemoStates]
      /\ \A b \in bound : /\ b.address \in Addresses /\ b.frame \in Nat
                          /\ InPool(b.address) => b.address.page \in PageIds
      /\ frame.current \in Nat /\ frame.done \in Nat /\ frame.completed \in Nat
  BY IInvState
<1>3. PICK n \in 0 .. Len(pool.submitted) :
        /\ freed = SubSeq(pool.submitted, 1, n)
        /\ \A i \in 1 .. n : Reclaimable(pool.submitted[i])
  BY <1>2, ReclaimedIsDefined
<1>4. /\ frame' = [frame EXCEPT !.current = @ + 1]
      /\ pool' = [pool EXCEPT !.writable = pool.writable \o freed,
                              !.submitted = SubSeq(pool.submitted, Len(freed) + 1, Len(pool.submitted))]
      /\ pages' = [id \in PageIds |->
                     IF id \in Range(freed) THEN [NoPage EXCEPT !.heap = pages[id].heap]
                     ELSE pages[id]]
      /\ memo' = memo /\ bound' = bound
  BY <1>2 DEF Swap, PoolStates
<1>5. freed \in Seq(PageIds) /\ Len(freed) = n
  <2>1. pool.submitted \in Seq(PageIds)
    BY <1>2 DEF PoolStates
  <2> DEFINE s == pool.submitted
  <2>2. s \in Seq(PageIds) /\ n \in 0 .. Len(s)
    BY <2>1
  <2> HIDE DEF s
  <2>3. SubSeq(s, 1, n) \in Seq(PageIds) /\ Len(SubSeq(s, 1, n)) = n
    BY <2>2
  <2> QED BY <1>3, <2>3 DEF s
<1>6. /\ pool' \in PoolStates /\ Reclaims(pool, pool', n)
      /\ pool'.used = pool.used /\ pool'.shutdown = pool.shutdown
  <2> DEFINE w2 == pool.writable \o freed
             s2 == SubSeq(pool.submitted, Len(freed) + 1, Len(pool.submitted))
  <2>1. w2 \in Seq(PageIds)
    BY <1>2, <1>5 DEF PoolStates
  <2>2. s2 \in Seq(PageIds)
    <3> DEFINE s == pool.submitted
    <3>1. s \in Seq(PageIds) /\ n \in 0 .. Len(s)
      BY <1>2 DEF PoolStates
    <3> HIDE DEF s
    <3>2. SubSeq(s, n + 1, Len(s)) \in Seq(PageIds)
      BY <3>1
    <3> QED BY <1>5, <3>2 DEF s
  <2>3. w2 = pool.writable \o SubSeq(pool.submitted, 1, n)
        /\ s2 = SubSeq(pool.submitted, n + 1, Len(pool.submitted))
    BY <1>3, <1>5
  <2>4. pool' = [pool EXCEPT !.writable = w2, !.submitted = s2]
    BY <1>4
  <2> HIDE DEF w2, s2
  <2>5. /\ pool' \in PoolStates /\ pool'.writable = w2 /\ pool'.submitted = s2
        /\ pool'.used = pool.used /\ pool'.shutdown = pool.shutdown
    BY <1>2, <2>1, <2>2, <2>4 DEF PoolStates
  <2> QED BY <2>3, <2>5 DEF Reclaims
<1>7. /\ Lists(pool', pages)
      /\ \A x : x \in Range(freed) => \E i \in 1 .. n : pool.submitted[i] = x
      /\ \A x : x \in Range(pool.submitted) => x \in Range(pool'.submitted) \/ x \in Range(freed)
      /\ pool.writable # <<>> => pool'.writable # <<>> /\ Head(pool'.writable) = Head(pool.writable)
  <2> DEFINE sub == SubSeq(pool.submitted, 1, n)
  <2>1. /\ Lists(pool', pages)
        /\ \A x : x \in Range(sub) => \E i \in 1 .. n : pool.submitted[i] = x
        /\ \A x : x \in Range(pool.submitted) => x \in Range(pool'.submitted) \/ x \in Range(sub)
        /\ pool.writable # <<>> => pool'.writable # <<>> /\ Head(pool'.writable) = Head(pool.writable)
    BY <1>1, <1>2, <1>6, ReclaimKeepsLists
  <2>2. freed = sub
    BY <1>3
  <2> HIDE DEF freed, sub
  <2> QED BY <2>1, <2>2
<1> HIDE DEF freed
<1>8. \A id \in PageIds : /\ pages'[id] \in PageStates /\ pages'[id].heap = pages[id].heap
                          /\ id \notin Range(freed) => pages'[id] = pages[id]
  <2>1. ASSUME NEW id \in PageIds PROVE [NoPage EXCEPT !.heap = pages[id].heap] \in PageStates
    BY <1>2 DEF NoPage, PageStates, Contents
  <2> QED BY <1>2, <1>4, <2>1 DEF NoPage
<1>9. \A b \in bound : InPool(b.address) => b.address.page \notin Range(freed)
  <2> SUFFICES ASSUME NEW b \in bound, InPool(b.address), b.address.page \in Range(freed)
               PROVE  FALSE
    OBVIOUS
  <2>1. pages[b.address.page].last >= b.frame /\ frame.done < b.frame
    BY <1>1 DEF Stored, Frames
  <2>2. pages[b.address.page].last <= frame.completed
    BY <1>3, <1>7 DEF Reclaimable
  <2>3. pages[b.address.page].last \in Nat
    BY <1>2 DEF PageStates
  <2> QED BY <1>1, <1>2, <2>1, <2>2, <2>3 DEF Frames
<1>10. \A b \in bound : /\ Stored(pages', b.address, b.packet, b.frame)
                        /\ Taken(pool', b.address)
  <2> TAKE b \in bound
  <2>1. Stored(pages', b.address, b.packet, b.frame)
    BY <1>1, <1>2, <1>8, <1>9 DEF Stored
  <2>2. Taken(pool', b.address)
    BY <1>1, <1>6, <1>7, <1>9 DEF Taken
  <2> QED BY <2>1, <2>2
<1>11. Lists(pool', pages')
  <2>1. Lists(pool', pages)
    BY <1>7
  <2>2. \A id \in PageIds : id \in Listing(pool') <=> pages'[id].heap \in {"gpu", "upload"}
    BY <1>8, <2>1 DEF Lists
  <2> QED BY <2>1, <2>2 DEF Lists
<1>12. Frames'
  <2>1. /\ frame' \in [current : Nat, completed : Nat, done : Nat]
        /\ frame'.current = frame.current + 1 /\ frame'.completed = frame.completed
        /\ frame'.done = frame.done
    BY <1>1, <1>4 DEF Frames
  <2>2. \A b \in bound : b.frame <= frame.current => b.frame <= frame.current + 1
    BY <1>2
  <2>3. frame.done < frame.current + 1
    BY <1>1, <1>2 DEF Frames
  <2> QED BY <1>1, <1>4, <2>1, <2>2, <2>3 DEF Frames
<1>13. (Draw \in DrawStates)'
  <2>1. pages' \in [PageIds -> PageStates]
    BY <1>4, <1>8
  <2> QED BY <1>2, <1>4, <1>6, <2>1 DEF Draw, DrawStates
<1>14. (HeldPages(Draw) <= GpuBudget)'
  <2>1. Held(Draw, {"gpu", "gpu_retained"})' = Held(Draw, {"gpu", "gpu_retained"})
    BY <1>8 DEF Held, Draw
  <2> QED BY <1>1, <2>1 DEF HeldPages, DrawInv
<1>15. \A m \in {"pixel", "vertex"} : memo'[m].frame <= frame'.current /\ memo'[m].frame # frame'.current
  <2>1. frame'.current = frame.current + 1
    BY <1>1, <1>4 DEF Frames
  <2>2. \A m \in {"pixel", "vertex"} : memo[m].frame <= frame.current /\ memo[m].frame \in Nat
    BY <1>1, <1>2 DEF DrawInv, Draw, MemoStates
  <2> QED BY <1>2, <1>4, <2>1, <2>2
<1>16. DrawInv(Draw)'
  <2>1. /\ Draw'.pool = pool' /\ Draw'.pages = pages' /\ Draw'.memo = memo' /\ Draw'.bind = {}
    BY DEF Draw
  <2>2. Found(Draw.memo)' = {}
    BY <1>15, <2>1 DEF Found
  <2>3. (\A b \in bound \union Draw.bind : Kept(Draw, b.address, b.packet, b.frame))'
    BY <1>4, <1>10, <2>1 DEF Kept, Stored, Taken, InPool
  <2>4. Lists(Draw.pool, Draw.pages)' /\ ~Draw'.pool.shutdown
    BY <1>1, <1>6, <1>11, <2>1 DEF Lists, Listing
  <2>5. (\A m \in {"pixel", "vertex"} : Draw.memo[m].frame <= frame.current)'
    BY <1>15, <2>1
  <2> QED BY <1>13, <1>14, <2>1, <2>2, <2>3, <2>4, <2>5 DEF DrawInv
<1> QED BY <1>1, <1>4, <1>6, <1>10, <1>11, <1>12, <1>13, <1>14, <1>16
        DEF IInv, Lists, Listing, Stored, InPool

(* Only the frames' counters and the bindings of a finished frame change.   *)
LEMMA FrameStepKeeps ==
  ASSUME IInv, Frames', frame'.current = frame.current, bound' \subseteq bound,
         UNCHANGED <<pool, pages, memo>>
  PROVE  IInv'
<1>1. Draw' = Draw
  BY DEF Draw
<1>2. ~pool.shutdown => DrawInv(Draw)'
  BY <1>1, ZenonT(60)
     DEF IInv, DrawInv, Found, Kept, Stored, Taken, InPool, Lists, Listing, HeldPages, Held
<1>3. (HeldPages(Draw) <= GpuBudget)'
  BY <1>1 DEF IInv, HeldPages, Held
<1>4. Lists(pool, pages)' /\ (pool.shutdown => Listing(pool) = {})'
  BY DEF IInv, Lists, Listing
<1> QED BY <1>1, <1>2, <1>3, <1>4 DEF IInv, Stored, InPool

LEMMA CheckCompletedKeeps ==
  ASSUME IInv, CheckCompleted
  PROVE  IInv'
<1>1. Frames' /\ frame'.current = frame.current /\ bound' = bound
  BY DEF CheckCompleted, IInv, Frames
<1> QED BY <1>1, FrameStepKeeps DEF CheckCompleted

LEMMA GpuFrameDoneKeeps ==
  ASSUME IInv, GpuFrameDone
  PROVE  IInv'
<1>1. Frames' /\ frame'.current = frame.current /\ bound' \subseteq bound
  BY DEF GpuFrameDone, IInv, Frames, Bindings
<1> QED BY <1>1, FrameStepKeeps DEF GpuFrameDone

LEMMA ShutdownKeeps ==
  ASSUME IInv, NEW proven \in BOOLEAN, Shutdown(proven)
  PROVE  IInv'
<1>1. /\ pool \in PoolStates /\ pages \in [PageIds -> PageStates]
      /\ memo \in [pixel : MemoStates, vertex : MemoStates]
      /\ \A b \in bound : /\ b.address \in Addresses /\ b.frame \in Nat
                          /\ InPool(b.address) => b.address.page \in PageIds
      /\ frame.current \in Nat /\ frame.done \in Nat /\ frame.completed \in Nat
  BY IInvState
<1>2. /\ pool' = [pool EXCEPT !.writable = <<>>, !.submitted = <<>>,
                              !.disabled = TRUE, !.shutdown = TRUE]
      /\ pages' = [id \in PageIds |->
                     IF pages[id].heap = "none" THEN pages[id]
                     ELSE [pages[id] EXCEPT !.heap = AfterShutdown(pages[id].heap, proven)]]
      /\ bound' = IF proven THEN {} ELSE bound
      /\ frame' = frame /\ memo' = memo
  BY <1>1 DEF Shutdown, PageStates
<1>3. /\ pool' \in PoolStates /\ pool'.writable = <<>> /\ pool'.submitted = <<>> /\ pool'.shutdown
  <2>1. <<>> \in Seq(PageIds)
    OBVIOUS
  <2> QED BY <1>1, <1>2, <2>1 DEF PoolStates
<1>4. \A id \in PageIds :
        /\ pages'[id] \in PageStates /\ pages'[id].last = pages[id].last
        /\ pages'[id].slices = pages[id].slices
        /\ pages'[id].heap = IF pages[id].heap = "none" THEN "none"
                             ELSE AfterShutdown(pages[id].heap, proven)
  <2> SUFFICES ASSUME NEW id \in PageIds
               PROVE  /\ pages'[id] \in PageStates /\ pages'[id].last = pages[id].last
                      /\ pages'[id].slices = pages[id].slices
                      /\ pages'[id].heap = IF pages[id].heap = "none" THEN "none"
                                           ELSE AfterShutdown(pages[id].heap, proven)
    OBVIOUS
  <2>1. AfterShutdown(pages[id].heap, proven) \in Heaps
    BY DEF AfterShutdown, Heaps
  <2> QED BY <1>1, <1>2, <2>1 DEF PageStates
<1>5. Listing(pool') = {} /\ Range(pool'.writable) = {} /\ Len(pool'.writable) = 0
      /\ Len(pool'.submitted) = 0
  BY <1>3 DEF Listing, Range
<1>6. Lists(pool', pages')
  <2>1. \A id \in PageIds : pages'[id].heap \notin {"gpu", "upload"}
    BY <1>4 DEF AfterShutdown
  <2> QED BY <1>3, <1>5, <2>1 DEF Lists
<1>7. (HeldPages(Draw) <= GpuBudget)'
  <2>1. Held(Draw, {"gpu", "gpu_retained"})' \subseteq Held(Draw, {"gpu", "gpu_retained"})
    BY <1>4 DEF Held, Draw, AfterShutdown
  <2>2. IsFiniteSet(Held(Draw, {"gpu", "gpu_retained"}))
    BY HeldIsFinite
  <2> DEFINE before == Held(Draw, {"gpu", "gpu_retained"})
             after == Held(Draw, {"gpu", "gpu_retained"})'
  <2>3. Cardinality(after) <= Cardinality(before) /\ Cardinality(after) \in Nat
        /\ Cardinality(before) \in Nat
    <3>1. after \subseteq before /\ IsFiniteSet(before)
      BY <2>1, <2>2
    <3> HIDE DEF before, after
    <3> QED BY <3>1, FS_Subset, FS_CardinalityType
  <2>4. Cardinality(before) <= GpuBudget /\ GpuBudget \in Nat
    BY NativeConstantsAssumption DEF IInv, HeldPages
  <2>5. HeldPages(Draw)' = Cardinality(after)
    BY DEF HeldPages
  <2> HIDE DEF before, after
  <2> QED BY <2>3, <2>4, <2>5
<1>8. \A b \in bound' : Stored(pages', b.address, b.packet, b.frame)
  <2> SUFFICES ASSUME NEW b \in bound' PROVE Stored(pages', b.address, b.packet, b.frame)
    OBVIOUS
  <2>1. b \in bound /\ ~proven
    BY <1>2
  <2>2. InPool(b.address) => /\ b.address.page \in PageIds
                             /\ pages'[b.address.page].heap \notin {"none", "released"}
    BY <1>1, <1>4, <2>1 DEF IInv, Stored, AfterShutdown
  <2> QED BY <1>4, <2>1, <2>2 DEF IInv, Stored
<1>9. Frames'
  BY <1>2 DEF IInv, Frames
<1>10. (Draw \in DrawStates)'
  <2>1. pages' \in [PageIds -> PageStates]
    BY <1>2, <1>4
  <2> QED BY <1>1, <1>2, <1>3, <2>1 DEF Draw, DrawStates
<1> QED BY <1>3, <1>5, <1>6, <1>7, <1>8, <1>9, <1>10 DEF IInv, Lists, Listing, Stored, InPool

LEMMA InitEstablishes == Init => IInv
<1> SUFFICES ASSUME Init PROVE IInv
  OBVIOUS
<1>1. Frames
  BY DEF Init, Frames
<1>2. NoMemo \in MemoStates /\ NoMemo.frame = 0
  BY <1>1, NoMemoState DEF NoMemo
<1>3. NoPage \in PageStates /\ NoPage.heap = "none"
  BY DEF NoPage, PageStates, Heaps, Contents
<1>4. pool \in PoolStates
  <2>1. <<>> \in Seq(PageIds) /\ 0 \in 0 .. PageSlices
    BY SmallPages
  <2> QED BY <2>1 DEF Init, PoolStates
<1>5. Draw \in DrawStates
  BY <1>2, <1>3, <1>4 DEF Init, Draw, DrawStates
<1>6. Lists(pool, pages) /\ Listing(pool) = {}
  <2>1. Range(pool.writable) = {} /\ Range(pool.submitted) = {}
    BY DEF Init, Range
  <2>2. /\ pool.used = 0 /\ Len(pool.writable) = 0 /\ Len(pool.submitted) = 0
    BY DEF Init
  <2>3. \A id \in PageIds : pages[id].heap = "none"
    BY <1>3 DEF Init
  <2>4. Listing(pool) = {}
    BY <2>1 DEF Listing
  <2> QED BY <2>2, <2>3, <2>4 DEF Lists
<1>7. HeldPages(Draw) <= GpuBudget
  <2>1. Held(Draw, {"gpu", "gpu_retained"}) = {}
    BY <1>3 DEF Init, Held, Draw
  <2>2. Cardinality({}) = 0 /\ GpuBudget \in Nat
    BY FS_EmptySet, NativeConstantsAssumption
  <2> QED BY <2>1, <2>2 DEF HeldPages
<1>8. DrawInv(Draw)
  <2>1. Found(Draw.memo) = {} /\ Draw.bind = {} /\ bound = {}
    BY <1>2 DEF Init, Found, Draw
  <2>2. Lists(Draw.pool, Draw.pages) /\ ~Draw.pool.shutdown
    BY <1>6 DEF Init, Draw
  <2>3. \A m \in {"pixel", "vertex"} : Draw.memo[m].frame <= frame.current
    BY <1>2 DEF Init, Draw
  <2> QED BY <1>5, <1>7, <2>1, <2>2, <2>3 DEF DrawInv
<1> QED BY <1>1, <1>5, <1>6, <1>7, <1>8 DEF Init, IInv

LEMMA NextKeeps == IInv /\ [Next]_vars => IInv'
<1> SUFFICES ASSUME IInv, [Next]_vars PROVE IInv'
  OBVIOUS
<1>1. ASSUME NEW v \in Packets, NEW p \in Packets \union {Empty}, NEW reuse \in Switches,
             NEW ranges \in BOOLEAN, NEW root \in BOOLEAN, Record(v, p, reuse, ranges, root)
      PROVE  IInv'
  BY <1>1, RecordKeeps
<1>2. CASE \E proven \in BOOLEAN : Shutdown(proven)
  BY <1>2, ShutdownKeeps
<1>3. CASE UNCHANGED vars
  <2>1. Frames' /\ frame'.current = frame.current /\ bound' = bound
    BY <1>3 DEF vars, IInv, Frames
  <2> QED BY <1>3, <2>1, FrameStepKeeps DEF vars
<1> QED BY <1>1, <1>2, <1>3, SwapKeeps, CheckCompletedKeeps, GpuFrameDoneKeeps DEF Next

-----------------------------------------------------------------------------
(* The theorems. *)

(* The inductive invariant: every page the pool holds is on one list, and a *)
(* packet that the GPU may read, or that a draw of the frame can find       *)
(* again, is in a slice that is not handed out and not reclaimed.           *)
THEOREM Invariance == Spec => []IInv
<1> QED BY InitEstablishes, NextKeeps, PTL DEF Spec

LEMMA RangeCount ==
  ASSUME NEW S, NEW s \in Seq(S), \A i, j \in 1 .. Len(s) : s[i] = s[j] => i = j
  PROVE  IsFiniteSet(Range(s)) /\ Cardinality(Range(s)) = Len(s)
<1>1. Len(s) \in Nat /\ DOMAIN s = 1 .. Len(s)
  OBVIOUS
<1>2. s \in Bijection(1 .. Len(s), Range(s))
  <2>1. s \in [1 .. Len(s) -> Range(s)]
    BY <1>1 DEF Range
  <2>2. \A t \in Range(s) : \E i \in 1 .. Len(s) : s[i] = t
    BY InRange
  <2> QED BY <1>1, <2>1, <2>2 DEF Bijection, Injection, Surjection, IsInjective
<1>3. ExistsBijection(1 .. Len(s), Range(s))
  BY <1>2 DEF ExistsBijection
<1>4. IsFiniteSet(1 .. Len(s)) /\ Cardinality(1 .. Len(s)) = Len(s)
  BY <1>1, FS_Interval
<1> QED BY <1>3, <1>4, FS_Bijection

LEMMA InvariantImplies == IInv => PoolInv /\ SliceIsImmutable
<1> SUFFICES ASSUME IInv PROVE PoolInv /\ SliceIsImmutable
  OBVIOUS
<1>1. pool \in PoolStates /\ Lists(pool, pages)
  BY IInvState DEF IInv
<1>2. pool.writable \in Seq(PageIds) /\ pool.submitted \in Seq(PageIds)
  BY <1>1 DEF PoolStates
<1> DEFINE w == Range(pool.writable)
           s == Range(pool.submitted)
<1>3. w \subseteq PageIds /\ s \subseteq PageIds
  BY <1>2 DEF Range
<1>4. Cardinality(Listed) = Len(pool.writable) + Len(pool.submitted)
  <2>1. /\ IsFiniteSet(w) /\ Cardinality(w) = Len(pool.writable)
        /\ IsFiniteSet(s) /\ Cardinality(s) = Len(pool.submitted)
    BY <1>1, <1>2, RangeCount DEF Lists
  <2>2. w \cap s = {}
    <3>1. ASSUME NEW x \in w, x \in s PROVE FALSE
      <4>1. PICK i \in 1 .. Len(pool.writable) : pool.writable[i] = x
        BY <1>2, <3>1, InRange
      <4>2. PICK j \in 1 .. Len(pool.submitted) : pool.submitted[j] = x
        BY <1>2, <3>1, InRange
      <4> QED BY <1>1, <4>1, <4>2 DEF Lists
    <3> QED BY <3>1
  <2>3. Listed = w \union s
    BY DEF Listed
  <2>4. Len(pool.writable) \in Nat /\ Len(pool.submitted) \in Nat
    BY <1>2
  <2> HIDE DEF w, s
  <2>5. Cardinality(w \union s) = Cardinality(w) + Cardinality(s) - Cardinality(w \cap s)
    BY <2>1, FS_Union
  <2>6. Cardinality(w \cap s) = 0
    BY <2>2, FS_EmptySet
  <2> QED BY <2>1, <2>3, <2>4, <2>5, <2>6
<1>5. Listed = {id \in PageIds : pages[id].heap \in {"gpu", "upload"}}
  BY <1>1, <1>3 DEF Listed, Lists, Listing
<1>6. TypeOK
  BY <1>1, <1>4, <1>5 DEF TypeOK, IInv, Frames, PoolStates, Lists
<1>7. SliceIsImmutable
  BY DEF SliceIsImmutable, IInv, Stored, Content
<1> QED BY <1>6, <1>7 DEF PoolInv, BudgetHolds, IInv

(* The pool: every page is on one list and once, within the byte budget,    *)
(* whatever creation fails and however the pool is shut down.               *)
THEOREM PoolInvAlways == Spec => []PoolInv
<1> QED BY Invariance, InvariantImplies, PTL

(* What a draw was bound to is there for as long as the GPU may read it,    *)
(* uploaded for it or found in a memo.                                      *)
THEOREM SliceIsImmutableAlways == Spec => []SliceIsImmutable
<1> QED BY Invariance, InvariantImplies, PTL

===============================================================================
