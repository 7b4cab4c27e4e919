---------------------------- MODULE ShadowMemory ----------------------------
(***************************************************************************)
(* The shadow memory of RompLib/include/ShadowMemory.h: a two-level page   *)
(* table whose leaves, the shadow pages, hold one access history per slot. *)
(* The pages of an address are allocated by the first thread that needs    *)
(* them and published with a compare-and-swap; a thread that loses that    *)
(* race keeps its page in a thread-local cache for the next time.          *)
(*                                                                         *)
(* The program has one shadow memory that all threads share, Shared, which *)
(* checkAccess uses, and each call of recycleMemRange makes one of its own *)
(* and destroys it when it returns; the caches are static members, so both *)
(* use the same ones.  A memory that a thread makes is named by the thread.*)
(*                                                                         *)
(* Shifts and masks are divisions and remainders by the powers of two they *)
(* stand for, which are the constants.                                     *)
(***************************************************************************)
EXTENDS Integers, FiniteSets

CONSTANTS
  Threads,
  Recyclers,    \* the threads that also recycle memory
  Shared, NIL,
  L1Pages,      \* what calloc may return for a first-level page ...
  ShadowPages,  \* ... and for a shadow page
  L1Entries,    \* 2^l1PageTableBits
  L2Entries,    \* 2^l2PageTableBits
  PageBytes,    \* 2^_l2PageTableShift, the bytes a shadow page stands for
  SlotBytes,    \* 2^_pageOffsetShift, the granularity
  Addresses     \* bound: the addresses the program uses

Positive == Nat \ {0}
ASSUME SizesAssumption == {L1Entries, L2Entries, PageBytes, SlotBytes} \subseteq Positive
ASSUME GranularityAssumption == PageBytes % SlotBytes = 0
ASSUME AddressesAssumption == Addresses \subseteq Nat
ASSUME NamesAssumption ==
  /\ Recyclers \subseteq Threads /\ Shared \notin Threads
  /\ NIL \notin L1Pages \cup ShadowPages /\ L1Pages \cap ShadowPages = {}

L1Indices == 0..L1Entries-1
L2Indices == 0..L2Entries-1
Slots == 0..(PageBytes \div SlotBytes)-1
Memories == Recyclers \cup {Shared}
NoPages == [j \in L2Indices |-> NIL]
NoTable == [i \in L1Indices |-> NIL]

VARIABLES
  table,        \* table[m][i]: m._pageTable[i]
  entries,      \* entries[p][j]: entry j of the first-level page p
  heap,         \* the pages that are allocated
  cachedL1,     \* cachedL1[t]: t's _cachedL1Page
  cachedShadow, \* cachedShadow[t]: t's _cachedShadowPage
  pc,           \* pc[t]: where t is in getShadowMemorySlot
  memory,       \* memory[t]: the memory it was called on, `this`
  address,      \* address[t]: its argument
  upperBound,   \* upperBound[t]: the end of the range that t recycles
  fresh,        \* fresh[t]: the page that t is about to publish
  found,        \* history: the slots of Shared returned so far, by address
  recycled,     \* the slots with the flag eMemoryRecycled
  done          \* history: done[t]: the addresses t last recycled

pages == <<table, entries, heap, cachedL1, cachedShadow>>
call == <<memory, address, upperBound>>
vars == <<pages, pc, call, fresh, found, recycled, done>>

\* Seeded fault: the two indices are taken from the same bits.
L2IndexTooHigh(a) == (a \div (L2Entries * PageBytes)) % L2Entries

\* The mask of the canonical form keeps the bits that the table covers.
L1Index(a) == (a % (L1Entries * L2Entries * PageBytes)) \div (L2Entries * PageBytes)
L2Index(a) == (a \div PageBytes) % L2Entries
PageIndex(a) == (a % PageBytes) \div SlotBytes

L1Page(t) == table[memory[t]][L1Index(address[t])]
ShadowPage(t) == entries[L1Page(t)][L2Index(address[t])]
Slot(t) == <<ShadowPage(t), PageIndex(address[t])>>

Init ==
  /\ table = [m \in Memories |-> NoTable]
  /\ entries = [p \in L1Pages |-> NoPages]
  /\ heap = {}
  /\ cachedL1 = [t \in Threads |-> NIL]
  /\ cachedShadow = [t \in Threads |-> NIL]
  /\ pc = [t \in Threads |-> "idle"]
  /\ memory = [t \in Threads |-> Shared]
  /\ address = [t \in Threads |-> 0]
  /\ upperBound = [t \in Threads |-> 0]
  /\ fresh = [t \in Threads |-> NIL]
  /\ found = {}
  /\ recycled = {}
  /\ done = [t \in Threads |-> {}]

\* calloc returns a page that is not allocated, whichever it is.  It never fails
\* (the program would end): the page sets are large enough.
Calloc(P) == CHOOSE p \in P : p \notin heap

Go(t, from, to) == pc[t] = from /\ pc' = [pc EXCEPT ![t] = to]

\* The arguments go with the call.
Leave(t) ==
  /\ memory' = [memory EXCEPT ![t] = Shared]
  /\ address' = [address EXCEPT ![t] = 0]
  /\ upperBound' = [upperBound EXCEPT ![t] = 0]

-----------------------------------------------------------------------------
(* The callers: checkAccess on the shared memory, recycleMemRange on its own *)

CheckAccess(t) ==
  \E a \in Addresses :
    /\ Go(t, "idle", "testL1")
    /\ memory' = [memory EXCEPT ![t] = Shared]
    /\ address' = [address EXCEPT ![t] = a]
    /\ UNCHANGED <<pages, upperBound, fresh, found, recycled, done>>

RecycleMemRange(t) ==
  /\ t \in Recyclers
  /\ \E lower, upper \in Addresses :
       /\ lower <= upper
       /\ Go(t, "idle", "testL1")
       /\ memory' = [memory EXCEPT ![t] = t]
       /\ address' = [address EXCEPT ![t] = lower]
       /\ upperBound' = [upperBound EXCEPT ![t] = upper]
       /\ done' = [done EXCEPT ![t] = {}]
  /\ UNCHANGED <<pages, fresh, found, recycled>>

\* checkDataRace goes on with the slot, under the slot's own lock.
ReturnToCheckAccess(t) ==
  /\ memory[t] = Shared
  /\ Go(t, "found", "idle")
  /\ found' = found \cup {<<address[t], Slot(t)>>}
  /\ Leave(t)
  /\ UNCHANGED <<pages, fresh, recycled, done>>

MarkRecycled(t) ==
  /\ memory[t] = t
  /\ recycled' = recycled \cup {Slot(t)}
  /\ done' = [done EXCEPT ![t] = @ \cup {address[t]}]

ReturnToRecycle(t) ==
  /\ address[t] < upperBound[t]
  /\ Go(t, "found", "testL1")
  /\ MarkRecycled(t)
  /\ address' = [address EXCEPT ![t] = @ + 1]
  /\ UNCHANGED <<pages, memory, upperBound, fresh, found>>

ReturnToEndOfRecycle(t) ==
  /\ address[t] = upperBound[t]
  /\ Go(t, "found", "destroy")
  /\ MarkRecycled(t)
  /\ UNCHANGED <<pages, call, fresh, found>>

L1PagesOf(m) == {table[m][i] : i \in L1Indices} \ {NIL}
ShadowPagesOf(m) ==
  (UNION {{entries[p][j] : j \in L2Indices} : p \in L1PagesOf(m)}) \ {NIL}

\* Seeded fault: the first-level pages are not freed.
DestroyLeaves(t) ==
  /\ Go(t, "destroy", "idle")
  /\ heap' = heap \ ShadowPagesOf(t)
  /\ recycled' = {s \in recycled : s[1] \notin ShadowPagesOf(t)}
  /\ table' = [table EXCEPT ![t] = NoTable]
  /\ Leave(t)
  /\ UNCHANGED <<entries, cachedL1, cachedShadow, fresh, found, done>>

\* ~ShadowMemory.  The slots on a page go with it.
Destroy(t) ==
  /\ Go(t, "destroy", "idle")
  /\ heap' = heap \ (L1PagesOf(t) \cup ShadowPagesOf(t))
  /\ recycled' = {s \in recycled : s[1] \notin ShadowPagesOf(t)}
  /\ table' = [table EXCEPT ![t] = NoTable]
  /\ Leave(t)
  /\ UNCHANGED <<entries, cachedL1, cachedShadow, fresh, found, done>>

-----------------------------------------------------------------------------
(* getShadowMemorySlot: the first level *)

L1PageIsThere(t) ==
  /\ Go(t, "testL1", "testL2")
  /\ L1Page(t) # NIL
  /\ UNCHANGED <<pages, call, fresh, found, recycled, done>>

\* Seeded fault: the cache keeps the page that it gives away.
GetCachedL1PageTwice(t) ==
  /\ Go(t, "testL1", "casL1")
  /\ L1Page(t) = NIL /\ cachedL1[t] # NIL
  /\ fresh' = [fresh EXCEPT ![t] = cachedL1[t]]
  /\ UNCHANGED <<pages, call, found, recycled, done>>

GetCachedL1Page(t) ==
  /\ Go(t, "testL1", "casL1")
  /\ L1Page(t) = NIL /\ cachedL1[t] # NIL
  /\ fresh' = [fresh EXCEPT ![t] = cachedL1[t]]
  /\ cachedL1' = [cachedL1 EXCEPT ![t] = NIL]
  /\ UNCHANGED <<table, entries, heap, cachedShadow, call, found, recycled, done>>

AllocateL1Page(t) ==
  /\ Go(t, "testL1", "casL1")
  /\ L1Page(t) = NIL /\ cachedL1[t] = NIL
  /\ ~ (L1Pages \subseteq heap)
  /\ LET p == Calloc(L1Pages)
     IN  /\ heap' = heap \cup {p}
         /\ entries' = [entries EXCEPT ![p] = NoPages]
         /\ fresh' = [fresh EXCEPT ![t] = p]
  /\ UNCHANGED <<table, cachedL1, cachedShadow, call, found, recycled, done>>

\* Seeded fault: a store in place of the compare-and-swap.
StoreL1Page(t) ==
  /\ Go(t, "casL1", "testL2")
  /\ table' = [table EXCEPT ![memory[t]][L1Index(address[t])] = fresh[t]]
  /\ fresh' = [fresh EXCEPT ![t] = NIL]
  /\ UNCHANGED <<entries, heap, cachedL1, cachedShadow, call, found, recycled, done>>

PublishL1Page(t) ==
  /\ Go(t, "casL1", "testL2")
  /\ L1Page(t) = NIL
  /\ table' = [table EXCEPT ![memory[t]][L1Index(address[t])] = fresh[t]]
  /\ fresh' = [fresh EXCEPT ![t] = NIL]
  /\ UNCHANGED <<entries, heap, cachedL1, cachedShadow, call, found, recycled, done>>

\* Another thread was first: _saveL1Page.
SaveL1Page(t) ==
  /\ Go(t, "casL1", "testL2")
  /\ L1Page(t) # NIL
  /\ cachedL1' = [cachedL1 EXCEPT ![t] = IF @ = NIL THEN fresh[t] ELSE @]
  /\ fresh' = [fresh EXCEPT ![t] = NIL]
  /\ UNCHANGED <<table, entries, heap, cachedShadow, call, found, recycled, done>>

-----------------------------------------------------------------------------
(* getShadowMemorySlot: the second level *)

ShadowPageIsThere(t) ==
  /\ Go(t, "testL2", "found")
  /\ ShadowPage(t) # NIL
  /\ UNCHANGED <<pages, call, fresh, found, recycled, done>>

GetCachedShadowPage(t) ==
  /\ Go(t, "testL2", "casL2")
  /\ ShadowPage(t) = NIL /\ cachedShadow[t] # NIL
  /\ fresh' = [fresh EXCEPT ![t] = cachedShadow[t]]
  /\ cachedShadow' = [cachedShadow EXCEPT ![t] = NIL]
  /\ UNCHANGED <<table, entries, heap, cachedL1, call, found, recycled, done>>

\* Seeded fault: the cache is not looked at.
AllocateAnyway(t) ==
  /\ Go(t, "testL2", "casL2")
  /\ ShadowPage(t) = NIL
  /\ ~ (ShadowPages \subseteq heap)
  /\ LET p == Calloc(ShadowPages)
     IN  /\ heap' = heap \cup {p}
         /\ fresh' = [fresh EXCEPT ![t] = p]
  /\ UNCHANGED <<table, entries, cachedL1, cachedShadow, call, found, recycled, done>>

AllocateShadowPage(t) ==
  /\ Go(t, "testL2", "casL2")
  /\ ShadowPage(t) = NIL /\ cachedShadow[t] = NIL
  /\ ~ (ShadowPages \subseteq heap)
  /\ LET p == Calloc(ShadowPages)
     IN  /\ heap' = heap \cup {p}
         /\ fresh' = [fresh EXCEPT ![t] = p]
  /\ UNCHANGED <<table, entries, cachedL1, cachedShadow, call, found, recycled, done>>

PublishShadowPage(t) ==
  /\ Go(t, "casL2", "found")
  /\ ShadowPage(t) = NIL
  /\ entries' = [entries EXCEPT ![L1Page(t)][L2Index(address[t])] = fresh[t]]
  /\ fresh' = [fresh EXCEPT ![t] = NIL]
  /\ UNCHANGED <<table, heap, cachedL1, cachedShadow, call, found, recycled, done>>

SaveShadowPage(t) ==
  /\ Go(t, "casL2", "found")
  /\ ShadowPage(t) # NIL
  /\ cachedShadow' = [cachedShadow EXCEPT ![t] = IF @ = NIL THEN fresh[t] ELSE @]
  /\ fresh' = [fresh EXCEPT ![t] = NIL]
  /\ UNCHANGED <<table, entries, heap, cachedL1, call, found, recycled, done>>

-----------------------------------------------------------------------------
Step(t) ==
  \/ CheckAccess(t) \/ RecycleMemRange(t)
  \/ ReturnToCheckAccess(t) \/ ReturnToRecycle(t) \/ ReturnToEndOfRecycle(t) \/ Destroy(t)
  \/ L1PageIsThere(t) \/ GetCachedL1Page(t) \/ AllocateL1Page(t)
  \/ PublishL1Page(t) \/ SaveL1Page(t)
  \/ ShadowPageIsThere(t) \/ GetCachedShadowPage(t) \/ AllocateShadowPage(t)
  \/ PublishShadowPage(t) \/ SaveShadowPage(t)

Next == \E t \in Threads : Step(t)

Spec == Init /\ [][Next]_vars

-----------------------------------------------------------------------------
(* Type invariant: a slot is only used once both of its pages are there,   *)
(* and a thread holds a page to publish exactly when it is about to.       *)
TypeOK ==
  /\ table \in [Memories -> [L1Indices -> L1Pages \cup {NIL}]]
  /\ entries \in [L1Pages -> [L2Indices -> ShadowPages \cup {NIL}]]
  /\ heap \subseteq L1Pages \cup ShadowPages
  /\ cachedL1 \in [Threads -> L1Pages \cup {NIL}]
  /\ cachedShadow \in [Threads -> ShadowPages \cup {NIL}]
  /\ pc \in [Threads -> {"idle", "testL1", "casL1", "testL2", "casL2", "found", "destroy"}]
  /\ memory \in [Threads -> Memories]
  /\ \A t \in Threads : memory[t] \in {Shared, t}
  /\ address \in [Threads -> Nat] /\ upperBound \in [Threads -> Nat]
  /\ \A t \in Threads : pc[t] # "idle" /\ memory[t] = t => address[t] <= upperBound[t]
  /\ fresh \in [Threads -> L1Pages \cup ShadowPages \cup {NIL}]
  /\ \A t \in Threads :
       /\ fresh[t] \in L1Pages <=> pc[t] = "casL1"
       /\ fresh[t] \in ShadowPages <=> pc[t] = "casL2"
       /\ pc[t] \in {"testL2", "casL2", "found"} => L1Page(t) # NIL
       /\ pc[t] = "found" => ShadowPage(t) # NIL
  /\ found \subseteq Addresses \X (ShadowPages \X Slots)
  /\ recycled \subseteq ShadowPages \X Slots
  /\ done \in [Threads -> SUBSET Nat]

(* The address is a byte of the granule: what one access history is about. *)
Granule(a) == (a % (L1Entries * L2Entries * PageBytes)) \div SlotBytes

(* All threads that ever ask for an address, or for another one of its     *)
(* granule, get the same slot, and different granules get different slots: *)
(* no access is looked up in, or recorded with, the wrong history.         *)
OneSlotPerGranule ==
  \A x, y \in found : x[2] = y[2] <=> Granule(x[1]) = Granule(y[1])

\* The places that hold a page: the tables, the caches, the threads' hands.
L1Homes(p) ==
       {"table"} \X {x \in Memories \X L1Indices : table[x[1]][x[2]] = p}
  \cup {"cache"} \X {t \in Threads : cachedL1[t] = p}
  \cup {"fresh"} \X {t \in Threads : fresh[t] = p}

ShadowHomes(p) ==
       {"table"} \X {x \in (L1Pages \cap heap) \X L2Indices : entries[x[1]][x[2]] = p}
  \cup {"cache"} \X {t \in Threads : cachedShadow[t] = p}
  \cup {"fresh"} \X {t \in Threads : fresh[t] = p}

(* A page that is allocated is in exactly one place, and one that is not   *)
(* allocated in none: pages are neither lost, nor shared by two tables or  *)
(* by a table and a cache, nor used after the destructor has freed them.   *)
EachPageHasOneHome ==
  /\ \A p \in L1Pages : Cardinality(L1Homes(p)) = IF p \in heap THEN 1 ELSE 0
  /\ \A p \in ShadowPages : Cardinality(ShadowHomes(p)) = IF p \in heap THEN 1 ELSE 0

\* The pages that t keeps in its caches or is about to publish.
Held(t) == {cachedL1[t], cachedShadow[t], fresh[t]} \ {NIL}
Spare == UNION {Held(t) : t \in Threads}

(* A page from a cache is as blank as one from calloc: it points nowhere,  *)
(* no thread has found a slot on it and none of its slots is flagged.      *)
SparePagesAreBlank ==
  /\ \A p \in Spare \cap L1Pages : entries[p] = NoPages
  /\ \A s \in recycled \cup {x[2] : x \in found} : s[1] \notin Spare

(* A thread that comes to save a page finds its cache empty: the comments  *)
(* of _saveL1Page and the error messages of both functions.                *)
CacheIsEmptyWhenSaving ==
  \A t \in Threads : /\ pc[t] = "casL1" => cachedL1[t] = NIL
                     /\ pc[t] = "casL2" => cachedShadow[t] = NIL

(* The memory that a thread has recycled is marked in the shadow memory    *)
(* that accesses are checked with: the comment of recycleMemRange.         *)
RecycledMemoryIsMarked ==
  \A t \in Recyclers : pc[t] = "idle" =>
    \A x \in found : x[1] \in done[t] => x[2] \in recycled

-----------------------------------------------------------------------------
(* The inductive invariant: every allocated page has one holder, and what  *)
(* hangs on a shared table stays there.                                    *)

\* A call on the shared memory is about an address of the program, and only a
\* thread that recycles memory has one to destroy.
CallsAreKnown ==
  \A t \in Threads :
    /\ pc[t] # "idle" /\ memory[t] = Shared => address[t] \in Addresses
    /\ pc[t] = "destroy" => memory[t] = t

\* No page is in two tables, or twice in one.
TablesAreApart ==
  /\ \A m, n \in Memories, i, j \in L1Indices :
       table[m][i] # NIL /\ table[m][i] = table[n][j] => m = n /\ i = j
  /\ \A p, q \in L1Pages \cap heap, i, j \in L2Indices :
       entries[p][i] # NIL /\ entries[p][i] = entries[q][j] => p = q /\ i = j

\* No two threads hold the same page, nor does one twice.
SparesAreApart ==
  \A t, u \in Threads : \A p \in Held(t) : p \in Held(u) => t = u
HandIsNotCache ==
  \A t \in Threads : fresh[t] # NIL => fresh[t] \notin {cachedL1[t], cachedShadow[t]}

\* A page that a thread holds is in no table.
SparesAreInNoTable ==
  \A t \in Threads : \A p \in Held(t) :
    /\ \A m \in Memories, i \in L1Indices : table[m][i] # p
    /\ \A q \in L1Pages \cap heap, j \in L2Indices : entries[q][j] # p

\* Whatever is in a table or held by a thread is allocated ...
HeldPagesAreAllocated ==
  /\ \A t \in Threads : Held(t) \subseteq heap
  /\ \A m \in Memories, i \in L1Indices : table[m][i] \in heap \cup {NIL}
  /\ \A q \in L1Pages \cap heap, j \in L2Indices : entries[q][j] \in heap \cup {NIL}

\* ... and whatever is allocated is in a table or held by a thread.
AllocatedPagesAreHeld ==
  /\ \A p \in heap \cap L1Pages :
       (\E t \in Threads : p \in Held(t)) \/ \E m \in Memories, i \in L1Indices : table[m][i] = p
  /\ \A p \in heap \cap ShadowPages :
       (\E t \in Threads : p \in Held(t)) \/ \E q \in L1Pages \cap heap, j \in L2Indices : entries[q][j] = p

\* A first-level page that no table has points nowhere.
SparesPointNowhere ==
  \A t \in Threads : \A p \in Held(t) \cap L1Pages : entries[p] = NoPages

(* A slot that was returned for an address of the shared memory is the one *)
(* that every later lookup of the address comes to: publishing pages,      *)
(* saving them and destroying other memories never moves it.               *)
FoundSlotsStay ==
  \A x \in found :
    LET p == table[Shared][L1Index(x[1])]
    IN  p # NIL /\ x[2] = <<entries[p][L2Index(x[1])], PageIndex(x[1])>>

\* A flagged slot is on a page that hangs on some table.
RecycledSlotsArePublished ==
  \A s \in recycled : \E m \in Memories, i \in L1Indices, j \in L2Indices :
    table[m][i] # NIL /\ entries[table[m][i]][j] = s[1]

PagesInvariant ==
  /\ TablesAreApart /\ SparesAreApart /\ HandIsNotCache /\ SparesAreInNoTable
  /\ HeldPagesAreAllocated /\ AllocatedPagesAreHeld
  /\ SparesPointNowhere

IInv ==
  /\ TypeOK /\ CallsAreKnown /\ CacheIsEmptyWhenSaving
  /\ PagesInvariant /\ FoundSlotsStay /\ RecycledSlotsArePublished
=============================================================================
