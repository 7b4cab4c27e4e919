------------------------ MODULE ShadowMemory_proofs ------------------------
(***************************************************************************)
(* Proofs about ShadowMemory for every set of threads, of recyclers and of *)
(* pages, and for every size of table, page and granule: the arithmetic of *)
(* the three indices, then the inductive invariant IInv, action by action, *)
(* then the invariants that the runs check.                                *)
(***************************************************************************)
EXTENDS ShadowMemory, FiniteSetTheorems, TLAPS

-----------------------------------------------------------------------------
(* Arithmetic *)

(* Quotient and remainder. *)
LEMMA DivModDef ==
  ASSUME NEW a \in Int, NEW b \in Positive
  PROVE  /\ a \div b \in Int /\ a % b \in 0..b-1
         /\ a = b * (a \div b) + (a % b)
  BY DEF Positive

(* There is only one way to write a number as quotient and remainder. *)
LEMMA DivModUnique ==
  ASSUME NEW b \in Positive, NEW q \in Int, NEW r \in 0..b-1, NEW a, a = b * q + r
  PROVE  a \div b = q /\ a % b = r
  BY DEF Positive

\* Products of sizes are sizes.
LEMMA ProductPositive ==
  ASSUME NEW a \in Positive, NEW b \in Positive
  PROVE  a * b \in Positive
  BY DEF Positive

GranulesPerPage == PageBytes \div SlotBytes

\* The sizes of the tables and pages as numbers, as the proofs use them.
LEMMA Sizes ==
  /\ L1Entries \in Positive /\ L2Entries \in Positive
  /\ PageBytes \in Positive /\ SlotBytes \in Positive
  /\ GranulesPerPage \in Positive
  /\ PageBytes = SlotBytes * GranulesPerPage
<1>1. /\ L1Entries \in Positive /\ L2Entries \in Positive
      /\ PageBytes \in Positive /\ SlotBytes \in Positive
  BY SizesAssumption
<1>2. PageBytes = SlotBytes * GranulesPerPage
  BY <1>1, DivModDef, GranularityAssumption DEF GranulesPerPage, Positive
<1> QED BY <1>1, <1>2, DivModDef DEF GranulesPerPage, Positive

(* The three indices are in range, and they are the digits of the number   *)
(* of the granule.                                                         *)
LEMMA IndicesAreDigits ==
  ASSUME NEW a \in Nat
  PROVE  /\ L1Index(a) \in L1Indices /\ L2Index(a) \in L2Indices /\ PageIndex(a) \in Slots
         /\ Granule(a) = GranulesPerPage * (L2Entries * L1Index(a) + L2Index(a)) + PageIndex(a)
<1> DEFINE W == L1Entries * L2Entries * PageBytes
           w == a % W
           Q == a \div W
           d == a \div PageBytes
           r == a % PageBytes
           e == d \div L2Entries
           j == d % L2Entries
           s == r \div SlotBytes
           u == r % SlotBytes
           i == e - L1Entries * Q
           low == PageBytes * j + r
<1>1. L2Entries * PageBytes \in Positive
  BY Sizes, ProductPositive
<1>a. W \in Positive
  <2>1. L1Entries * L2Entries \in Positive
    BY Sizes, ProductPositive
  <2> QED BY <2>1, Sizes, ProductPositive
<1>6. /\ L1Index(a) = w \div (L2Entries * PageBytes) /\ Granule(a) = w \div SlotBytes
      /\ L2Index(a) = j /\ PageIndex(a) = s
  BY DEF L1Index, Granule, L2Index, PageIndex
<1> HIDE DEF W, d, r
<1>2. Q \in Int /\ w \in 0..W-1 /\ a = W * Q + w
  BY <1>a, DivModDef DEF Positive
<1>3. d \in Int /\ r \in 0..PageBytes-1 /\ a = PageBytes * d + r
  <2>1. PageBytes \in Positive /\ a \in Int
    BY Sizes
  <2> QED BY <2>1, DivModDef DEF d, r
<1>4. e \in Int /\ j \in 0..L2Entries-1 /\ d = L2Entries * e + j
  BY Sizes, <1>3, DivModDef
<1>5. s \in Int /\ u \in 0..SlotBytes-1 /\ r = SlotBytes * s + u
  BY Sizes, <1>3, DivModDef
<1> USE DEF W
<1> HIDE DEF w, Q, e, j, s, u
<1>7. w = PageBytes * (L2Entries * i + j) + r
  <2>1. w = PageBytes * (L2Entries * e + j) + r - L1Entries * L2Entries * PageBytes * Q
    BY <1>2, <1>3, <1>4, Sizes DEF Positive
  <2> QED BY <2>1, <1>2, <1>3, <1>4, Sizes DEF Positive
<1>8. L1Index(a) = i /\ i \in Int
  <2>1. w = (L2Entries * PageBytes) * i + low
    BY <1>7, <1>2, <1>3, <1>4, Sizes DEF Positive
  <2>2. low \in 0..(L2Entries * PageBytes)-1
    <3>1. PageBytes * j <= PageBytes * (L2Entries - 1) /\ 0 <= PageBytes * j
      BY <1>4, Sizes DEF Positive
    <3> QED BY <3>1, <1>3, <1>4, Sizes DEF Positive
  <2>3. i \in Int
    BY <1>2, <1>4, Sizes DEF Positive
  <2> HIDE DEF i, low
  <2> QED BY <2>1, <2>2, <2>3, <1>1, <1>6, DivModUnique
<1>9. i \in 0..L1Entries-1
  <2>1. i < L1Entries
    BY <1>7, <1>2, <1>3, <1>4, <1>8, Sizes DEF Positive
  <2>2. 0 <= i
    BY <1>7, <1>2, <1>3, <1>4, <1>8, Sizes DEF Positive
  <2> QED BY <2>1, <2>2, <1>8, Sizes DEF Positive
<1>10. s \in 0..GranulesPerPage-1
  BY <1>3, <1>5, Sizes DEF Positive
<1>11. Granule(a) = GranulesPerPage * (L2Entries * i + j) + s
  <2> DEFINE q == GranulesPerPage * (L2Entries * i + j) + s
  <2>1. w = SlotBytes * q + u
    BY <1>7, <1>5, <1>4, <1>8, Sizes DEF Positive
  <2>2. q \in Int
    BY <1>5, <1>4, <1>8, Sizes DEF Positive
  <2> HIDE DEF q
  <2>3. w \div SlotBytes = q
    BY <2>1, <2>2, <1>5, Sizes, DivModUnique
  <2> QED BY <2>3, <1>6 DEF q
<1> QED
  BY <1>4, <1>6, <1>8, <1>9, <1>10, <1>11 DEF L1Indices, L2Indices, Slots, GranulesPerPage

(* Two addresses are in one granule when they have the same indices. *)
LEMMA GranuleIsIndices ==
  ASSUME NEW a \in Nat, NEW b \in Nat
  PROVE  Granule(a) = Granule(b) <=> /\ L1Index(a) = L1Index(b)
                                     /\ L2Index(a) = L2Index(b)
                                     /\ PageIndex(a) = PageIndex(b)
<1> DEFINE g(x) == L2Entries * L1Index(x) + L2Index(x)
<1>1. \A x \in {a, b} : /\ L1Index(x) \in Int /\ L2Index(x) \in 0..L2Entries-1
                        /\ PageIndex(x) \in 0..GranulesPerPage-1
                        /\ g(x) \in Int
                        /\ Granule(x) = GranulesPerPage * g(x) + PageIndex(x)
  BY IndicesAreDigits, Sizes DEF L1Indices, L2Indices, Slots, GranulesPerPage, Positive
<1>2. \A x \in {a, b} : g(x) \div L2Entries = L1Index(x) /\ g(x) % L2Entries = L2Index(x)
  <2> SUFFICES ASSUME NEW x \in {a, b}
               PROVE  g(x) \div L2Entries = L1Index(x) /\ g(x) % L2Entries = L2Index(x)
    OBVIOUS
  <2>1. L1Index(x) \in Int /\ L2Index(x) \in 0..L2Entries-1
    BY <1>1
  <2> QED BY <2>1, Sizes, DivModUnique
<1> HIDE DEF g
<1>3. \A x \in {a, b} : /\ Granule(x) \div GranulesPerPage = g(x)
                        /\ Granule(x) % GranulesPerPage = PageIndex(x)
  <2> SUFFICES ASSUME NEW x \in {a, b}
               PROVE  /\ Granule(x) \div GranulesPerPage = g(x)
                      /\ Granule(x) % GranulesPerPage = PageIndex(x)
    OBVIOUS
  <2>1. /\ g(x) \in Int /\ PageIndex(x) \in 0..GranulesPerPage-1
        /\ Granule(x) = GranulesPerPage * g(x) + PageIndex(x)
    BY <1>1
  <2> QED BY <2>1, Sizes, DivModUnique
<1>4. Granule(a) = Granule(b) => g(a) = g(b) /\ PageIndex(a) = PageIndex(b)
  BY <1>3
<1>5. g(a) = g(b) => L1Index(a) = L1Index(b) /\ L2Index(a) = L2Index(b)
  BY <1>2
<1>6. L1Index(a) = L1Index(b) /\ L2Index(a) = L2Index(b) => g(a) = g(b)
  BY DEF g
<1> QED BY <1>1, <1>4, <1>5, <1>6

-----------------------------------------------------------------------------
(* Types *)

(* The initial state satisfies the invariant. *)
LEMMA InitIInv == Init => IInv
<1> SUFFICES ASSUME Init PROVE IInv
  OBVIOUS
<1>1. TypeOK
  BY NamesAssumption DEF Init, TypeOK, Memories, NoTable, NoPages
<1>2. CallsAreKnown /\ CacheIsEmptyWhenSaving
  BY DEF Init, CallsAreKnown, CacheIsEmptyWhenSaving
<1>3. PagesInvariant
  BY NamesAssumption DEF Init, PagesInvariant, TablesAreApart, SparesAreApart, HandIsNotCache, SparesAreInNoTable, Held,
     HeldPagesAreAllocated, AllocatedPagesAreHeld, SparesPointNowhere, NoTable, NoPages
<1>4. FoundSlotsStay /\ RecycledSlotsArePublished
  BY DEF Init, FoundSlotsStay, RecycledSlotsArePublished
<1> QED BY <1>1, <1>2, <1>3, <1>4 DEF IInv

(* A call looks its address up within the tables. *)
LEMMA IndicesInRange ==
  ASSUME TypeOK, NEW t \in Threads
  PROVE  /\ L1Index(address[t]) \in L1Indices /\ L2Index(address[t]) \in L2Indices
         /\ PageIndex(address[t]) \in Slots
         /\ memory[t] \in Memories
  BY IndicesAreDigits DEF TypeOK

(* Every step keeps the words well typed. *)
LEMMA TypeOKStep ==
  ASSUME TypeOK, CallsAreKnown, HeldPagesAreAllocated, [Next]_vars
  PROVE  TypeOK'
<1> USE NamesAssumption DEF TypeOK, Go, pages, call, L1Page, ShadowPage
<1>1. ASSUME NEW t \in Threads, CheckAccess(t) PROVE TypeOK'
  BY <1>1, AddressesAssumption DEF CheckAccess, Memories
<1>2. ASSUME NEW t \in Threads, RecycleMemRange(t) PROVE TypeOK'
  BY <1>2, AddressesAssumption DEF RecycleMemRange, Memories
<1>3. ASSUME NEW t \in Threads, ReturnToCheckAccess(t) PROVE TypeOK'
  BY <1>3, IndicesAreDigits DEF ReturnToCheckAccess, Leave, Memories, CallsAreKnown, Slot
<1>4. ASSUME NEW t \in Threads, ReturnToRecycle(t) PROVE TypeOK'
  BY <1>4, IndicesAreDigits DEF ReturnToRecycle, MarkRecycled, Slot
<1>5. ASSUME NEW t \in Threads, ReturnToEndOfRecycle(t) PROVE TypeOK'
  BY <1>5, IndicesAreDigits DEF ReturnToEndOfRecycle, MarkRecycled, Slot
<1>6. ASSUME NEW t \in Threads, Destroy(t) PROVE TypeOK'
  BY <1>6 DEF Destroy, Leave, Memories, CallsAreKnown, NoTable
<1>7. ASSUME NEW t \in Threads, L1PageIsThere(t) PROVE TypeOK'
  BY <1>7 DEF L1PageIsThere
<1>8. ASSUME NEW t \in Threads, GetCachedL1Page(t) PROVE TypeOK'
  BY <1>8 DEF GetCachedL1Page
<1>9. ASSUME NEW t \in Threads, AllocateL1Page(t) PROVE TypeOK'
  <2>1. PICK p \in L1Pages : /\ p \notin heap /\ heap' = heap \cup {p}
                             /\ entries' = [entries EXCEPT ![p] = NoPages]
                             /\ fresh' = [fresh EXCEPT ![t] = p]
    BY <1>9 DEF AllocateL1Page, Calloc
  <2>2. entries' \in [L1Pages -> [L2Indices -> ShadowPages \cup {NIL}]]
    BY <2>1 DEF NoPages
  <2>3. /\ UNCHANGED <<table, cachedL1, cachedShadow, memory, address, upperBound>>
        /\ UNCHANGED <<found, recycled, done>>
        /\ pc[t] = "testL1" /\ pc' = [pc EXCEPT ![t] = "casL1"]
    BY <1>9 DEF AllocateL1Page
  <2>4. \A u \in Threads : pc'[u] = "found" => ShadowPage(u)' # NIL
    <3> SUFFICES ASSUME NEW u \in Threads, pc'[u] = "found" PROVE ShadowPage(u)' # NIL
      OBVIOUS
    <3>1. pc[u] = "found" /\ L1Page(u) # NIL /\ ShadowPage(u) # NIL
      BY <2>3
    <3>2. L1Page(u) # p
      BY <2>1, <3>1, IndicesInRange DEF HeldPagesAreAllocated
    <3> QED BY <2>1, <2>3, <3>1, <3>2
  <2> QED BY <2>1, <2>2, <2>3, <2>4
<1>10. ASSUME NEW t \in Threads, PublishL1Page(t) PROVE TypeOK'
  <2>1. /\ pc[t] = "casL1" /\ pc' = [pc EXCEPT ![t] = "testL2"]
        /\ table' = [table EXCEPT ![memory[t]][L1Index(address[t])] = fresh[t]]
        /\ fresh' = [fresh EXCEPT ![t] = NIL]
        /\ UNCHANGED <<entries, heap, cachedL1, cachedShadow, memory, address, upperBound>>
        /\ UNCHANGED <<found, recycled, done>>
        /\ L1Page(t) = NIL /\ fresh[t] \in L1Pages
    BY <1>10 DEF PublishL1Page
  <2>2. table' \in [Memories -> [L1Indices -> L1Pages \cup {NIL}]]
    BY <2>1
  <2>3. L1Page(t)' # NIL
    BY <2>1, IndicesInRange
  <2>4. \A u \in Threads : L1Page(u) # NIL => L1Page(u)' = L1Page(u)
    BY <2>1, IndicesInRange
  <2>5. \A u \in Threads :
          /\ pc'[u] \in {"testL2", "casL2", "found"} => L1Page(u)' # NIL
          /\ pc'[u] = "found" => ShadowPage(u)' # NIL
    BY <2>1, <2>3, <2>4
  <2> QED BY <2>1, <2>2, <2>5, SMTT(30)
<1>11. ASSUME NEW t \in Threads, SaveL1Page(t) PROVE TypeOK'
  BY <1>11 DEF SaveL1Page
<1>12. ASSUME NEW t \in Threads, ShadowPageIsThere(t) PROVE TypeOK'
  BY <1>12 DEF ShadowPageIsThere
<1>13. ASSUME NEW t \in Threads, GetCachedShadowPage(t) PROVE TypeOK'
  BY <1>13 DEF GetCachedShadowPage
<1>14. ASSUME NEW t \in Threads, AllocateShadowPage(t) PROVE TypeOK'
  BY <1>14 DEF AllocateShadowPage, Calloc
<1>15. ASSUME NEW t \in Threads, PublishShadowPage(t) PROVE TypeOK'
  <2>1. /\ pc[t] = "casL2" /\ pc' = [pc EXCEPT ![t] = "found"]
        /\ entries' = [entries EXCEPT ![L1Page(t)][L2Index(address[t])] = fresh[t]]
        /\ fresh' = [fresh EXCEPT ![t] = NIL]
        /\ UNCHANGED <<table, heap, cachedL1, cachedShadow, memory, address, upperBound>>
        /\ UNCHANGED <<found, recycled, done>>
        /\ L1Page(t) \in L1Pages /\ fresh[t] \in ShadowPages
    BY <1>15, IndicesInRange DEF PublishShadowPage
  <2>2. entries' \in [L1Pages -> [L2Indices -> ShadowPages \cup {NIL}]]
    BY <2>1
  <2>3. ShadowPage(t)' # NIL
    BY <2>1, IndicesInRange
  <2>4. \A u \in Threads : L1Page(u) # NIL /\ ShadowPage(u) # NIL => ShadowPage(u)' # NIL
    BY <2>1, IndicesInRange, SMTT(30)
  <2>5. \A u \in Threads :
          /\ pc'[u] \in {"testL2", "casL2", "found"} => L1Page(u)' # NIL
          /\ pc'[u] = "found" => ShadowPage(u)' # NIL
    BY <2>1, <2>3, <2>4
  <2> QED BY <2>1, <2>2, <2>5
<1>16. ASSUME NEW t \in Threads, SaveShadowPage(t) PROVE TypeOK'
  BY <1>16 DEF SaveShadowPage
<1>17. CASE UNCHANGED vars
  BY <1>17 DEF vars
<1> QED
  BY <1>1, <1>2, <1>3, <1>4, <1>5, <1>6, <1>7, <1>8, <1>9, <1>10, <1>11, <1>12, <1>13, <1>14,
     <1>15, <1>16, <1>17 DEF Next, Step

-----------------------------------------------------------------------------
(* Pages *)

(* What the destructor frees. *)
LEMMA PagesOf ==
  ASSUME NEW m
  PROVE  /\ \A p : p \in L1PagesOf(m) <=> p # NIL /\ \E i \in L1Indices : table[m][i] = p
         /\ \A p : p \in ShadowPagesOf(m) <=>
              p # NIL /\ \E q \in L1PagesOf(m), j \in L2Indices : entries[q][j] = p
<1>1. \A p : p \in L1PagesOf(m) <=> p # NIL /\ \E i \in L1Indices : table[m][i] = p
  BY DEF L1PagesOf
<1>2. \A p : p \in ShadowPagesOf(m) <=>
              p # NIL /\ \E q \in L1PagesOf(m), j \in L2Indices : entries[q][j] = p
  <2> SUFFICES ASSUME NEW p
               PROVE  p \in ShadowPagesOf(m) <=>
                        p # NIL /\ \E q \in L1PagesOf(m), j \in L2Indices : entries[q][j] = p
    OBVIOUS
  <2> DEFINE row(q) == {entries[q][j] : j \in L2Indices}
             rows == {row(q) : q \in L1PagesOf(m)}
  <2>1. p \in ShadowPagesOf(m) <=> p # NIL /\ \E S \in rows : p \in S
    BY DEF ShadowPagesOf
  <2>2. (\E S \in rows : p \in S) <=> \E q \in L1PagesOf(m) : p \in row(q)
    <3> HIDE DEF row
    <3> QED OBVIOUS
  <2>3. \A q : p \in row(q) <=> \E j \in L2Indices : entries[q][j] = p
    OBVIOUS
  <2> QED BY <2>1, <2>2, <2>3
<1> QED BY <1>1, <1>2

(* A step that leaves the tables alone and moves no page from one thread   *)
(* to another keeps every page where it is.                                *)
LEMMA PagesStay ==
  ASSUME PagesInvariant, UNCHANGED <<table, entries, heap>>, HandIsNotCache',
         \A u \in Threads : Held(u)' = Held(u)
  PROVE  PagesInvariant'
  BY DEF PagesInvariant, TablesAreApart, SparesAreApart, SparesAreInNoTable,
     HeldPagesAreAllocated, AllocatedPagesAreHeld, SparesPointNowhere

(* Destroying a memory takes its pages, and only these, out of the heap.   *)
LEMMA PagesDestroyed ==
  ASSUME IInv, NEW t \in Threads, Destroy(t)
  PROVE  PagesInvariant'
<1> USE NamesAssumption
<1>a. TypeOK /\ CallsAreKnown /\ PagesInvariant
  BY DEF IInv
<1>1. /\ t \in Memories
      /\ heap' = heap \ (L1PagesOf(t) \cup ShadowPagesOf(t))
      /\ table' = [table EXCEPT ![t] = NoTable]
      /\ UNCHANGED <<entries, cachedL1, cachedShadow, fresh>>
  BY <1>a DEF Destroy, CallsAreKnown, Go, TypeOK
<1>2. /\ \A m \in Memories \ {t} : table'[m] = table[m]
      /\ \A i \in L1Indices : table'[t][i] = NIL
  BY <1>1, <1>a DEF TypeOK, NoTable
<1>3. HandIsNotCache' /\ \A u \in Threads : Held(u)' = Held(u)
  BY <1>1, <1>a DEF PagesInvariant, HandIsNotCache, Held
<1>4. \A p \in L1PagesOf(t) : p \in L1Pages /\ p \in heap
  BY <1>1, <1>a, PagesOf DEF TypeOK, PagesInvariant, HeldPagesAreAllocated
<1>5. \A p \in ShadowPagesOf(t) : p \in ShadowPages /\ p \in heap
  BY <1>1, <1>4, <1>a, PagesOf DEF TypeOK, PagesInvariant, HeldPagesAreAllocated
<1>6. TablesAreApart'
  <2>1. \A m, n \in Memories, i, j \in L1Indices :
          table'[m][i] # NIL /\ table'[m][i] = table'[n][j] => m = n /\ i = j
    BY <1>2, <1>a DEF PagesInvariant, TablesAreApart
  <2> QED BY <2>1, <1>1, <1>a DEF PagesInvariant, TablesAreApart
<1>7. \A u \in Threads : \A p \in Held(u) : p \notin L1PagesOf(t) /\ p \notin ShadowPagesOf(t)
  BY <1>1, <1>4, <1>a, PagesOf DEF PagesInvariant, SparesAreInNoTable
<1>8. SparesAreInNoTable'
  <2> SUFFICES ASSUME NEW u \in Threads, NEW p \in Held(u)
               PROVE  /\ \A m \in Memories, i \in L1Indices : table'[m][i] # p
                      /\ \A q \in L1Pages \cap heap', j \in L2Indices : entries'[q][j] # p
    BY <1>3 DEF SparesAreInNoTable
  <2>1. p # NIL
    BY DEF Held
  <2> QED BY <2>1, <1>1, <1>2, <1>a DEF PagesInvariant, SparesAreInNoTable
<1>9. HeldPagesAreAllocated'
  <2>1. \A u \in Threads : Held(u)' \subseteq heap'
    BY <1>1, <1>3, <1>7, <1>a DEF PagesInvariant, HeldPagesAreAllocated
  <2>2. \A m \in Memories, i \in L1Indices : table'[m][i] \in heap' \cup {NIL}
    <3> SUFFICES ASSUME NEW m \in Memories, NEW i \in L1Indices, table'[m][i] # NIL
                 PROVE  table'[m][i] \in heap'
      OBVIOUS
    <3>1. m # t /\ table'[m][i] = table[m][i]
      BY <1>2
    <3>2. table[m][i] \in heap /\ table[m][i] \in L1Pages
      BY <3>1, <1>a DEF TypeOK, PagesInvariant, HeldPagesAreAllocated
    <3>3. table[m][i] \notin L1PagesOf(t)
      BY <3>1, <1>1, <1>a, PagesOf DEF PagesInvariant, TablesAreApart
    <3> QED BY <3>1, <3>2, <3>3, <1>1, <1>5
  <2>3. \A q \in L1Pages \cap heap', j \in L2Indices : entries'[q][j] \in heap' \cup {NIL}
    <3> SUFFICES ASSUME NEW q \in L1Pages \cap heap', NEW j \in L2Indices, entries'[q][j] # NIL
                 PROVE  entries'[q][j] \in heap'
      OBVIOUS
    <3>1. q \in heap /\ q \notin L1PagesOf(t) /\ entries' = entries
      BY <1>1
    <3>2. entries[q][j] \in heap /\ entries[q][j] \in ShadowPages
      BY <3>1, <1>a DEF TypeOK, PagesInvariant, HeldPagesAreAllocated
    <3>3. entries[q][j] \notin ShadowPagesOf(t)
      BY <3>1, <1>4, <1>a, PagesOf DEF PagesInvariant, TablesAreApart
    <3> QED BY <3>1, <3>2, <3>3, <1>1, <1>4
  <2> QED BY <2>1, <2>2, <2>3 DEF HeldPagesAreAllocated
<1>10. AllocatedPagesAreHeld'
  <2>1. ASSUME NEW p \in heap' \cap L1Pages
        PROVE  \/ \E u \in Threads : p \in Held(u)'
               \/ \E m \in Memories, i \in L1Indices : table'[m][i] = p
    <3>1. p \in heap /\ p \notin L1PagesOf(t) /\ p # NIL
      BY <1>1
    <3>2. CASE \E u \in Threads : p \in Held(u)
      BY <3>2, <1>3
    <3>3. ASSUME NEW m \in Memories, NEW i \in L1Indices, table[m][i] = p
          PROVE  table'[m][i] = p
      BY <3>1, <3>3, <1>2, PagesOf
    <3> QED BY <3>1, <3>2, <3>3, <1>a DEF PagesInvariant, AllocatedPagesAreHeld
  <2>2. ASSUME NEW p \in heap' \cap ShadowPages
        PROVE  \/ \E u \in Threads : p \in Held(u)'
               \/ \E q \in L1Pages \cap heap', j \in L2Indices : entries'[q][j] = p
    <3>1. p \in heap /\ p \notin ShadowPagesOf(t) /\ p # NIL
      BY <1>1
    <3>2. CASE \E u \in Threads : p \in Held(u)
      BY <3>2, <1>3
    <3>3. ASSUME NEW q \in L1Pages \cap heap, NEW j \in L2Indices, entries[q][j] = p
          PROVE  q \in heap' /\ entries'[q][j] = p
      BY <3>1, <3>3, <1>1, <1>5, PagesOf
    <3> QED BY <3>1, <3>2, <3>3, <1>a DEF PagesInvariant, AllocatedPagesAreHeld
  <2> QED BY <2>1, <2>2 DEF AllocatedPagesAreHeld
<1>11. SparesAreApart' /\ SparesPointNowhere'
  BY <1>1, <1>3, <1>a DEF PagesInvariant, SparesAreApart, SparesPointNowhere
<1> QED BY <1>3, <1>6, <1>8, <1>9, <1>10, <1>11 DEF PagesInvariant

(* A page from calloc is in the hand of the thread that asked for it.      *)
LEMMA L1PageAllocated ==
  ASSUME IInv, NEW t \in Threads, AllocateL1Page(t)
  PROVE  PagesInvariant'
<1> USE NamesAssumption
<1>a. TypeOK /\ PagesInvariant
  BY DEF IInv
<1>1. PICK p \in L1Pages : /\ p \notin heap /\ heap' = heap \cup {p}
                           /\ entries' = [entries EXCEPT ![p] = NoPages]
                           /\ fresh' = [fresh EXCEPT ![t] = p]
  BY DEF AllocateL1Page, Calloc
<1>2. fresh[t] = NIL /\ UNCHANGED <<table, cachedL1, cachedShadow>>
  BY <1>a DEF AllocateL1Page, Go, TypeOK
<1>3. /\ Held(t)' = Held(t) \cup {p}
      /\ \A u \in Threads \ {t} : Held(u)' = Held(u)
      /\ \A u \in Threads : p \notin Held(u)
  BY <1>1, <1>2, <1>a DEF TypeOK, Held, PagesInvariant, HeldPagesAreAllocated
<1>4. entries'[p] = NoPages /\ \A q \in L1Pages \ {p} : entries'[q] = entries[q]
  BY <1>1, <1>a DEF TypeOK
<1>5. TablesAreApart'
  BY <1>1, <1>2, <1>4, <1>a DEF PagesInvariant, TablesAreApart, NoPages
<1>6. SparesAreApart'
  BY <1>3, <1>a DEF PagesInvariant, SparesAreApart
<1>7. HandIsNotCache'
  BY <1>1, <1>2, <1>3, <1>a DEF TypeOK, PagesInvariant, HandIsNotCache, Held
<1>8. \A m \in Memories, i \in L1Indices : table[m][i] # p
  BY <1>1, <1>a DEF PagesInvariant, HeldPagesAreAllocated
<1>9. \A q \in L1Pages, j \in L2Indices : entries'[q][j] # p
  BY <1>1, <1>4, <1>a DEF TypeOK, NoPages
<1>10. SparesAreInNoTable'
  <2> SUFFICES ASSUME NEW u \in Threads, NEW x \in Held(u)'
               PROVE  /\ \A m \in Memories, i \in L1Indices : table'[m][i] # x
                      /\ \A q \in L1Pages \cap heap', j \in L2Indices : entries'[q][j] # x
    BY DEF SparesAreInNoTable
  <2>1. x = p \/ x \in Held(u)
    BY <1>3
  <2>2. x # NIL
    BY DEF Held
  <2> QED BY <2>1, <2>2, <1>1, <1>2, <1>4, <1>8, <1>9, <1>a
          DEF PagesInvariant, SparesAreInNoTable, NoPages
<1>11. HeldPagesAreAllocated'
  BY <1>1, <1>2, <1>3, <1>4, <1>a DEF PagesInvariant, HeldPagesAreAllocated, NoPages
<1>12. AllocatedPagesAreHeld'
  <2>1. ASSUME NEW x \in heap' \cap L1Pages
        PROVE  \/ \E u \in Threads : x \in Held(u)'
               \/ \E m \in Memories, i \in L1Indices : table'[m][i] = x
    BY <1>1, <1>2, <1>3, <1>a DEF PagesInvariant, AllocatedPagesAreHeld
  <2>2. ASSUME NEW x \in heap' \cap ShadowPages
        PROVE  \/ \E u \in Threads : x \in Held(u)'
               \/ \E q \in L1Pages \cap heap', j \in L2Indices : entries'[q][j] = x
    <3>1. x \in heap
      BY <1>1
    <3>2. CASE \E u \in Threads : x \in Held(u)
      BY <3>2, <1>3
    <3>3. ASSUME NEW q \in L1Pages \cap heap, NEW j \in L2Indices, entries[q][j] = x
          PROVE  q \in heap' /\ entries'[q][j] = x
      BY <3>3, <1>1, <1>4
    <3> QED BY <3>1, <3>2, <3>3, <1>a DEF PagesInvariant, AllocatedPagesAreHeld
  <2> QED BY <2>1, <2>2 DEF AllocatedPagesAreHeld
<1>13. SparesPointNowhere'
  BY <1>3, <1>4, <1>a DEF PagesInvariant, SparesPointNowhere
<1> QED BY <1>5, <1>6, <1>7, <1>10, <1>11, <1>12, <1>13 DEF PagesInvariant

\* allocateShadowPage takes a free page into the hand of its caller.
LEMMA ShadowPageAllocated ==
  ASSUME IInv, NEW t \in Threads, AllocateShadowPage(t)
  PROVE  PagesInvariant'
<1> USE NamesAssumption
<1>a. TypeOK /\ PagesInvariant
  BY DEF IInv
<1>1. PICK p \in ShadowPages : /\ p \notin heap /\ heap' = heap \cup {p}
                               /\ fresh' = [fresh EXCEPT ![t] = p]
  BY DEF AllocateShadowPage, Calloc
<1>2. fresh[t] = NIL /\ UNCHANGED <<table, entries, cachedL1, cachedShadow>>
  BY <1>a DEF AllocateShadowPage, Go, TypeOK
<1>3. /\ Held(t)' = Held(t) \cup {p}
      /\ \A u \in Threads \ {t} : Held(u)' = Held(u)
      /\ \A u \in Threads : p \notin Held(u)
  BY <1>1, <1>2, <1>a DEF TypeOK, Held, PagesInvariant, HeldPagesAreAllocated
<1>4. L1Pages \cap heap' = L1Pages \cap heap /\ p \notin L1Pages
  BY <1>1
<1>5. TablesAreApart'
  BY <1>2, <1>4, <1>a DEF PagesInvariant, TablesAreApart
<1>6. SparesAreApart'
  BY <1>3, <1>a DEF PagesInvariant, SparesAreApart
<1>7. HandIsNotCache'
  BY <1>1, <1>2, <1>3, <1>a DEF TypeOK, PagesInvariant, HandIsNotCache, Held
<1>8. SparesAreInNoTable'
  <2> SUFFICES ASSUME NEW u \in Threads, NEW x \in Held(u)'
               PROVE  /\ \A m \in Memories, i \in L1Indices : table'[m][i] # x
                      /\ \A q \in L1Pages \cap heap', j \in L2Indices : entries'[q][j] # x
    BY DEF SparesAreInNoTable
  <2>1. x = p \/ x \in Held(u)
    BY <1>3
  <2>2. CASE x = p
    BY <2>2, <1>1, <1>2, <1>4, <1>a DEF PagesInvariant, HeldPagesAreAllocated
  <2>3. CASE x \in Held(u)
    BY <2>3, <1>2, <1>4, <1>a DEF PagesInvariant, SparesAreInNoTable
  <2> QED BY <2>1, <2>2, <2>3
<1>9. HeldPagesAreAllocated'
  BY <1>1, <1>2, <1>3, <1>4, <1>a DEF PagesInvariant, HeldPagesAreAllocated
<1>10. AllocatedPagesAreHeld'
  BY <1>1, <1>2, <1>3, <1>4, <1>a DEF PagesInvariant, AllocatedPagesAreHeld
<1>11. SparesPointNowhere'
  BY <1>2, <1>3, <1>4, <1>a DEF PagesInvariant, SparesPointNowhere
<1> QED BY <1>5, <1>6, <1>7, <1>8, <1>9, <1>10, <1>11 DEF PagesInvariant

(* The compare-and-swap moves the page from the hand to the empty entry.   *)
LEMMA L1PagePublished ==
  ASSUME IInv, NEW t \in Threads, PublishL1Page(t)
  PROVE  PagesInvariant'
<1> USE NamesAssumption
<1>a. TypeOK /\ PagesInvariant
  BY DEF IInv
<1> DEFINE p == fresh[t]
           k == memory[t]
           l == L1Index(address[t])
<1>1. /\ p \in L1Pages /\ table[k][l] = NIL
      /\ table' = [table EXCEPT ![k][l] = p]
      /\ fresh' = [fresh EXCEPT ![t] = NIL]
      /\ UNCHANGED <<entries, heap, cachedL1, cachedShadow>>
  BY <1>a DEF PublishL1Page, Go, TypeOK, L1Page
<1>2. k \in Memories /\ l \in L1Indices
  BY <1>a, IndicesInRange
<1>3. /\ Held(t)' = Held(t) \ {p}
      /\ \A u \in Threads \ {t} : Held(u)' = Held(u)
      /\ p \in Held(t)
  BY <1>1, <1>a DEF TypeOK, Held, PagesInvariant, HandIsNotCache
<1>c. HandIsNotCache'
  BY <1>1, <1>a DEF TypeOK, PagesInvariant, HandIsNotCache
<1> HIDE DEF p, k, l
<1>4. /\ table'[k][l] = p
      /\ \A m \in Memories, i \in L1Indices : m # k \/ i # l => table'[m][i] = table[m][i]
      /\ \A m \in Memories, i \in L1Indices : table[m][i] # p
  BY <1>1, <1>2, <1>3, <1>a DEF TypeOK, PagesInvariant, SparesAreInNoTable
<1>5. TablesAreApart'
  <2>1. \A m, n \in Memories, i, j \in L1Indices :
          table'[m][i] # NIL /\ table'[m][i] = table'[n][j] => m = n /\ i = j
    BY <1>4, <1>a DEF PagesInvariant, TablesAreApart
  <2> QED BY <2>1, <1>1, <1>a DEF PagesInvariant, TablesAreApart
<1>6. SparesAreApart'
  BY <1>1, <1>3, <1>a DEF PagesInvariant, SparesAreApart
<1>7. SparesAreInNoTable'
  <2>1. \A u \in Threads : \A x \in Held(u)' : x \in Held(u) /\ x # p
    BY <1>3, <1>a DEF PagesInvariant, SparesAreApart
  <2> QED BY <2>1, <1>1, <1>4, <1>a DEF PagesInvariant, SparesAreInNoTable
<1>8. HeldPagesAreAllocated'
  BY <1>1, <1>3, <1>4, <1>a DEF PagesInvariant, HeldPagesAreAllocated
<1>9. AllocatedPagesAreHeld'
  <2>1. ASSUME NEW x \in heap' \cap L1Pages
        PROVE  \/ \E u \in Threads : x \in Held(u)'
               \/ \E m \in Memories, i \in L1Indices : table'[m][i] = x
    <3>1. CASE x = p
      BY <3>1, <1>2, <1>4
    <3>2. CASE x # p
      <4>1. ASSUME NEW m \in Memories, NEW i \in L1Indices, table[m][i] = x
            PROVE  table'[m][i] = x
        BY <4>1, <1>1, <1>4
      <4> QED BY <4>1, <3>2, <1>1, <1>3, <1>a DEF PagesInvariant, AllocatedPagesAreHeld
    <3> QED BY <3>1, <3>2
  <2>2. ASSUME NEW x \in heap' \cap ShadowPages
        PROVE  \/ \E u \in Threads : x \in Held(u)'
               \/ \E q \in L1Pages \cap heap', j \in L2Indices : entries'[q][j] = x
    BY <1>1, <1>3, <1>a DEF PagesInvariant, AllocatedPagesAreHeld
  <2> QED BY <2>1, <2>2 DEF AllocatedPagesAreHeld
<1>10. SparesPointNowhere'
  BY <1>1, <1>3, <1>a DEF PagesInvariant, SparesPointNowhere
<1> QED BY <1>c, <1>5, <1>6, <1>7, <1>8, <1>9, <1>10 DEF PagesInvariant

\* A compare-and-swap that succeeds moves a shadow page from a hand to the table.
LEMMA ShadowPagePublished ==
  ASSUME IInv, NEW t \in Threads, PublishShadowPage(t)
  PROVE  PagesInvariant'
<1> USE NamesAssumption
<1>a. TypeOK /\ PagesInvariant
  BY DEF IInv
<1> DEFINE p == fresh[t]
           k == L1Page(t)
           l == L2Index(address[t])
<1>0. /\ pc[t] = "casL2"
      /\ entries' = [entries EXCEPT ![k][l] = p]
      /\ fresh' = [fresh EXCEPT ![t] = NIL]
      /\ UNCHANGED <<table, heap, cachedL1, cachedShadow>>
      /\ ShadowPage(t) = NIL
  BY DEF PublishShadowPage, Go
<1>1. p \in ShadowPages /\ entries[k][l] = NIL
  BY <1>0, <1>a DEF TypeOK, ShadowPage
<1>2. k \in L1Pages \cap heap /\ l \in L2Indices
  <2>1. k # NIL
    BY <1>0, <1>a DEF TypeOK
  <2> QED BY <2>1, <1>a, IndicesInRange DEF TypeOK, L1Page, PagesInvariant, HeldPagesAreAllocated
<1>3. /\ Held(t)' = Held(t) \ {p}
      /\ \A u \in Threads \ {t} : Held(u)' = Held(u)
      /\ p \in Held(t)
  BY <1>0, <1>1, <1>a DEF TypeOK, Held, PagesInvariant, HandIsNotCache
<1>b. \A u \in Threads : k \notin Held(u)
  BY <1>2, <1>a, IndicesInRange DEF PagesInvariant, SparesAreInNoTable, L1Page
<1>c. HandIsNotCache'
  BY <1>0, <1>1, <1>a DEF TypeOK, PagesInvariant, HandIsNotCache
<1> HIDE DEF p, k, l
<1>4. /\ entries'[k][l] = p
      /\ \A q \in L1Pages, j \in L2Indices : q # k \/ j # l => entries'[q][j] = entries[q][j]
      /\ \A q \in L1Pages \cap heap, j \in L2Indices : entries[q][j] # p
      /\ \A q \in L1Pages \ {k} : entries'[q] = entries[q]
  BY <1>0, <1>1, <1>2, <1>3, <1>a DEF TypeOK, PagesInvariant, SparesAreInNoTable
<1>5. TablesAreApart'
  <2>1. \A q, r \in L1Pages \cap heap, i, j \in L2Indices :
          entries'[q][i] # NIL /\ entries'[q][i] = entries'[r][j] => q = r /\ i = j
    BY <1>4, <1>a DEF PagesInvariant, TablesAreApart
  <2> QED BY <2>1, <1>0, <1>a DEF PagesInvariant, TablesAreApart
<1>6. SparesAreApart'
  BY <1>0, <1>1, <1>3, <1>a DEF PagesInvariant, SparesAreApart
<1>7. SparesAreInNoTable'
  <2>1. \A u \in Threads : \A x \in Held(u)' : x \in Held(u) /\ x # p
    BY <1>3, <1>a DEF PagesInvariant, SparesAreApart
  <2> QED BY <2>1, <1>0, <1>4, <1>a DEF PagesInvariant, SparesAreInNoTable
<1>8. HeldPagesAreAllocated'
  BY <1>0, <1>1, <1>3, <1>4, <1>a DEF PagesInvariant, HeldPagesAreAllocated
<1>9. AllocatedPagesAreHeld'
  <2>1. ASSUME NEW x \in heap' \cap L1Pages
        PROVE  \/ \E u \in Threads : x \in Held(u)'
               \/ \E m \in Memories, i \in L1Indices : table'[m][i] = x
    BY <1>0, <1>1, <1>3, <1>a DEF PagesInvariant, AllocatedPagesAreHeld
  <2>2. ASSUME NEW x \in heap' \cap ShadowPages
        PROVE  \/ \E u \in Threads : x \in Held(u)'
               \/ \E q \in L1Pages \cap heap', j \in L2Indices : entries'[q][j] = x
    <3>1. CASE x = p
      BY <3>1, <1>0, <1>2, <1>4
    <3>2. CASE x # p
      <4>1. ASSUME NEW q \in L1Pages \cap heap, NEW j \in L2Indices, entries[q][j] = x
            PROVE  entries'[q][j] = x
        BY <4>1, <1>1, <1>4
      <4> QED BY <4>1, <3>2, <1>0, <1>3, <1>a DEF PagesInvariant, AllocatedPagesAreHeld
    <3> QED BY <3>1, <3>2
  <2> QED BY <2>1, <2>2 DEF AllocatedPagesAreHeld
<1>10. SparesPointNowhere'
  BY <1>3, <1>b, <1>4, <1>a DEF PagesInvariant, SparesPointNowhere
<1> QED BY <1>c, <1>5, <1>6, <1>7, <1>8, <1>9, <1>10 DEF PagesInvariant

(* Every step keeps each page in one place. *)
LEMMA PagesStep ==
  ASSUME IInv, [Next]_vars
  PROVE  PagesInvariant'
<1> USE NamesAssumption
<1>a. TypeOK /\ CacheIsEmptyWhenSaving /\ PagesInvariant
  BY DEF IInv
<1>1. ASSUME UNCHANGED <<table, entries, heap, cachedL1, cachedShadow, fresh>>
      PROVE  PagesInvariant'
  BY <1>1, <1>a, PagesStay DEF PagesInvariant, HandIsNotCache, Held
<1>2. ASSUME NEW t \in Threads,
             \/ CheckAccess(t) \/ RecycleMemRange(t) \/ ReturnToCheckAccess(t)
             \/ ReturnToRecycle(t) \/ ReturnToEndOfRecycle(t)
             \/ L1PageIsThere(t) \/ ShadowPageIsThere(t)
      PROVE  PagesInvariant'
  BY <1>1, <1>2 DEF CheckAccess, RecycleMemRange, ReturnToCheckAccess, ReturnToRecycle,
     ReturnToEndOfRecycle, L1PageIsThere, ShadowPageIsThere, pages
<1>3. CASE UNCHANGED vars
  BY <1>1, <1>3 DEF vars, pages
<1>4. ASSUME NEW t \in Threads, GetCachedL1Page(t) PROVE PagesInvariant'
  <2>1. /\ fresh[t] = NIL
        /\ fresh' = [fresh EXCEPT ![t] = cachedL1[t]]
        /\ cachedL1' = [cachedL1 EXCEPT ![t] = NIL]
        /\ UNCHANGED <<table, entries, heap, cachedShadow>>
    BY <1>4, <1>a DEF GetCachedL1Page, Go, TypeOK
  <2>2. HandIsNotCache' /\ \A u \in Threads : Held(u)' = Held(u)
    BY <2>1, <1>a DEF TypeOK, PagesInvariant, HandIsNotCache, Held
  <2> QED BY <2>1, <2>2, <1>a, PagesStay
<1>5. ASSUME NEW t \in Threads, SaveL1Page(t) PROVE PagesInvariant'
  <2>1. /\ fresh[t] \in L1Pages /\ cachedL1[t] = NIL
        /\ cachedL1' = [cachedL1 EXCEPT ![t] = fresh[t]]
        /\ fresh' = [fresh EXCEPT ![t] = NIL]
        /\ UNCHANGED <<table, entries, heap, cachedShadow>>
    BY <1>5, <1>a DEF SaveL1Page, Go, TypeOK, CacheIsEmptyWhenSaving
  <2>2. HandIsNotCache' /\ \A u \in Threads : Held(u)' = Held(u)
    BY <2>1, <1>a DEF TypeOK, PagesInvariant, HandIsNotCache, Held
  <2> QED BY <2>1, <2>2, <1>a, PagesStay
<1>6. ASSUME NEW t \in Threads, GetCachedShadowPage(t) PROVE PagesInvariant'
  <2>1. /\ fresh[t] = NIL
        /\ fresh' = [fresh EXCEPT ![t] = cachedShadow[t]]
        /\ cachedShadow' = [cachedShadow EXCEPT ![t] = NIL]
        /\ UNCHANGED <<table, entries, heap, cachedL1>>
    BY <1>6, <1>a DEF GetCachedShadowPage, Go, TypeOK
  <2>2. HandIsNotCache' /\ \A u \in Threads : Held(u)' = Held(u)
    BY <2>1, <1>a DEF TypeOK, PagesInvariant, HandIsNotCache, Held
  <2> QED BY <2>1, <2>2, <1>a, PagesStay
<1>7. ASSUME NEW t \in Threads, SaveShadowPage(t) PROVE PagesInvariant'
  <2>1. /\ fresh[t] \in ShadowPages /\ cachedShadow[t] = NIL
        /\ cachedShadow' = [cachedShadow EXCEPT ![t] = fresh[t]]
        /\ fresh' = [fresh EXCEPT ![t] = NIL]
        /\ UNCHANGED <<table, entries, heap, cachedL1>>
    BY <1>7, <1>a DEF SaveShadowPage, Go, TypeOK, CacheIsEmptyWhenSaving
  <2>2. HandIsNotCache' /\ \A u \in Threads : Held(u)' = Held(u)
    BY <2>1, <1>a DEF TypeOK, PagesInvariant, HandIsNotCache, Held
  <2> QED BY <2>1, <2>2, <1>a, PagesStay
<1> QED
  BY <1>2, <1>3, <1>4, <1>5, <1>6, <1>7, PagesDestroyed, L1PageAllocated, ShadowPageAllocated,
     L1PagePublished, ShadowPagePublished DEF Next, Step

-----------------------------------------------------------------------------
(* Slots *)

(* A page that hangs on a table stays there until its memory is destroyed: *)
(* no step of another thread takes it away or puts another in its place.   *)
LEMMA TablesOnlyGrow ==
  ASSUME IInv, [Next]_vars, NEW m \in Memories, m \in Threads => ~ Destroy(m),
         NEW i \in L1Indices, table[m][i] # NIL
  PROVE  /\ table'[m][i] = table[m][i]
         /\ \A j \in L2Indices : entries[table[m][i]][j] # NIL =>
              entries'[table[m][i]][j] = entries[table[m][i]][j]
<1> USE NamesAssumption
<1>a. TypeOK /\ CallsAreKnown /\ PagesInvariant
  BY DEF IInv
<1> DEFINE q == table[m][i]
<1>b. q \in L1Pages /\ q \in heap
  BY <1>a DEF TypeOK, PagesInvariant, HeldPagesAreAllocated
<1> HIDE DEF q
<1>1. ASSUME UNCHANGED <<table, entries>>
      PROVE  table'[m][i] = table[m][i] /\ entries' = entries
  BY <1>1
<1>2. ASSUME NEW t \in Threads,
             \/ CheckAccess(t) \/ RecycleMemRange(t) \/ ReturnToCheckAccess(t)
             \/ ReturnToRecycle(t) \/ ReturnToEndOfRecycle(t)
             \/ L1PageIsThere(t) \/ GetCachedL1Page(t) \/ SaveL1Page(t)
             \/ ShadowPageIsThere(t) \/ GetCachedShadowPage(t) \/ AllocateShadowPage(t)
             \/ SaveShadowPage(t)
      PROVE  UNCHANGED <<table, entries>>
  BY <1>2 DEF CheckAccess, RecycleMemRange, ReturnToCheckAccess, ReturnToRecycle,
     ReturnToEndOfRecycle, L1PageIsThere, GetCachedL1Page, SaveL1Page,
     ShadowPageIsThere, GetCachedShadowPage, AllocateShadowPage, SaveShadowPage, pages
<1>3. CASE UNCHANGED vars
  BY <1>1, <1>3 DEF vars, pages
<1>4. ASSUME NEW t \in Threads, Destroy(t)
      PROVE  table'[m][i] = table[m][i] /\ entries' = entries
  BY <1>4, <1>a DEF Destroy, TypeOK
<1>5. ASSUME NEW t \in Threads, AllocateL1Page(t)
      PROVE  table'[m][i] = table[m][i] /\ entries'[q] = entries[q]
  BY <1>5, <1>a, <1>b DEF AllocateL1Page, Calloc, TypeOK
<1>6. ASSUME NEW t \in Threads, PublishL1Page(t)
      PROVE  table'[m][i] = table[m][i] /\ entries' = entries
  BY <1>6, <1>a, IndicesInRange DEF PublishL1Page, TypeOK, L1Page
<1>7. ASSUME NEW t \in Threads, PublishShadowPage(t)
      PROVE  /\ table'[m][i] = table[m][i]
             /\ \A j \in L2Indices : entries[q][j] # NIL => entries'[q][j] = entries[q][j]
  BY <1>7, <1>a, <1>b, IndicesInRange DEF PublishShadowPage, TypeOK, ShadowPage
<1> QED
  BY <1>1, <1>2, <1>3, <1>4, <1>5, <1>6, <1>7 DEF Next, Step, q

(* ... so a slot that was found for an address stays the slot of it.       *)
LEMMA FoundSlotsStayStep ==
  ASSUME IInv, [Next]_vars
  PROVE  FoundSlotsStay'
<1> USE NamesAssumption
<1>a. TypeOK /\ CallsAreKnown /\ FoundSlotsStay
  BY DEF IInv
<1>b. Shared \in Memories /\ Shared \notin Threads
  BY DEF Memories
<1> SUFFICES ASSUME NEW x \in found'
             PROVE  /\ table'[Shared][L1Index(x[1])] # NIL
                    /\ x[2] = <<entries'[table'[Shared][L1Index(x[1])]][L2Index(x[1])],
                                PageIndex(x[1])>>
  BY DEF FoundSlotsStay
<1>1. ASSUME x \in found
      PROVE  /\ table'[Shared][L1Index(x[1])] # NIL
             /\ x[2] = <<entries'[table'[Shared][L1Index(x[1])]][L2Index(x[1])],
                         PageIndex(x[1])>>
  <2>1. x[1] \in Nat /\ x[2] \in ShadowPages \X Slots
    BY <1>1, <1>a, AddressesAssumption DEF TypeOK
  <2>2. L1Index(x[1]) \in L1Indices /\ L2Index(x[1]) \in L2Indices
    BY <2>1, IndicesAreDigits
  <2>3. /\ table[Shared][L1Index(x[1])] # NIL
        /\ x[2] = <<entries[table[Shared][L1Index(x[1])]][L2Index(x[1])], PageIndex(x[1])>>
    BY <1>1, <1>a DEF FoundSlotsStay
  <2>4. entries[table[Shared][L1Index(x[1])]][L2Index(x[1])] # NIL
    BY <2>1, <2>3
  <2> QED BY <2>2, <2>3, <2>4, <1>b, TablesOnlyGrow
<1>2. ASSUME NEW t \in Threads, ReturnToCheckAccess(t), x \notin found
      PROVE  /\ table'[Shared][L1Index(x[1])] # NIL
             /\ x[2] = <<entries'[table'[Shared][L1Index(x[1])]][L2Index(x[1])],
                         PageIndex(x[1])>>
  <2>1. /\ x = <<address[t], Slot(t)>> /\ memory[t] = Shared /\ pc[t] = "found"
        /\ UNCHANGED <<table, entries>>
    BY <1>2 DEF ReturnToCheckAccess, Go, pages
  <2>2. L1Page(t) # NIL
    BY <2>1, <1>a DEF TypeOK
  <2> QED BY <2>1, <2>2 DEF Slot, ShadowPage, L1Page
<1>3. x \in found \/ \E t \in Threads : ReturnToCheckAccess(t)
  BY DEF Next, Step, vars, CheckAccess, RecycleMemRange, ReturnToRecycle,
     ReturnToEndOfRecycle, Destroy, L1PageIsThere, GetCachedL1Page, AllocateL1Page,
     PublishL1Page, SaveL1Page, ShadowPageIsThere, GetCachedShadowPage,
     AllocateShadowPage, PublishShadowPage, SaveShadowPage
<1> QED BY <1>1, <1>2, <1>3

(* A flagged slot stays on its table, or goes with it.                     *)
LEMMA RecycledSlotsStep ==
  ASSUME IInv, [Next]_vars
  PROVE  RecycledSlotsArePublished'
<1> USE NamesAssumption
<1>a. TypeOK /\ RecycledSlotsArePublished
  BY DEF IInv
<1> SUFFICES ASSUME NEW s \in recycled'
             PROVE  \E m \in Memories, i \in L1Indices, j \in L2Indices :
                      table'[m][i] # NIL /\ entries'[table'[m][i]][j] = s[1]
  BY DEF RecycledSlotsArePublished
<1>1. CASE s \in recycled
  <2>1. PICK m \in Memories, i \in L1Indices, j \in L2Indices :
               table[m][i] # NIL /\ entries[table[m][i]][j] = s[1]
    BY <1>1, <1>a DEF RecycledSlotsArePublished
  <2>2. s[1] # NIL
    BY <1>1, <1>a DEF TypeOK
  <2>3. ~ Destroy(m)
    <3> SUFFICES ASSUME Destroy(m) PROVE FALSE
      OBVIOUS
    <3>1. s[1] \in ShadowPagesOf(m)
      BY <2>1, <2>2, PagesOf
    <3> QED BY <3>1 DEF Destroy
  <2> QED BY <2>1, <2>2, <2>3, TablesOnlyGrow
<1>2. CASE s \notin recycled
  <2>1. PICK t \in Threads : ReturnToRecycle(t) \/ ReturnToEndOfRecycle(t)
    BY <1>2 DEF Next, Step, vars, CheckAccess, RecycleMemRange, ReturnToCheckAccess,
       Destroy, L1PageIsThere, GetCachedL1Page, AllocateL1Page,
       PublishL1Page, SaveL1Page, ShadowPageIsThere, GetCachedShadowPage,
       AllocateShadowPage, PublishShadowPage, SaveShadowPage
  <2>2. s = Slot(t) /\ pc[t] = "found" /\ UNCHANGED <<table, entries>>
    BY <2>1, <1>2 DEF ReturnToRecycle, ReturnToEndOfRecycle, MarkRecycled, Go, pages
  <2>3. L1Page(t) # NIL
    BY <2>2, <1>a DEF TypeOK
  <2> QED BY <2>2, <2>3, <1>a, IndicesInRange DEF Slot, ShadowPage, L1Page
<1> QED BY <1>1, <1>2

-----------------------------------------------------------------------------
(* The invariant *)

\* A call keeps to its memory: only the owner of an instance looks into it.
LEMMA CallsStep ==
  ASSUME TypeOK, CallsAreKnown, [Next]_vars
  PROVE  CallsAreKnown'
<1> USE NamesAssumption DEF CallsAreKnown, TypeOK, Go, call
<1>1. ASSUME NEW t \in Threads,
             \/ CheckAccess(t) \/ RecycleMemRange(t) \/ ReturnToCheckAccess(t)
             \/ ReturnToRecycle(t) \/ ReturnToEndOfRecycle(t) \/ Destroy(t)
      PROVE  CallsAreKnown'
  BY <1>1 DEF CheckAccess, RecycleMemRange, ReturnToCheckAccess, ReturnToRecycle,
     ReturnToEndOfRecycle, MarkRecycled, Destroy, Leave
<1>2. ASSUME NEW t \in Threads,
             \/ L1PageIsThere(t) \/ GetCachedL1Page(t) \/ AllocateL1Page(t)
             \/ PublishL1Page(t) \/ SaveL1Page(t)
             \/ ShadowPageIsThere(t) \/ GetCachedShadowPage(t) \/ AllocateShadowPage(t)
             \/ PublishShadowPage(t) \/ SaveShadowPage(t)
      PROVE  CallsAreKnown'
  BY <1>2 DEF L1PageIsThere, GetCachedL1Page, AllocateL1Page, PublishL1Page, SaveL1Page,
     ShadowPageIsThere, GetCachedShadowPage, AllocateShadowPage, PublishShadowPage, SaveShadowPage
<1>3. CASE UNCHANGED vars
  BY <1>3 DEF vars
<1> QED BY <1>1, <1>2, <1>3 DEF Next, Step

\* A thread allocates only when its cache is empty, and then saves into it.
LEMMA CacheStep ==
  ASSUME TypeOK, CacheIsEmptyWhenSaving, [Next]_vars
  PROVE  CacheIsEmptyWhenSaving'
<1> USE NamesAssumption DEF CacheIsEmptyWhenSaving, TypeOK, Go, pages
<1>1. ASSUME NEW t \in Threads,
             \/ CheckAccess(t) \/ RecycleMemRange(t) \/ ReturnToCheckAccess(t)
             \/ ReturnToRecycle(t) \/ ReturnToEndOfRecycle(t) \/ Destroy(t)
      PROVE  CacheIsEmptyWhenSaving'
  BY <1>1 DEF CheckAccess, RecycleMemRange, ReturnToCheckAccess, ReturnToRecycle,
     ReturnToEndOfRecycle, MarkRecycled, Destroy, Leave
<1>2. ASSUME NEW t \in Threads,
             \/ L1PageIsThere(t) \/ GetCachedL1Page(t) \/ AllocateL1Page(t)
             \/ PublishL1Page(t) \/ SaveL1Page(t)
      PROVE  CacheIsEmptyWhenSaving'
  BY <1>2 DEF L1PageIsThere, GetCachedL1Page, AllocateL1Page, PublishL1Page, SaveL1Page
<1>3. ASSUME NEW t \in Threads,
             \/ ShadowPageIsThere(t) \/ GetCachedShadowPage(t) \/ AllocateShadowPage(t)
             \/ PublishShadowPage(t) \/ SaveShadowPage(t)
      PROVE  CacheIsEmptyWhenSaving'
  BY <1>3 DEF ShadowPageIsThere, GetCachedShadowPage, AllocateShadowPage,
     PublishShadowPage, SaveShadowPage
<1>4. CASE UNCHANGED vars
  BY <1>4 DEF vars
<1> QED BY <1>1, <1>2, <1>3, <1>4 DEF Next, Step

(* IInv is an invariant of the shadow memory.                              *)
THEOREM Invariance == Spec => []IInv
<1>1. IInv /\ [Next]_vars => IInv'
  BY TypeOKStep, CallsStep, CacheStep, PagesStep, FoundSlotsStayStep, RecycledSlotsStep
     DEF IInv, PagesInvariant
<1> QED BY <1>1, InitIInv, PTL DEF Spec

(* The type invariant: in particular no null page is dereferenced, although *)
(* the pages that a thread has tested were published by other threads.      *)
THEOREM TypeCorrectness == Spec => []TypeOK
<1>1. IInv => TypeOK
  BY DEF IInv
<1> QED BY <1>1, Invariance, PTL

(* The error messages of _saveL1Page and _saveShadowPage are never written. *)
THEOREM CacheEmptiness == Spec => []CacheIsEmptyWhenSaving
<1>1. IInv => CacheIsEmptyWhenSaving
  BY DEF IInv
<1> QED BY <1>1, Invariance, PTL

(* Whatever the races to publish pages, all lookups of a granule that ever  *)
(* return give the same slot, and no two granules share one.                *)
THEOREM SlotsAreGranules == Spec => []OneSlotPerGranule
<1>1. ASSUME IInv, NEW x \in found, NEW y \in found
      PROVE  x[2] = y[2] <=> Granule(x[1]) = Granule(y[1])
  <2> DEFINE p(z) == table[Shared][L1Index(z[1])]
             q(z) == entries[p(z)][L2Index(z[1])]
  <2>1. \A z \in {x, y} : /\ z[1] \in Nat /\ z[2] \in ShadowPages \X Slots
                          /\ p(z) # NIL /\ z[2] = <<q(z), PageIndex(z[1])>>
    BY <1>1, AddressesAssumption, ZenonT(40) DEF IInv, TypeOK, FoundSlotsStay
  <2>2. \A z \in {x, y} : L1Index(z[1]) \in L1Indices /\ L2Index(z[1]) \in L2Indices
    BY <2>1, IndicesAreDigits
  <2>3. \A z \in {x, y} : p(z) \in L1Pages \cap heap /\ q(z) # NIL
    BY <2>1, <2>2, <1>1, NamesAssumption
       DEF IInv, TypeOK, Memories, PagesInvariant, HeldPagesAreAllocated
  <2>4. q(x) = q(y) <=> L1Index(x[1]) = L1Index(y[1]) /\ L2Index(x[1]) = L2Index(y[1])
    <3>1. q(x) = q(y) => p(x) = p(y) /\ L2Index(x[1]) = L2Index(y[1])
      BY <2>2, <2>3, <1>1 DEF IInv, PagesInvariant, TablesAreApart
    <3>2. p(x) = p(y) => L1Index(x[1]) = L1Index(y[1])
      BY <2>1, <2>2, <1>1 DEF IInv, PagesInvariant, TablesAreApart, Memories
    <3> QED BY <3>1, <3>2
  <2>5. x[2] = y[2] <=> q(x) = q(y) /\ PageIndex(x[1]) = PageIndex(y[1])
    BY <2>1
  <2> QED BY <2>1, <2>4, <2>5, GranuleIsIndices
<1>2. IInv => OneSlotPerGranule
  BY <1>1 DEF OneSlotPerGranule
<1> QED BY <1>2, Invariance, PTL

(* The pages that wait in caches, or in the hand of a thread that is about  *)
(* to publish them, hold nothing, although some were published and freed    *)
(* memories have used the same addresses.                                   *)
THEOREM SparePagesBlank == Spec => []SparePagesAreBlank
<1>1. ASSUME IInv PROVE SparePagesAreBlank
  <2> USE NamesAssumption
  <2>a. TypeOK /\ PagesInvariant /\ FoundSlotsStay /\ RecycledSlotsArePublished
    BY <1>1 DEF IInv
  <2>1. \A p : p \in Spare <=> \E t \in Threads : p \in Held(t)
    BY DEF Spare
  <2>2. \A p \in Spare \cap L1Pages : entries[p] = NoPages
    BY <2>1, <2>a DEF PagesInvariant, SparesPointNowhere
  <2>3. ASSUME NEW m \in Memories, NEW i \in L1Indices, NEW j \in L2Indices, table[m][i] # NIL
        PROVE  entries[table[m][i]][j] \notin Spare
    <3>1. table[m][i] \in L1Pages \cap heap
      BY <2>3, <2>a DEF TypeOK, PagesInvariant, HeldPagesAreAllocated
    <3> QED BY <3>1, <2>1, <2>a DEF PagesInvariant, SparesAreInNoTable
  <2>4. ASSUME NEW s \in recycled PROVE s[1] \notin Spare
    BY <2>3, <2>a DEF RecycledSlotsArePublished
  <2>5. ASSUME NEW x \in found PROVE x[2][1] \notin Spare
    <3>1. L1Index(x[1]) \in L1Indices /\ L2Index(x[1]) \in L2Indices
      BY <2>a, AddressesAssumption, IndicesAreDigits DEF TypeOK
    <3>2. x[2][1] = entries[table[Shared][L1Index(x[1])]][L2Index(x[1])]
          /\ table[Shared][L1Index(x[1])] # NIL
      BY <2>a DEF FoundSlotsStay
    <3> QED BY <3>1, <3>2, <2>3 DEF Memories
  <2> QED BY <2>2, <2>4, <2>5 DEF SparePagesAreBlank
<1> QED BY <1>1, Invariance, PTL

(* Each page in one place, first level. *)
LEMMA L1HomeIsOne ==
  ASSUME IInv, NEW p \in L1Pages
  PROVE  Cardinality(L1Homes(p)) = IF p \in heap THEN 1 ELSE 0
<1> USE NamesAssumption
<1>a. TypeOK /\ PagesInvariant
  BY DEF IInv
<1>1. \A h : h \in L1Homes(p) <=>
        \/ \E m \in Memories, i \in L1Indices : table[m][i] = p /\ h = <<"table", <<m, i>>>>
        \/ \E t \in Threads : cachedL1[t] = p /\ h = <<"cache", t>>
        \/ \E t \in Threads : fresh[t] = p /\ h = <<"fresh", t>>
  BY DEF L1Homes
<1>2. \A t \in Threads : p \in Held(t) <=> cachedL1[t] = p \/ fresh[t] = p
  BY <1>a DEF Held, TypeOK
<1>3. \A t \in Threads : ~ (cachedL1[t] = p /\ fresh[t] = p)
  BY <1>a DEF PagesInvariant, HandIsNotCache
<1>4. ASSUME NEW g \in L1Homes(p), NEW h \in L1Homes(p) PROVE g = h
  <2>1. \A t, u \in Threads : p \in Held(t) /\ p \in Held(u) => t = u
    BY <1>a DEF PagesInvariant, SparesAreApart
  <2>2. \A t \in Threads, m \in Memories, i \in L1Indices : p \in Held(t) => table[m][i] # p
    BY <1>a DEF PagesInvariant, SparesAreInNoTable
  <2>3. \A m, n \in Memories, i, j \in L1Indices :
          table[m][i] = p /\ table[n][j] = p => m = n /\ i = j
    BY <1>a DEF PagesInvariant, TablesAreApart
  <2> QED BY <1>1, <1>2, <1>3, <2>1, <2>2, <2>3
<1>5. L1Homes(p) # {} <=> p \in heap
  <2>1. ASSUME p \in heap PROVE \E h : h \in L1Homes(p)
    <3>1. \/ \E t \in Threads : cachedL1[t] = p \/ fresh[t] = p
          \/ \E m \in Memories, i \in L1Indices : table[m][i] = p
      BY <2>1, <1>2, <1>a DEF PagesInvariant, AllocatedPagesAreHeld
    <3>2. ASSUME NEW t \in Threads, cachedL1[t] = p PROVE <<"cache", t>> \in L1Homes(p)
      BY <3>2, <1>1
    <3>3. ASSUME NEW t \in Threads, fresh[t] = p PROVE <<"fresh", t>> \in L1Homes(p)
      BY <3>3, <1>1
    <3>4. ASSUME NEW m \in Memories, NEW i \in L1Indices, table[m][i] = p PROVE <<"table", <<m, i>>>> \in L1Homes(p)
      BY <3>4, <1>1
    <3> QED BY <3>1, <3>2, <3>3, <3>4
  <2>2. ASSUME NEW h \in L1Homes(p) PROVE p \in heap
    BY <1>1, <1>2, <1>a DEF PagesInvariant, HeldPagesAreAllocated
  <2> QED BY <2>1, <2>2
<1>6. CASE p \in heap
  <2>1. PICK h : L1Homes(p) = {h}
    BY <1>4, <1>5, <1>6
  <2> QED BY <2>1, <1>6, FS_Singleton
<1>7. CASE p \notin heap
  BY <1>5, <1>7, FS_EmptySet
<1> QED BY <1>6, <1>7

(* ... and second level. *)
LEMMA ShadowHomeIsOne ==
  ASSUME IInv, NEW p \in ShadowPages
  PROVE  Cardinality(ShadowHomes(p)) = IF p \in heap THEN 1 ELSE 0
<1> USE NamesAssumption
<1>a. TypeOK /\ PagesInvariant
  BY DEF IInv
<1>1. \A h : h \in ShadowHomes(p) <=>
        \/ \E q \in L1Pages \cap heap, j \in L2Indices :
             entries[q][j] = p /\ h = <<"table", <<q, j>>>>
        \/ \E t \in Threads : cachedShadow[t] = p /\ h = <<"cache", t>>
        \/ \E t \in Threads : fresh[t] = p /\ h = <<"fresh", t>>
  BY DEF ShadowHomes
<1>2. \A t \in Threads : p \in Held(t) <=> cachedShadow[t] = p \/ fresh[t] = p
  BY <1>a DEF Held, TypeOK
<1>3. \A t \in Threads : ~ (cachedShadow[t] = p /\ fresh[t] = p)
  BY <1>a DEF PagesInvariant, HandIsNotCache
<1>4. ASSUME NEW g \in ShadowHomes(p), NEW h \in ShadowHomes(p) PROVE g = h
  <2>1. \A t, u \in Threads : p \in Held(t) /\ p \in Held(u) => t = u
    BY <1>a DEF PagesInvariant, SparesAreApart
  <2>2. \A t \in Threads, q \in L1Pages \cap heap, j \in L2Indices :
          p \in Held(t) => entries[q][j] # p
    BY <1>a DEF PagesInvariant, SparesAreInNoTable
  <2>3. \A q, r \in L1Pages \cap heap, i, j \in L2Indices :
          entries[q][i] = p /\ entries[r][j] = p => q = r /\ i = j
    BY <1>a DEF PagesInvariant, TablesAreApart
  <2> QED BY <1>1, <1>2, <1>3, <2>1, <2>2, <2>3
<1>5. ShadowHomes(p) # {} <=> p \in heap
  <2>1. ASSUME p \in heap PROVE \E h : h \in ShadowHomes(p)
    <3>1. \/ \E t \in Threads : cachedShadow[t] = p \/ fresh[t] = p
          \/ \E q \in L1Pages \cap heap, j \in L2Indices : entries[q][j] = p
      BY <2>1, <1>2, <1>a DEF PagesInvariant, AllocatedPagesAreHeld
    <3>2. ASSUME NEW t \in Threads, cachedShadow[t] = p PROVE <<"cache", t>> \in ShadowHomes(p)
      BY <3>2, <1>1
    <3>3. ASSUME NEW t \in Threads, fresh[t] = p PROVE <<"fresh", t>> \in ShadowHomes(p)
      BY <3>3, <1>1
    <3>4. ASSUME NEW q \in L1Pages \cap heap, NEW j \in L2Indices, entries[q][j] = p
          PROVE  <<"table", <<q, j>>>> \in ShadowHomes(p)
      BY <3>4, <1>1
    <3> QED BY <3>1, <3>2, <3>3, <3>4
  <2>2. ASSUME NEW h \in ShadowHomes(p) PROVE p \in heap
    BY <1>1, <1>2, <1>a DEF PagesInvariant, HeldPagesAreAllocated
  <2> QED BY <2>1, <2>2
<1>6. CASE p \in heap
  <2>1. PICK h : ShadowHomes(p) = {h}
    BY <1>4, <1>5, <1>6
  <2> QED BY <2>1, <1>6, FS_Singleton
<1>7. CASE p \notin heap
  BY <1>5, <1>7, FS_EmptySet
<1> QED BY <1>6, <1>7

(* No page is lost, none is used twice, and none after it has been freed:   *)
(* for every number of threads that race to publish, cache and destroy.     *)
THEOREM PagesHaveOneHome == Spec => []EachPageHasOneHome
<1>1. IInv => EachPageHasOneHome
  BY L1HomeIsOne, ShadowHomeIsOne DEF EachPageHasOneHome
<1> QED BY <1>1, Invariance, PTL
=============================================================================
