---------------------------- MODULE BuddyProofs ----------------------------
(***************************************************************************)
(* Proofs about Buddy for every number of CPUs, every memory map and every *)
(* MAX_ORDER: no page is ever in two blocks, none is lost, all blocks are  *)
(* aligned, buddies are merged, and the whole implements PageAlloc.        *)
(***************************************************************************)
EXTENDS Buddy, Integers, SetOrderProofs, TLAPS

(* Block sizes are positive and double from one order to the next. *)
LEMMA SizeFacts ==
    /\ \A o \in Order : Size[o] \in Nat \ {0}
    /\ \A o \in Order : o < MAX_ORDER - 1 => o + 1 \in Order /\ Size[o + 1] = 2 * Size[o]
    /\ \A o \in Order : o > 0 => o - 1 \in Order /\ Size[o] = 2 * Size[o - 1]
    /\ \A o \in Order : o \in Nat
    /\ 0 \in Order
  <1>0. 0 \in Order
    BY BuddyAssumption DEF Order
  <1>1. \A o \in Order : Size[o] \in Nat \ {0} /\ o \in Nat
    BY BuddyAssumption DEF Order
  <1>2. \A o \in Order : o < MAX_ORDER - 1 => o + 1 \in Order /\ Size[o + 1] = 2 * Size[o]
    BY BuddyAssumption DEF Order
  <1>3. ASSUME NEW o \in Order, o > 0
        PROVE  o - 1 \in Order /\ Size[o] = 2 * Size[o - 1]
    <2>1. o - 1 \in Order /\ (o - 1) + 1 = o
      BY <1>3, BuddyAssumption DEF Order
    <2> QED BY <2>1, BuddyAssumption
  <1> QED BY <1>0, <1>1, <1>2, <1>3

(* Division is monotonic. *)
LEMMA DivMono ==
    ASSUME NEW a \in Nat, NEW b \in Nat, NEW d \in Nat \ {0}, a <= b
    PROVE  a \div d <= b \div d /\ a \div d \in Nat /\ b \div d \in Nat
  OBVIOUS

(* A multiple, written with its quotient. *)
LEMMA Quotient ==
    ASSUME NEW a \in Nat, NEW m \in Nat \ {0}, a % m = 0
    PROVE  a \div m \in Nat /\ a = m * (a \div m)
  OBVIOUS

(* A product is a multiple of its factor. *)
LEMMA MultipleMod ==
    ASSUME NEW k \in Nat, NEW m \in Nat \ {0}
    PROVE  (m * k) % m = 0
  OBVIOUS

(* An odd number, written with its half. *)
LEMMA OddNumber ==
    ASSUME NEW k \in Nat, k % 2 # 0
    PROVE  \E j \in Nat : k = 2 * j + 1
  <1>1. k \div 2 \in Nat /\ k = 2 * (k \div 2) + 1
    OBVIOUS
  <1> QED BY <1>1

(* Arithmetic of the xor on aligned addresses: the lower of two buddies is *)
(* aligned to twice the size, and both halves of a block to half of it.    *)
LEMMA EvenAligned ==
    ASSUME NEW a \in Nat, NEW s \in Nat \ {0}, a % s = 0, (a \div s) % 2 = 0
    PROVE  a % (2 * s) = 0
  <1>1. PICK k \in Nat : k = a \div s /\ a = s * k /\ k % 2 = 0
    BY Quotient
  <1>2. PICK j \in Nat : k = 2 * j
    BY <1>1
  <1>3. a = (2 * s) * j
    BY <1>1, <1>2
  <1>4. 2 * s \in Nat \ {0}
    OBVIOUS
  <1> QED BY <1>3, <1>4, MultipleMod

LEMMA OddAligned ==
    ASSUME NEW a \in Nat, NEW s \in Nat \ {0}, a % s = 0, (a \div s) % 2 # 0
    PROVE  a >= s /\ (a - s) % (2 * s) = 0
  <1>1. PICK k \in Nat : k = a \div s /\ a = s * k /\ k % 2 # 0
    BY Quotient
  <1>2. PICK j \in Nat : k = 2 * j + 1
    BY <1>1, OddNumber
  <1>3. a = (2 * s) * j + s
    BY <1>1, <1>2
  <1>4. a - s = (2 * s) * j /\ a >= s
    BY <1>3
  <1>5. 2 * s \in Nat \ {0}
    OBVIOUS
  <1>6. ((2 * s) * j) % (2 * s) = 0
    BY <1>5, MultipleMod
  <1> QED BY <1>4, <1>6

LEMMA HalfAligned ==
    ASSUME NEW a \in Nat, NEW s \in Nat \ {0}, a % (2 * s) = 0
    PROVE  a % s = 0 /\ (a + s) % s = 0
  <1>1. 2 * s \in Nat \ {0}
    OBVIOUS
  <1>2. PICK k \in Nat : a = (2 * s) * k
    BY <1>1, Quotient
  <1>3. 2 * k \in Nat /\ 2 * k + 1 \in Nat
    OBVIOUS
  <1>4. a = s * (2 * k) /\ a + s = s * (2 * k + 1)
    BY <1>2
  <1> QED BY <1>3, <1>4, MultipleMod

(* The block that merges a block with its buddy. *)
LEMMA MergedBlock ==
    ASSUME NEW a \in Nat, NEW o \in Order, a % Size[o] = 0, o < MAX_ORDER - 1
    PROVE  LET b == BuddyOf(a, o)
               m == IF b < a THEN b ELSE a
           IN  /\ b \in Nat /\ m \in Nat /\ m % Size[o + 1] = 0
               /\ (m = a /\ b = a + Size[o]) \/ (m = b /\ a = b + Size[o])
  <1>1. Size[o] \in Nat \ {0} /\ Size[o + 1] = 2 * Size[o]
    BY SizeFacts
  <1>2. CASE (a \div Size[o]) % 2 = 0
    <2>1. a % Size[o + 1] = 0
      BY <1>1, <1>2, EvenAligned
    <2>2. BuddyOf(a, o) = a + Size[o]
      BY <1>2 DEF BuddyOf
    <2> QED BY <1>1, <2>1, <2>2
  <1>3. CASE (a \div Size[o]) % 2 # 0
    <2>0. a >= Size[o] /\ (a - Size[o]) % (2 * Size[o]) = 0
      BY <1>1, <1>3, OddAligned
    <2>1. a >= Size[o] /\ (a - Size[o]) % Size[o + 1] = 0
      BY <1>1, <2>0
    <2>2. BuddyOf(a, o) = a - Size[o]
      BY <1>3 DEF BuddyOf
    <2> QED BY <1>1, <2>1, <2>2
  <1> QED BY <1>2, <1>3

(* What is apart from both buddies is apart from the block they make. *)
LEMMA MergedApart ==
    ASSUME NEW a \in Nat, NEW b \in Nat, NEW m \in Nat, NEW o \in Order, o + 1 \in Order,
           Size[o + 1] = 2 * Size[o],
           (m = a /\ b = a + Size[o]) \/ (m = b /\ a = b + Size[o]),
           NEW x \in Nat, NEW q \in Order,
           Apart(x, q, a, o) \/ Apart(a, o, x, q), Apart(x, q, b, o) \/ Apart(b, o, x, q)
    PROVE  Apart(x, q, m, o + 1) /\ Apart(m, o + 1, x, q)
  BY SizeFacts DEF Apart

(* The elements of a sequence. *)
LEMMA SeqElements ==
    ASSUME NEW S, NEW s \in Seq(S)
    PROVE  Len(s) \in Nat /\ \A i \in 1..Len(s) : s[i] \in S
  OBVIOUS

(* The pages of the memory map entries, in order. *)
LEMMA PageFacts ==
    /\ Len(Regions) \in Nat
    /\ \A i \in 1..Len(Regions) : FirstPage(i) \in Nat /\ EndPage(i) \in Nat
    /\ \A i, j \in 1..Len(Regions) : i < j =>
         EndPage(i) <= FirstPage(j) /\ FirstPage(i) <= FirstPage(j)
  <1>1. /\ Len(Regions) \in Nat
        /\ \A i \in 1..Len(Regions) : Regions[i].base \in Nat /\ Regions[i].end \in Nat
    <2>1. Regions \in Seq([base : Nat, end : Nat])
      BY RegionsAssumption
    <2>2. Len(Regions) \in Nat /\ \A i \in 1..Len(Regions) : Regions[i] \in [base : Nat, end : Nat]
      BY <2>1, SeqElements, Zenon
    <2> QED BY <2>2
  <1>2. ASSUME NEW i \in 1..Len(Regions)
        PROVE  FirstPage(i) \in Nat /\ EndPage(i) \in Nat
    <2>1. /\ Regions[i].base + PAGE_SIZE - 1 \in Nat /\ Regions[i].end \in Nat
          /\ PAGE_SIZE \in Nat \ {0}
      BY <1>1, BuddyAssumption
    <2>2. /\ (Regions[i].base + PAGE_SIZE - 1) \div PAGE_SIZE \in Nat
          /\ Regions[i].end \div PAGE_SIZE \in Nat
      BY <2>1, DivMono
    <2> QED BY <2>2 DEF FirstPage, EndPage
  <1>3. ASSUME NEW i \in 1..Len(Regions), NEW j \in 1..Len(Regions), i < j
        PROVE  EndPage(i) <= FirstPage(j) /\ FirstPage(i) <= FirstPage(j)
    <2> DEFINE bi == Regions[i].base + PAGE_SIZE - 1
               bj == Regions[j].base + PAGE_SIZE - 1
               ei == Regions[i].end
    <2>1. Regions[i].base <= Regions[i].end /\ Regions[i].end <= Regions[j].base
      BY <1>3, RegionsAssumption
    <2>2. /\ bi \in Nat /\ bj \in Nat /\ ei \in Nat /\ PAGE_SIZE \in Nat \ {0}
          /\ bi <= bj /\ ei <= bj
      BY SMTT(30), <1>1, <2>1, BuddyAssumption
    <2>3. /\ FirstPage(i) = bi \div PAGE_SIZE /\ FirstPage(j) = bj \div PAGE_SIZE
          /\ EndPage(i) = ei \div PAGE_SIZE
      BY DEF FirstPage, EndPage
    <2> HIDE DEF bi, bj, ei
    <2> QED BY <2>2, <2>3, DivMono
  <1> QED BY <1>1, <1>2, <1>3

(* A page is in some block. *)
Covered(q) == InFree(q) \/ InOwned(q) \/ InHands(q)

(* The next memory map entry: freerange starts above everything it has done. *)
LEMMA FreeRangeStartInv ==
    ASSUME IInv, NEW c \in CPU, FreeRangeStart(c)
    PROVE  IInv'
  <1>t. /\ free_lists \in [Order -> SUBSET Nat] /\ addr \in [CPU -> Nat]
        /\ order \in [CPU -> Order] /\ region \in Nat /\ p \in Nat
        /\ \A d \in owned : d.addr \in Nat /\ OrderOf(d) \in Order
        /\ DOMAIN pc = CPU
    BY DEF IInv, TypeOK, RequestInv
  <1>e. /\ pc[c] = "boot" /\ region < Len(Regions)
        /\ region > 0 => p + 1 > EndPage(region)
        /\ region' = region + 1 /\ p' = FirstPage(region + 1)
        /\ UNCHANGED <<free_lists, use_lock, lock, owned, pc, npages, addr, order>>
    BY DEF FreeRangeStart
  <1>1. TypeOK'
    BY <1>t, <1>e, SizeFacts, PageFacts DEF IInv, RequestInv, TypeOK
  <1>2. LockInv'
    BY <1>t, <1>e, SizeFacts, BuddyAssumption DEF IInv, TypeOK, LockInv, LockInv
  <1>3. RequestInv'
    BY <1>t, <1>e, SizeFacts DEF IInv, TypeOK, LockInv, RequestInv, OrderOf
  <1>4. BootInv'
    <2>1. c = BSP /\ ~use_lock
      BY <1>e DEF IInv, LockInv
    <2>2. region + 1 \in 1..Len(Regions) /\ FirstPage(region + 1) \in Nat
      BY <1>t, <1>e, PageFacts
    <2>3. ASSUME region > 0
          PROVE  p <= FirstPage(region + 1)
      <3>1. region \in 1..Len(Regions) /\ region < region + 1
        BY <2>3, <1>t, <1>e, PageFacts
      <3>2. /\ EndPage(region) <= FirstPage(region + 1)
            /\ FirstPage(region) <= FirstPage(region + 1)
            /\ EndPage(region) \in Nat /\ FirstPage(region) \in Nat
        BY <3>1, <2>2, PageFacts
      <3> QED BY <3>2, <2>2, <2>3, <1>t DEF IInv, BootInv
    <2>4. p <= p'
      BY <2>2, <2>3, <1>t, <1>e DEF IInv, BootInv
    <2>5. \A o \in Order : \A a \in free_lists[o] : a + Size[o] <= p'
      BY <2>1, <2>2, <2>4, <1>t, <1>e, SizeFacts DEF IInv, BootInv
    <2> QED BY <2>1, <2>2, <2>5, <1>t, <1>e DEF IInv, BootInv
  <1>5. FreeApart'
    BY <1>t, <1>e, SizeFacts DEF IInv, NoOverlap, FreeApart, Apart
  <1>6. OwnedApart'
    BY <1>t, <1>e, SizeFacts DEF IInv, NoOverlap, OwnedApart, Apart, OrderOf
  <1>7. HandsApart'
    BY <1>t, <1>e, SizeFacts DEF IInv, NoOverlap, HandsApart, Apart, InHand
  <1>8. FreeOwnedApart'
    BY <1>t, <1>e, SizeFacts DEF IInv, NoOverlap, FreeOwnedApart, Apart, OrderOf
  <1>9. FreeHandApart'
    BY <1>t, <1>e, SizeFacts DEF IInv, NoOverlap, FreeHandApart, Apart, InHand
  <1>10. OwnedHandApart'
    BY <1>t, <1>e, SizeFacts DEF IInv, NoOverlap, OwnedHandApart, Apart, OrderOf, InHand
  <1>11. NoLeak'
    <2> SUFFICES ASSUME NEW i \in 1..region', NEW q \in Given(i)'
                 PROVE  Covered(q)'
      BY DEF NoLeak, Covered
    <2>1. region + 1 \in 1..Len(Regions) /\ FirstPage(region + 1) \in Nat
      BY <1>t, <1>e, PageFacts
    <2>2. i # region + 1 /\ i \in 1..region
      BY <2>1, <1>t, <1>e DEF Given
    <2>3. i \in 1..Len(Regions) /\ FirstPage(i) \in Nat /\ EndPage(i) \in Nat
      BY <2>1, <2>2, <1>t, PageFacts
    <2>4. q \in Given(i)
      BY <2>2, <2>3, <1>t, <1>e DEF Given
    <2>5. Covered(q)
      BY <2>2, <2>4 DEF IInv, NoLeak, Covered
    <2> QED BY <2>5, <1>e DEF Covered, InFree, InOwned, InHands, InHand
  <1>12. Aligned'
    BY <1>t, <1>e, SizeFacts DEF IInv, Aligned, OrderOf, InHand
  <1> QED BY <1>1, <1>2, <1>3, <1>4, <1>5, <1>6, <1>7, <1>8, <1>9, <1>10, <1>11, <1>12 DEF IInv, NoOverlap

(* freerange takes the next block, above all others. *)
LEMMA FreeRangeBlockInv ==
    ASSUME IInv, NEW c \in CPU, FreeRangeBlock(c)
    PROVE  IInv'
  <1>t. /\ free_lists \in [Order -> SUBSET Nat] /\ addr \in [CPU -> Nat]
        /\ order \in [CPU -> Order] /\ region \in Nat /\ p \in Nat
        /\ \A d \in owned : d.addr \in Nat /\ OrderOf(d) \in Order
        /\ DOMAIN pc = CPU
    BY DEF IInv, TypeOK, RequestInv
  <1>e. PICK o \in Order :
        /\ pc[c] = "boot" /\ region > 0 /\ p % Size[o] = 0
        /\ p + Size[o] <= EndPage(region)
        /\ order' = [order EXCEPT ![c] = o] /\ p' = p + Size[o]
        /\ addr' = [addr EXCEPT ![c] = p] /\ pc' = [pc EXCEPT ![c] = "merge"]
        /\ UNCHANGED <<free_lists, use_lock, lock, region, owned, npages>>
    BY <1>t DEF FreeRangeBlock, Fitting
  <1>1. TypeOK'
    <2>1. p + Size[o] \in Nat
      BY <1>t, <1>e, SizeFacts
    <2> QED BY <2>1, <1>t, <1>e DEF IInv, TypeOK
  <1>2. LockInv'
    BY <1>t, <1>e, SizeFacts, BuddyAssumption DEF IInv, TypeOK, LockInv, LockInv
  <1>3. RequestInv'
    BY <1>t, <1>e, SizeFacts DEF IInv, TypeOK, LockInv, RequestInv, OrderOf
  <1>4. BootInv'
    <2>1. c = BSP /\ ~use_lock /\ Size[o] \in Nat
      BY <1>e, SizeFacts DEF IInv, LockInv
    <2>2. \A q \in Order : \A a \in free_lists[q] : a + Size[q] <= p
      BY <2>1 DEF IInv, BootInv
    <2>3. \A q \in Order : \A a \in free_lists[q] : a + Size[q] <= p + Size[o]
      BY <2>1, <2>2, <1>t, SizeFacts
    <2> QED BY <2>1, <2>3, <1>t, <1>e DEF IInv, BootInv
  <1>5. FreeApart'
    BY <1>t, <1>e, SizeFacts DEF IInv, NoOverlap, FreeApart, Apart
  <1>6. OwnedApart'
    BY <1>t, <1>e, SizeFacts DEF IInv, NoOverlap, OwnedApart, Apart, OrderOf
  <1>7. HandsApart'
    <2> SUFFICES ASSUME NEW d \in CPU, NEW e \in CPU, InHand(d)', InHand(e)', d # e
                 PROVE  Apart(addr[d], order[d], addr[e], order[e])'
      BY DEF HandsApart
    <2>1. CASE d = c
      BY <2>1, <1>t, <1>e, SizeFacts DEF IInv, NoOverlap, FreeApart, OwnedApart, HandsApart, FreeOwnedApart, FreeHandApart, OwnedHandApart, Apart, InHand, LockInv, BootInv
    <2>2. CASE e = c
      BY <2>2, <1>t, <1>e, SizeFacts DEF IInv, NoOverlap, FreeApart, OwnedApart, HandsApart, FreeOwnedApart, FreeHandApart, OwnedHandApart, Apart, InHand, LockInv, BootInv
    <2>3. CASE d # c /\ e # c
      BY <2>3, <1>t, <1>e, SizeFacts DEF IInv, NoOverlap, HandsApart, Apart, InHand
    <2> QED BY <2>1, <2>2, <2>3
  <1>8. FreeOwnedApart'
    BY <1>t, <1>e, SizeFacts DEF IInv, NoOverlap, FreeOwnedApart, Apart, OrderOf
  <1>9. FreeHandApart'
    <2> SUFFICES ASSUME NEW q \in Order, NEW x \in free_lists[q]', NEW e \in CPU, InHand(e)'
                 PROVE  Apart(x, q, addr[e], order[e])'
      BY DEF FreeHandApart
    <2>1. CASE e = c
      BY <2>1, <1>t, <1>e, SizeFacts DEF IInv, NoOverlap, FreeApart, OwnedApart, HandsApart, FreeOwnedApart, FreeHandApart, OwnedHandApart, Apart, InHand, LockInv, BootInv
    <2>2. CASE e # c
      BY <2>2, <1>t, <1>e, SizeFacts DEF IInv, NoOverlap, FreeApart, OwnedApart, HandsApart, FreeOwnedApart, FreeHandApart, OwnedHandApart, Apart, InHand, LockInv, BootInv
    <2> QED BY <2>1, <2>2
  <1>10. OwnedHandApart'
    <2> SUFFICES ASSUME NEW d \in owned', NEW e \in CPU, InHand(e)'
                 PROVE  Apart(d.addr, OrderOf(d), addr[e], order[e])'
      BY DEF OwnedHandApart
    <2>1. CASE e = c
      BY <2>1, <1>t, <1>e, SizeFacts DEF IInv, NoOverlap, FreeApart, OwnedApart, HandsApart, FreeOwnedApart, FreeHandApart, OwnedHandApart, Apart, InHand, LockInv, BootInv
    <2>2. CASE e # c
      BY <2>2, <1>t, <1>e, SizeFacts DEF IInv, NoOverlap, OwnedHandApart, Apart, InHand
    <2> QED BY <2>1, <2>2
  <1>11. NoLeak'
    BY <1>t, <1>e, SizeFacts DEF IInv, NoLeak, InFree, InOwned, InHands, Given, Pages, OrderOf, InHand
  <1>12. Aligned'
    BY <1>t, <1>e, SizeFacts DEF IInv, Aligned, OrderOf, InHand
  <1> QED BY <1>1, <1>2, <1>3, <1>4, <1>5, <1>6, <1>7, <1>8, <1>9, <1>10, <1>11, <1>12 DEF IInv, NoOverlap

(* The end of boot changes no block. *)
LEMMA EnableLockInv ==
    ASSUME IInv, NEW c \in CPU, buddy_enable_lock(c)
    PROVE  IInv'
  <1>t. /\ free_lists \in [Order -> SUBSET Nat] /\ addr \in [CPU -> Nat]
        /\ order \in [CPU -> Order] /\ region \in Nat /\ p \in Nat
        /\ \A d \in owned : d.addr \in Nat /\ OrderOf(d) \in Order
        /\ DOMAIN pc = CPU
    BY DEF IInv, TypeOK, RequestInv
  <1>e. /\ pc[c] = "boot" /\ use_lock' = TRUE /\ pc' = [pc EXCEPT ![c] = "idle"]
        /\ UNCHANGED <<free_lists, lock, region, p, owned, npages, addr, order>>
    BY DEF buddy_enable_lock
  <1>1. TypeOK'
    BY <1>t, <1>e, SizeFacts DEF IInv, RequestInv, TypeOK
  <1>2. LockInv'
    BY <1>t, <1>e, SizeFacts, BuddyAssumption DEF IInv, TypeOK, LockInv, LockInv
  <1>3. RequestInv'
    BY <1>t, <1>e, SizeFacts DEF IInv, TypeOK, LockInv, RequestInv, OrderOf
  <1>4. BootInv'
    BY <1>t, <1>e, SizeFacts DEF IInv, TypeOK, LockInv, BootInv
  <1>5. FreeApart'
    BY <1>t, <1>e, SizeFacts DEF IInv, NoOverlap, FreeApart, Apart
  <1>6. OwnedApart'
    BY <1>t, <1>e, SizeFacts DEF IInv, NoOverlap, OwnedApart, Apart, OrderOf
  <1>7. HandsApart'
    BY <1>t, <1>e, SizeFacts DEF IInv, NoOverlap, HandsApart, Apart, InHand
  <1>8. FreeOwnedApart'
    BY <1>t, <1>e, SizeFacts DEF IInv, NoOverlap, FreeOwnedApart, Apart, OrderOf
  <1>9. FreeHandApart'
    BY <1>t, <1>e, SizeFacts DEF IInv, NoOverlap, FreeHandApart, Apart, InHand
  <1>10. OwnedHandApart'
    BY <1>t, <1>e, SizeFacts DEF IInv, NoOverlap, OwnedHandApart, Apart, OrderOf, InHand
  <1>11. NoLeak'
    BY <1>t, <1>e, SizeFacts DEF IInv, NoLeak, InFree, InOwned, InHands, Given, Pages, OrderOf, InHand
  <1>12. Aligned'
    BY <1>t, <1>e, SizeFacts DEF IInv, Aligned, OrderOf, InHand
  <1> QED BY <1>1, <1>2, <1>3, <1>4, <1>5, <1>6, <1>7, <1>8, <1>9, <1>10, <1>11, <1>12 DEF IInv, NoOverlap

(* A call that has not got the lock yet changes no block. *)
LEMMA KallocInv ==
    ASSUME IInv, NEW c \in CPU, NEW n \in Requests, kalloc(c, n)
    PROVE  IInv'
  <1>t. /\ free_lists \in [Order -> SUBSET Nat] /\ addr \in [CPU -> Nat]
        /\ order \in [CPU -> Order] /\ region \in Nat /\ p \in Nat
        /\ \A d \in owned : d.addr \in Nat /\ OrderOf(d) \in Order
        /\ DOMAIN pc = CPU
    BY DEF IInv, TypeOK, RequestInv
  <1>e. /\ pc[c] = "idle" /\ use_lock /\ order_for(n) \in Order
        /\ npages' = [npages EXCEPT ![c] = n] /\ pc' = [pc EXCEPT ![c] = "allocSpin"]
        /\ UNCHANGED <<free_lists, lock, use_lock, region, p, owned, addr, order>>
    BY DEF kalloc, bootVars
  <1>1. TypeOK'
    BY <1>t, <1>e, SizeFacts, BuddyAssumption DEF IInv, RequestInv, TypeOK
  <1>2. LockInv'
    BY <1>t, <1>e, SizeFacts, BuddyAssumption DEF IInv, TypeOK, LockInv, LockInv
  <1>3. RequestInv'
    BY <1>t, <1>e, SizeFacts DEF IInv, TypeOK, LockInv, RequestInv, OrderOf
  <1>4. BootInv'
    BY <1>t, <1>e, SizeFacts DEF IInv, TypeOK, LockInv, BootInv
  <1>5. FreeApart'
    BY <1>t, <1>e, SizeFacts DEF IInv, NoOverlap, FreeApart, Apart
  <1>6. OwnedApart'
    BY <1>t, <1>e, SizeFacts DEF IInv, NoOverlap, OwnedApart, Apart, OrderOf
  <1>7. HandsApart'
    BY <1>t, <1>e, SizeFacts DEF IInv, NoOverlap, HandsApart, Apart, InHand
  <1>8. FreeOwnedApart'
    BY <1>t, <1>e, SizeFacts DEF IInv, NoOverlap, FreeOwnedApart, Apart, OrderOf
  <1>9. FreeHandApart'
    BY <1>t, <1>e, SizeFacts DEF IInv, NoOverlap, FreeHandApart, Apart, InHand
  <1>10. OwnedHandApart'
    BY <1>t, <1>e, SizeFacts DEF IInv, NoOverlap, OwnedHandApart, Apart, OrderOf, InHand
  <1>11. NoLeak'
    BY <1>t, <1>e, SizeFacts DEF IInv, NoLeak, InFree, InOwned, InHands, Given, Pages, OrderOf, InHand
  <1>12. Aligned'
    BY <1>t, <1>e, SizeFacts DEF IInv, Aligned, OrderOf, InHand
  <1> QED BY <1>1, <1>2, <1>3, <1>4, <1>5, <1>6, <1>7, <1>8, <1>9, <1>10, <1>11, <1>12 DEF IInv, NoOverlap

(* A block moves from its list into the hand of the CPU. *)
LEMMA KallocPopInv ==
    ASSUME IInv, NEW c \in CPU, KallocPop(c)
    PROVE  IInv'
  <1>t. /\ free_lists \in [Order -> SUBSET Nat] /\ addr \in [CPU -> Nat]
        /\ order \in [CPU -> Order] /\ region \in Nat /\ p \in Nat
        /\ \A d \in owned : d.addr \in Nat /\ OrderOf(d) \in Order
        /\ DOMAIN pc = CPU
    BY DEF IInv, TypeOK, RequestInv
  <1>e. PICK o \in Order, a \in Nat :
        /\ a \in free_lists[o] /\ pc[c] = "allocSpin" /\ lock = None
        /\ o >= order_for(npages[c])
        /\ order' = [order EXCEPT ![c] = o] /\ addr' = [addr EXCEPT ![c] = a]
        /\ free_lists' = [free_lists EXCEPT ![o] = @ \ {a}]
        /\ lock' = c /\ pc' = [pc EXCEPT ![c] = "split"]
        /\ UNCHANGED <<use_lock, region, p, owned, npages>>
    BY <1>t DEF KallocPop, Available, bootVars
  <1>1. TypeOK'
    BY <1>t, <1>e, SizeFacts DEF IInv, RequestInv, TypeOK
  <1>2. LockInv'
    BY <1>t, <1>e, SizeFacts, BuddyAssumption DEF IInv, TypeOK, LockInv, LockInv
  <1>3. RequestInv'
    BY <1>t, <1>e, SizeFacts DEF IInv, TypeOK, LockInv, RequestInv, OrderOf
  <1>4. BootInv'
    BY <1>t, <1>e, SizeFacts DEF IInv, TypeOK, LockInv, BootInv
  <1>5. FreeApart'
    BY <1>t, <1>e, SizeFacts DEF IInv, NoOverlap, FreeApart, Apart
  <1>6. OwnedApart'
    BY <1>t, <1>e, SizeFacts DEF IInv, NoOverlap, OwnedApart, Apart, OrderOf
  <1>7. HandsApart'
    <2> SUFFICES ASSUME NEW d \in CPU, NEW e \in CPU, InHand(d)', InHand(e)', d # e
                 PROVE  Apart(addr[d], order[d], addr[e], order[e])'
      BY DEF HandsApart
    <2>1. CASE d = c
      BY <2>1, <1>t, <1>e, SizeFacts DEF IInv, NoOverlap, FreeApart, OwnedApart, HandsApart, FreeOwnedApart, FreeHandApart, OwnedHandApart, Apart, InHand
    <2>2. CASE e = c
      BY <2>2, <1>t, <1>e, SizeFacts DEF IInv, NoOverlap, FreeApart, OwnedApart, HandsApart, FreeOwnedApart, FreeHandApart, OwnedHandApart, Apart, InHand
    <2>3. CASE d # c /\ e # c
      BY <2>3, <1>t, <1>e, SizeFacts DEF IInv, NoOverlap, HandsApart, Apart, InHand
    <2> QED BY <2>1, <2>2, <2>3
  <1>8. FreeOwnedApart'
    BY <1>t, <1>e, SizeFacts DEF IInv, NoOverlap, FreeOwnedApart, Apart, OrderOf
  <1>9. FreeHandApart'
    <2> SUFFICES ASSUME NEW q \in Order, NEW x \in free_lists[q]', NEW e \in CPU, InHand(e)'
                 PROVE  Apart(x, q, addr[e], order[e])'
      BY DEF FreeHandApart
    <2>1. CASE e = c
      BY <2>1, <1>t, <1>e, SizeFacts DEF IInv, NoOverlap, FreeApart, OwnedApart, HandsApart, FreeOwnedApart, FreeHandApart, OwnedHandApart, Apart, InHand
    <2>2. CASE e # c
      BY <2>2, <1>t, <1>e, SizeFacts DEF IInv, NoOverlap, FreeApart, OwnedApart, HandsApart, FreeOwnedApart, FreeHandApart, OwnedHandApart, Apart, InHand
    <2> QED BY <2>1, <2>2
  <1>10. OwnedHandApart'
    <2> SUFFICES ASSUME NEW d \in owned', NEW e \in CPU, InHand(e)'
                 PROVE  Apart(d.addr, OrderOf(d), addr[e], order[e])'
      BY DEF OwnedHandApart
    <2>1. CASE e = c
      BY <2>1, <1>t, <1>e, SizeFacts DEF IInv, NoOverlap, FreeApart, OwnedApart, HandsApart, FreeOwnedApart, FreeHandApart, OwnedHandApart, Apart, InHand
    <2>2. CASE e # c
      BY <2>2, <1>t, <1>e, SizeFacts DEF IInv, NoOverlap, OwnedHandApart, Apart, InHand
    <2> QED BY <2>1, <2>2
  <1>11. NoLeak'
    BY <1>t, <1>e, SizeFacts DEF IInv, NoLeak, InFree, InOwned, InHands, Given, Pages, OrderOf, InHand
  <1>12. Aligned'
    BY <1>t, <1>e, SizeFacts DEF IInv, Aligned, OrderOf, InHand
  <1> QED BY <1>1, <1>2, <1>3, <1>4, <1>5, <1>6, <1>7, <1>8, <1>9, <1>10, <1>11, <1>12 DEF IInv, NoOverlap

(* A failed kalloc changes no block. *)
LEMMA KallocFullInv ==
    ASSUME IInv, NEW c \in CPU, KallocFull(c)
    PROVE  IInv'
  <1>t. /\ free_lists \in [Order -> SUBSET Nat] /\ addr \in [CPU -> Nat]
        /\ order \in [CPU -> Order] /\ region \in Nat /\ p \in Nat
        /\ \A d \in owned : d.addr \in Nat /\ OrderOf(d) \in Order
        /\ DOMAIN pc = CPU
    BY DEF IInv, TypeOK, RequestInv
  <1>e. /\ pc[c] = "allocSpin" /\ pc' = [pc EXCEPT ![c] = "idle"]
        /\ npages' = [npages EXCEPT ![c] = 0] /\ addr' = [addr EXCEPT ![c] = 0]
        /\ order' = [order EXCEPT ![c] = 0]
        /\ UNCHANGED <<free_lists, lock, use_lock, region, p, owned>>
    BY DEF KallocFull, Return, bootVars
  <1>1. TypeOK'
    BY <1>t, <1>e, SizeFacts DEF IInv, RequestInv, TypeOK
  <1>2. LockInv'
    BY <1>t, <1>e, SizeFacts, BuddyAssumption DEF IInv, TypeOK, LockInv, LockInv
  <1>3. RequestInv'
    BY <1>t, <1>e, SizeFacts DEF IInv, TypeOK, LockInv, RequestInv, OrderOf
  <1>4. BootInv'
    BY <1>t, <1>e, SizeFacts DEF IInv, TypeOK, LockInv, BootInv
  <1>5. FreeApart'
    BY <1>t, <1>e, SizeFacts DEF IInv, NoOverlap, FreeApart, Apart
  <1>6. OwnedApart'
    BY <1>t, <1>e, SizeFacts DEF IInv, NoOverlap, OwnedApart, Apart, OrderOf
  <1>7. HandsApart'
    BY <1>t, <1>e, SizeFacts DEF IInv, NoOverlap, HandsApart, Apart, InHand
  <1>8. FreeOwnedApart'
    BY <1>t, <1>e, SizeFacts DEF IInv, NoOverlap, FreeOwnedApart, Apart, OrderOf
  <1>9. FreeHandApart'
    BY <1>t, <1>e, SizeFacts DEF IInv, NoOverlap, FreeHandApart, Apart, InHand
  <1>10. OwnedHandApart'
    BY <1>t, <1>e, SizeFacts DEF IInv, NoOverlap, OwnedHandApart, Apart, OrderOf, InHand
  <1>11. NoLeak'
    BY SMTT(30), <1>t, <1>e, SizeFacts DEF IInv, NoLeak, InFree, InOwned, InHands, Given, Pages, OrderOf, InHand
  <1>12. Aligned'
    BY <1>t, <1>e, SizeFacts DEF IInv, Aligned, OrderOf, InHand
  <1> QED BY <1>1, <1>2, <1>3, <1>4, <1>5, <1>6, <1>7, <1>8, <1>9, <1>10, <1>11, <1>12 DEF IInv, NoOverlap

(* The upper half of the block in hand goes to a list. *)
LEMMA KallocSplitInv ==
    ASSUME IInv, NEW c \in CPU, KallocSplit(c)
    PROVE  IInv'
  <1>t. /\ free_lists \in [Order -> SUBSET Nat] /\ addr \in [CPU -> Nat]
        /\ order \in [CPU -> Order] /\ region \in Nat /\ p \in Nat
        /\ \A d \in owned : d.addr \in Nat /\ OrderOf(d) \in Order
        /\ DOMAIN pc = CPU
    BY DEF IInv, TypeOK, RequestInv
  <1>e. /\ pc[c] = "split" /\ order[c] > order_for(npages[c])
        /\ free_lists' = [free_lists EXCEPT ![order[c] - 1] =
                            @ \cup {addr[c] + Size[order[c] - 1]}]
        /\ order' = [order EXCEPT ![c] = @ - 1]
        /\ UNCHANGED <<lock, use_lock, region, p, owned, pc, npages, addr>>
    BY DEF KallocSplit, bootVars
  <1>o. order[c] - 1 \in Order /\ Size[order[c]] = 2 * Size[order[c] - 1]
    <2>1. order[c] > 0
      BY <1>t, <1>e, SizeFacts DEF IInv, RequestInv
    <2> QED BY <2>1, <1>t, SizeFacts
  <1>1. TypeOK'
    <2>1. addr[c] + Size[order[c] - 1] \in Nat
      BY <1>t, <1>o, SizeFacts
    <2> QED BY <2>1, <1>t, <1>e, <1>o DEF IInv, TypeOK
  <1>2. LockInv'
    BY <1>t, <1>e, <1>o, SizeFacts, BuddyAssumption DEF IInv, TypeOK, LockInv, LockInv
  <1>3. RequestInv'
    BY SMTT(30), <1>t, <1>e, <1>o, SizeFacts DEF IInv, TypeOK, LockInv, RequestInv, OrderOf
  <1>4. BootInv'
    BY <1>t, <1>e, <1>o, SizeFacts DEF IInv, TypeOK, LockInv, BootInv
  <1>5. FreeApart'
    <2> SUFFICES ASSUME NEW q \in Order, NEW r \in Order,
                        NEW x \in free_lists[q]', NEW y \in free_lists[r]', ~(q = r /\ x = y)
                 PROVE  Apart(x, q, y, r)'
      BY DEF FreeApart
    <2>1. /\ x \in free_lists[q] \/ (q = order[c] - 1 /\ x = addr[c] + Size[order[c] - 1])
          /\ y \in free_lists[r] \/ (r = order[c] - 1 /\ y = addr[c] + Size[order[c] - 1])
      BY <1>t, <1>e, <1>o, SizeFacts
    <2>2. CASE x \in free_lists[q] /\ y \in free_lists[r]
      BY <2>2, <1>t, <1>e, <1>o, SizeFacts DEF IInv, NoOverlap, FreeApart, Apart
    <2>3. CASE x \in free_lists[q] /\ y \notin free_lists[r]
      BY <2>1, <2>3, <1>t, <1>e, <1>o, SizeFacts DEF IInv, NoOverlap, FreeHandApart, Apart, InHand
    <2>4. CASE x \notin free_lists[q] /\ y \in free_lists[r]
      BY <2>1, <2>4, <1>t, <1>e, <1>o, SizeFacts DEF IInv, NoOverlap, FreeHandApart, Apart, InHand
    <2> QED BY <2>1, <2>2, <2>3, <2>4
  <1>6. OwnedApart'
    BY <1>t, <1>e, <1>o, SizeFacts DEF IInv, NoOverlap, OwnedApart, Apart, OrderOf
  <1>7. HandsApart'
    <2> SUFFICES ASSUME NEW d \in CPU, NEW e \in CPU, InHand(d)', InHand(e)', d # e
                 PROVE  Apart(addr[d], order[d], addr[e], order[e])'
      BY DEF HandsApart
    <2>1. CASE d = c
      BY <2>1, <1>t, <1>e, <1>o, SizeFacts DEF IInv, NoOverlap, FreeApart, OwnedApart, HandsApart, FreeOwnedApart, FreeHandApart, OwnedHandApart, Apart, InHand
    <2>2. CASE e = c
      BY <2>2, <1>t, <1>e, <1>o, SizeFacts DEF IInv, NoOverlap, FreeApart, OwnedApart, HandsApart, FreeOwnedApart, FreeHandApart, OwnedHandApart, Apart, InHand
    <2>3. CASE d # c /\ e # c
      BY <2>3, <1>t, <1>e, <1>o, SizeFacts DEF IInv, NoOverlap, HandsApart, Apart, InHand
    <2> QED BY <2>1, <2>2, <2>3
  <1>8. FreeOwnedApart'
    <2> SUFFICES ASSUME NEW q \in Order, NEW x \in free_lists[q]', NEW d \in owned'
                 PROVE  Apart(x, q, d.addr, OrderOf(d))'
      BY DEF FreeOwnedApart
    <2>1. x \in free_lists[q] \/ (q = order[c] - 1 /\ x = addr[c] + Size[order[c] - 1])
      BY <1>t, <1>e, <1>o, SizeFacts
    <2>2. CASE x \in free_lists[q]
      BY <2>2, <1>t, <1>e, <1>o, SizeFacts DEF IInv, NoOverlap, FreeOwnedApart, Apart
    <2>3. CASE x \notin free_lists[q]
      BY <2>1, <2>3, <1>t, <1>e, <1>o, SizeFacts DEF IInv, NoOverlap, OwnedHandApart, Apart, InHand
    <2> QED BY <2>2, <2>3
  <1>9. FreeHandApart'
    <2> SUFFICES ASSUME NEW q \in Order, NEW x \in free_lists[q]', NEW e \in CPU, InHand(e)'
                 PROVE  Apart(x, q, addr[e], order[e])'
      BY DEF FreeHandApart
    <2>1. x \in free_lists[q] \/ (q = order[c] - 1 /\ x = addr[c] + Size[order[c] - 1])
      BY <1>t, <1>e, <1>o, SizeFacts
    <2>2. CASE x \in free_lists[q]
      BY <2>2, <1>t, <1>e, <1>o, SizeFacts DEF IInv, NoOverlap, FreeHandApart, Apart, InHand
    <2>3. CASE x \notin free_lists[q] /\ e # c
      BY <2>1, <2>3, <1>t, <1>e, <1>o, SizeFacts DEF IInv, NoOverlap, HandsApart, Apart, InHand
    <2>4. CASE x \notin free_lists[q] /\ e = c
      BY <2>1, <2>4, <1>t, <1>e, <1>o, SizeFacts DEF Apart, InHand
    <2> QED BY <2>2, <2>3, <2>4
  <1>10. OwnedHandApart'
    <2> SUFFICES ASSUME NEW d \in owned', NEW e \in CPU, InHand(e)'
                 PROVE  Apart(d.addr, OrderOf(d), addr[e], order[e])'
      BY DEF OwnedHandApart
    <2>1. CASE e = c
      BY <2>1, <1>t, <1>e, <1>o, SizeFacts DEF IInv, NoOverlap, FreeApart, OwnedApart, HandsApart, FreeOwnedApart, FreeHandApart, OwnedHandApart, Apart, InHand
    <2>2. CASE e # c
      BY <2>2, <1>t, <1>e, <1>o, SizeFacts DEF IInv, NoOverlap, OwnedHandApart, Apart, InHand
    <2> QED BY <2>1, <2>2
  <1>11. NoLeak'
    <2> SUFFICES ASSUME NEW q \in Int, Covered(q)
                 PROVE  Covered(q)'
      BY <1>t, <1>e DEF IInv, NoLeak, Given, Covered
    <2>1. CASE InOwned(q)
      BY <2>1, <1>e DEF InOwned, Covered
    <2>2. CASE InFree(q)
      BY <2>2, <1>t, <1>e, <1>o DEF InFree, Covered, Pages
    <2>3. ASSUME q \in Pages(addr[c], order[c])
          PROVE  Covered(q)'
      <3> DEFINE h == order[c] - 1
      <3>1. /\ h \in Order /\ Size[h] \in Nat \ {0}
            /\ q \in Pages(addr[c], h) \/ q \in Pages(addr[c] + Size[h], h)
        BY <2>3, <1>t, <1>o, SizeFacts DEF Pages
      <3>2. CASE q \in Pages(addr[c], h)
        BY <3>1, <3>2, <1>t, <1>e DEF InHands, InHand, Covered, Pages
      <3>3. CASE q \in Pages(addr[c] + Size[h], h)
        <4>1. addr[c] + Size[h] \in free_lists'[h]
          BY <3>1, <1>t, <1>e
        <4> QED BY <3>1, <3>3, <4>1 DEF InFree, Covered, Pages
      <3> QED BY <3>1, <3>2, <3>3
    <2>4. CASE InHands(q)
      BY <2>3, <2>4, <1>t, <1>e DEF InHands, InHand, Covered, Pages
    <2> QED BY <2>1, <2>2, <2>4 DEF Covered
  <1>12. Aligned'
    <2>1. addr[c] % Size[order[c] - 1] = 0 /\ (addr[c] + Size[order[c] - 1]) % Size[order[c] - 1] = 0
      <3>1. addr[c] % (2 * Size[order[c] - 1]) = 0
        BY <1>t, <1>e, <1>o DEF IInv, Aligned, InHand
      <3>2. addr[c] \in Nat /\ Size[order[c] - 1] \in Nat \ {0}
        BY <1>t, <1>o, SizeFacts
      <3> QED BY <3>1, <3>2, HalfAligned
    <2> QED BY <2>1, <1>t, <1>e, <1>o DEF IInv, Aligned, InHand
  <1> QED BY <1>1, <1>2, <1>3, <1>4, <1>5, <1>6, <1>7, <1>8, <1>9, <1>10, <1>11, <1>12 DEF IInv, NoOverlap

(* The block in hand becomes the caller's. *)
LEMMA KallocReturnInv ==
    ASSUME IInv, NEW c \in CPU, KallocReturn(c)
    PROVE  IInv'
  <1>t. /\ free_lists \in [Order -> SUBSET Nat] /\ addr \in [CPU -> Nat]
        /\ order \in [CPU -> Order] /\ region \in Nat /\ p \in Nat
        /\ \A d \in owned : d.addr \in Nat /\ OrderOf(d) \in Order
        /\ DOMAIN pc = CPU
    BY DEF IInv, TypeOK, RequestInv
  <1>e. /\ pc[c] = "split" /\ order[c] = order_for(npages[c])
        /\ owned' = owned \cup {[addr |-> addr[c], npages |-> npages[c]]}
        /\ lock' = None /\ pc' = [pc EXCEPT ![c] = "idle"]
        /\ npages' = [npages EXCEPT ![c] = 0] /\ addr' = [addr EXCEPT ![c] = 0]
        /\ order' = [order EXCEPT ![c] = 0]
        /\ UNCHANGED <<free_lists, use_lock, region, p>>
    BY DEF KallocReturn, Return, bootVars
  <1> DEFINE d == [addr |-> addr[c], npages |-> npages[c]]
  <1>o. /\ d.addr = addr[c] /\ OrderOf(d) = order[c] /\ owned' = owned \cup {d}
        /\ d \in [addr : Nat, npages : Requests]
    <2>1. npages[c] \in Requests /\ addr[c] \in Nat
      BY <1>t, <1>e DEF IInv, RequestInv
    <2> QED BY <2>1, <1>e DEF OrderOf
  <1> HIDE DEF d
  <1>1. TypeOK'
    BY <1>t, <1>e, <1>o, SizeFacts DEF IInv, RequestInv, TypeOK
  <1>2. LockInv'
    BY <1>t, <1>e, <1>o, SizeFacts, BuddyAssumption DEF IInv, TypeOK, LockInv, LockInv
  <1>3. RequestInv'
    BY <1>t, <1>e, <1>o, SizeFacts DEF IInv, TypeOK, LockInv, RequestInv, OrderOf
  <1>4. BootInv'
    BY <1>t, <1>e, <1>o, SizeFacts DEF IInv, TypeOK, LockInv, BootInv
  <1>5. FreeApart'
    BY <1>t, <1>e, <1>o, SizeFacts DEF IInv, NoOverlap, FreeApart, Apart
  <1>6. OwnedApart'
    BY <1>t, <1>e, <1>o, SizeFacts DEF IInv, NoOverlap, OwnedApart, OwnedHandApart, Apart, InHand
  <1>7. HandsApart'
    BY <1>t, <1>e, <1>o, SizeFacts DEF IInv, NoOverlap, HandsApart, Apart, InHand
  <1>8. FreeOwnedApart'
    BY <1>t, <1>e, <1>o, SizeFacts DEF IInv, NoOverlap, FreeOwnedApart, FreeHandApart, Apart, InHand
  <1>9. FreeHandApart'
    BY <1>t, <1>e, <1>o, SizeFacts DEF IInv, NoOverlap, FreeHandApart, Apart, InHand
  <1>10. OwnedHandApart'
    BY <1>t, <1>e, <1>o, SizeFacts DEF IInv, NoOverlap, HandsApart, OwnedHandApart, Apart, InHand
  <1>11. NoLeak'
    BY <1>t, <1>e, <1>o, SizeFacts DEF IInv, NoLeak, InFree, InOwned, InHands, Given, Pages, OrderOf, InHand
  <1>12. Aligned'
    BY <1>t, <1>e, <1>o, SizeFacts DEF IInv, Aligned, OrderOf, InHand
  <1> QED BY <1>1, <1>2, <1>3, <1>4, <1>5, <1>6, <1>7, <1>8, <1>9, <1>10, <1>11, <1>12 DEF IInv, NoOverlap

(* The caller's block is in the hand of the CPU that frees it. *)
LEMMA KfreeInv ==
    ASSUME IInv, NEW c \in CPU, NEW b \in owned, kfree(c, b)
    PROVE  IInv'
  <1>t. /\ free_lists \in [Order -> SUBSET Nat] /\ addr \in [CPU -> Nat]
        /\ order \in [CPU -> Order] /\ region \in Nat /\ p \in Nat
        /\ \A d \in owned : d.addr \in Nat /\ OrderOf(d) \in Order
        /\ DOMAIN pc = CPU
    BY DEF IInv, TypeOK, RequestInv
  <1>e. /\ pc[c] = "idle" /\ use_lock /\ owned' = owned \ {b}
        /\ addr' = [addr EXCEPT ![c] = b.addr]
        /\ order' = [order EXCEPT ![c] = IF OrderOf(b) >= MAX_ORDER
                                         THEN MAX_ORDER - 1 ELSE OrderOf(b)]
        /\ pc' = [pc EXCEPT ![c] = "freeSpin"]
        /\ UNCHANGED <<free_lists, lock, use_lock, region, p, npages>>
    BY DEF kfree, OrderOf, bootVars
  <1>o. OrderOf(b) \in Order /\ order' = [order EXCEPT ![c] = OrderOf(b)]
    <2>1. ~(OrderOf(b) >= MAX_ORDER)
      BY <1>t, BuddyAssumption DEF Order
    <2> QED BY <2>1, <1>t, <1>e
  <1>1. TypeOK'
    BY <1>t, <1>e, <1>o, SizeFacts DEF IInv, RequestInv, TypeOK
  <1>2. LockInv'
    BY <1>t, <1>e, <1>o, SizeFacts, BuddyAssumption DEF IInv, TypeOK, LockInv, LockInv
  <1>3. RequestInv'
    BY <1>t, <1>e, <1>o, SizeFacts DEF IInv, TypeOK, LockInv, RequestInv, OrderOf
  <1>4. BootInv'
    BY <1>t, <1>e, <1>o, SizeFacts DEF IInv, TypeOK, LockInv, BootInv
  <1>5. FreeApart'
    BY <1>t, <1>e, <1>o, SizeFacts DEF IInv, NoOverlap, FreeApart, Apart
  <1>6. OwnedApart'
    BY <1>t, <1>e, <1>o, SizeFacts DEF IInv, NoOverlap, OwnedApart, Apart, OrderOf
  <1>7. HandsApart'
    <2> SUFFICES ASSUME NEW d \in CPU, NEW e \in CPU, InHand(d)', InHand(e)', d # e
                 PROVE  Apart(addr[d], order[d], addr[e], order[e])'
      BY DEF HandsApart
    <2>1. CASE d = c
      BY <2>1, <1>t, <1>e, <1>o, SizeFacts DEF IInv, NoOverlap, FreeApart, OwnedApart, HandsApart, FreeOwnedApart, FreeHandApart, OwnedHandApart, Apart, InHand
    <2>2. CASE e = c
      BY <2>2, <1>t, <1>e, <1>o, SizeFacts DEF IInv, NoOverlap, FreeApart, OwnedApart, HandsApart, FreeOwnedApart, FreeHandApart, OwnedHandApart, Apart, InHand
    <2>3. CASE d # c /\ e # c
      BY <2>3, <1>t, <1>e, <1>o, SizeFacts DEF IInv, NoOverlap, HandsApart, Apart, InHand
    <2> QED BY <2>1, <2>2, <2>3
  <1>8. FreeOwnedApart'
    BY <1>t, <1>e, <1>o, SizeFacts DEF IInv, NoOverlap, FreeOwnedApart, Apart, OrderOf
  <1>9. FreeHandApart'
    <2> SUFFICES ASSUME NEW q \in Order, NEW x \in free_lists[q]', NEW e \in CPU, InHand(e)'
                 PROVE  Apart(x, q, addr[e], order[e])'
      BY DEF FreeHandApart
    <2>1. CASE e = c
      BY <2>1, <1>t, <1>e, <1>o, SizeFacts DEF IInv, NoOverlap, FreeApart, OwnedApart, HandsApart, FreeOwnedApart, FreeHandApart, OwnedHandApart, Apart, InHand
    <2>2. CASE e # c
      BY <2>2, <1>t, <1>e, <1>o, SizeFacts DEF IInv, NoOverlap, FreeApart, OwnedApart, HandsApart, FreeOwnedApart, FreeHandApart, OwnedHandApart, Apart, InHand
    <2> QED BY <2>1, <2>2
  <1>10. OwnedHandApart'
    <2> SUFFICES ASSUME NEW d \in owned', NEW e \in CPU, InHand(e)'
                 PROVE  Apart(d.addr, OrderOf(d), addr[e], order[e])'
      BY DEF OwnedHandApart
    <2>1. CASE e = c
      BY <2>1, <1>t, <1>e, <1>o, SizeFacts DEF IInv, NoOverlap, FreeApart, OwnedApart, HandsApart, FreeOwnedApart, FreeHandApart, OwnedHandApart, Apart, InHand
    <2>2. CASE e # c
      BY <2>2, <1>t, <1>e, <1>o, SizeFacts DEF IInv, NoOverlap, OwnedHandApart, Apart, InHand
    <2> QED BY <2>1, <2>2
  <1>11. NoLeak'
    BY <1>t, <1>e, <1>o, SizeFacts DEF IInv, NoLeak, InFree, InOwned, InHands, Given, Pages, OrderOf, InHand
  <1>12. Aligned'
    BY <1>t, <1>e, <1>o, SizeFacts DEF IInv, Aligned, OrderOf, InHand
  <1> QED BY <1>1, <1>2, <1>3, <1>4, <1>5, <1>6, <1>7, <1>8, <1>9, <1>10, <1>11, <1>12 DEF IInv, NoOverlap

(* Taking the lock changes no block. *)
LEMMA KfreeAcquireInv ==
    ASSUME IInv, NEW c \in CPU, KfreeAcquire(c)
    PROVE  IInv'
  <1>t. /\ free_lists \in [Order -> SUBSET Nat] /\ addr \in [CPU -> Nat]
        /\ order \in [CPU -> Order] /\ region \in Nat /\ p \in Nat
        /\ \A d \in owned : d.addr \in Nat /\ OrderOf(d) \in Order
        /\ DOMAIN pc = CPU
    BY DEF IInv, TypeOK, RequestInv
  <1>e. /\ pc[c] = "freeSpin" /\ lock = None
        /\ lock' = c /\ pc' = [pc EXCEPT ![c] = "merge"]
        /\ UNCHANGED <<free_lists, use_lock, region, p, owned, npages, addr, order>>
    BY DEF KfreeAcquire, bootVars
  <1>1. TypeOK'
    BY <1>t, <1>e, SizeFacts DEF IInv, RequestInv, TypeOK
  <1>2. LockInv'
    BY <1>t, <1>e, SizeFacts, BuddyAssumption DEF IInv, TypeOK, LockInv, LockInv
  <1>3. RequestInv'
    BY <1>t, <1>e, SizeFacts DEF IInv, TypeOK, LockInv, RequestInv, OrderOf
  <1>4. BootInv'
    BY <1>t, <1>e, SizeFacts DEF IInv, TypeOK, LockInv, BootInv
  <1>5. FreeApart'
    BY <1>t, <1>e, SizeFacts DEF IInv, NoOverlap, FreeApart, Apart
  <1>6. OwnedApart'
    BY <1>t, <1>e, SizeFacts DEF IInv, NoOverlap, OwnedApart, Apart, OrderOf
  <1>7. HandsApart'
    BY <1>t, <1>e, SizeFacts DEF IInv, NoOverlap, HandsApart, Apart, InHand
  <1>8. FreeOwnedApart'
    BY <1>t, <1>e, SizeFacts DEF IInv, NoOverlap, FreeOwnedApart, Apart, OrderOf
  <1>9. FreeHandApart'
    BY <1>t, <1>e, SizeFacts DEF IInv, NoOverlap, FreeHandApart, Apart, InHand
  <1>10. OwnedHandApart'
    BY <1>t, <1>e, SizeFacts DEF IInv, NoOverlap, OwnedHandApart, Apart, OrderOf, InHand
  <1>11. NoLeak'
    BY <1>t, <1>e, SizeFacts DEF IInv, NoLeak, InFree, InOwned, InHands, Given, Pages, OrderOf, InHand
  <1>12. Aligned'
    BY <1>t, <1>e, SizeFacts DEF IInv, Aligned, OrderOf, InHand
  <1> QED BY <1>1, <1>2, <1>3, <1>4, <1>5, <1>6, <1>7, <1>8, <1>9, <1>10, <1>11, <1>12 DEF IInv, NoOverlap

(* The block in hand grows by its buddy, which leaves its list. *)
LEMMA MergeInv ==
    ASSUME IInv, NEW c \in CPU, Merge(c)
    PROVE  IInv'
  <1>t. /\ free_lists \in [Order -> SUBSET Nat] /\ addr \in [CPU -> Nat]
        /\ order \in [CPU -> Order] /\ region \in Nat /\ p \in Nat
        /\ \A d \in owned : d.addr \in Nat /\ OrderOf(d) \in Order
        /\ DOMAIN pc = CPU
    BY DEF IInv, TypeOK, RequestInv
  <1> DEFINE o == order[c]
             b == BuddyOf(addr[c], o)
             m == IF b < addr[c] THEN b ELSE addr[c]
  <1>e. /\ pc[c] = "merge" /\ o < MAX_ORDER - 1 /\ b \in free_lists[o]
        /\ free_lists' = [free_lists EXCEPT ![o] = @ \ {b}]
        /\ addr' = [addr EXCEPT ![c] = m] /\ order' = [order EXCEPT ![c] = o + 1]
        /\ UNCHANGED <<lock, use_lock, region, p, owned, pc, npages>>
    BY DEF Merge, HasFreeBuddy, bootVars
  <1>o. o \in Order /\ o + 1 \in Order /\ Size[o + 1] = 2 * Size[o] /\ addr[c] % Size[o] = 0
    BY <1>t, <1>e, SizeFacts DEF IInv, Aligned, InHand
  <1>b. /\ b \in Nat /\ m \in Nat /\ m % Size[o + 1] = 0
        /\ (m = addr[c] /\ b = addr[c] + Size[o]) \/ (m = b /\ addr[c] = b + Size[o])
    BY <1>t, <1>e, <1>o, MergedBlock
  <1> HIDE DEF o, b, m
  <1>1. TypeOK'
    BY <1>t, <1>e, <1>o, <1>b, SizeFacts DEF IInv, RequestInv, TypeOK
  <1>2. LockInv'
    BY <1>t, <1>e, <1>o, <1>b, SizeFacts, BuddyAssumption DEF IInv, TypeOK, LockInv, LockInv
  <1>3. RequestInv'
    BY <1>t, <1>e, <1>o, <1>b, SizeFacts DEF IInv, TypeOK, LockInv, RequestInv, OrderOf
  <1>4. BootInv'
    <2>1. ASSUME ~use_lock
          PROVE  c = BSP /\ m + Size[o + 1] <= p
      <3>1. c = BSP /\ addr[c] + Size[o] <= p /\ b + Size[o] <= p
        BY <2>1, <1>t, <1>e, <1>o DEF IInv, LockInv, BootInv, o
      <3> QED BY <3>1, <1>t, <1>o, <1>b, SizeFacts
    <2> QED BY <2>1, <1>t, <1>e, <1>o DEF IInv, BootInv
  <1>5. FreeApart'
    BY <1>t, <1>e, <1>o, <1>b, SizeFacts DEF IInv, NoOverlap, FreeApart, Apart
  <1>6. OwnedApart'
    BY <1>t, <1>e, <1>o, <1>b, SizeFacts DEF IInv, NoOverlap, OwnedApart, Apart, OrderOf
  <1>7. HandsApart'
    <2> SUFFICES ASSUME NEW d \in CPU, NEW e \in CPU, InHand(d)', InHand(e)', d # e
                 PROVE  Apart(addr[d], order[d], addr[e], order[e])'
      BY DEF HandsApart
    <2>1. ASSUME NEW f \in CPU, f # c, InHand(f)
          PROVE  Apart(addr[f], order[f], m, o + 1) /\ Apart(m, o + 1, addr[f], order[f])
      <3>1. Apart(addr[f], order[f], addr[c], o)
        BY <2>1, <1>t, <1>e DEF IInv, NoOverlap, HandsApart, InHand, o
      <3>2. Apart(b, o, addr[f], order[f])
        BY <2>1, <1>t, <1>e, <1>o DEF IInv, NoOverlap, FreeHandApart
      <3> QED BY <3>1, <3>2, <1>t, <1>o, <1>b, MergedApart
    <2>2. InHand(d) /\ InHand(e)
      BY <1>e DEF InHand
    <2>3. CASE d = c
      BY <2>1, <2>2, <2>3, <1>t, <1>e DEF Apart
    <2>4. CASE e = c
      BY <2>1, <2>2, <2>4, <1>t, <1>e DEF Apart
    <2>5. CASE d # c /\ e # c
      BY <2>2, <2>5, <1>t, <1>e DEF IInv, NoOverlap, HandsApart, Apart
    <2> QED BY <2>3, <2>4, <2>5
  <1>8. FreeOwnedApart'
    BY <1>t, <1>e, <1>o, <1>b, SizeFacts DEF IInv, NoOverlap, FreeOwnedApart, Apart, OrderOf
  <1>9. FreeHandApart'
    <2> SUFFICES ASSUME NEW q \in Order, NEW x \in free_lists[q]', NEW e \in CPU, InHand(e)'
                 PROVE  Apart(x, q, addr[e], order[e])'
      BY DEF FreeHandApart
    <2>1. x \in free_lists[q] /\ ~(q = o /\ x = b) /\ x \in Nat
      BY <1>t, <1>e, <1>o
    <2>2. CASE e = c
      <3>1. Apart(x, q, addr[c], o)
        BY <2>1, <1>t, <1>e DEF IInv, NoOverlap, FreeHandApart, InHand, o
      <3>2. Apart(x, q, b, o)
        BY <2>1, <1>t, <1>e, <1>o DEF IInv, NoOverlap, FreeApart
      <3>3. Apart(x, q, m, o + 1)
        BY <3>1, <3>2, <2>1, <1>t, <1>o, <1>b, MergedApart
      <3> QED BY <3>3, <2>2, <1>t, <1>e DEF Apart
    <2>3. CASE e # c
      BY <2>1, <2>3, <1>t, <1>e DEF IInv, NoOverlap, FreeHandApart, Apart, InHand
    <2> QED BY <2>2, <2>3
  <1>10. OwnedHandApart'
    <2> SUFFICES ASSUME NEW d \in owned', NEW e \in CPU, InHand(e)'
                 PROVE  Apart(d.addr, OrderOf(d), addr[e], order[e])'
      BY DEF OwnedHandApart
    <2>1. d \in owned /\ d.addr \in Nat /\ OrderOf(d) \in Order
      BY <1>t, <1>e
    <2>2. CASE e = c
      <3>1. Apart(d.addr, OrderOf(d), addr[c], o)
        BY <2>1, <1>t, <1>e DEF IInv, NoOverlap, OwnedHandApart, InHand, o
      <3>2. Apart(b, o, d.addr, OrderOf(d))
        BY <2>1, <1>t, <1>e, <1>o DEF IInv, NoOverlap, FreeOwnedApart
      <3>3. Apart(d.addr, OrderOf(d), m, o + 1)
        BY <3>1, <3>2, <2>1, <1>t, <1>o, <1>b, MergedApart
      <3> QED BY <3>3, <2>2, <1>t, <1>e DEF Apart
    <2>3. CASE e # c
      BY <2>1, <2>3, <1>t, <1>e DEF IInv, NoOverlap, OwnedHandApart, Apart, InHand
    <2> QED BY <2>2, <2>3
  <1>11. NoLeak'
    <2> SUFFICES ASSUME NEW q \in Int, Covered(q)
                 PROVE  Covered(q)'
      BY <1>t, <1>e DEF IInv, NoLeak, Given, Covered
    <2>1. CASE InOwned(q)
      BY <2>1, <1>e DEF InOwned, Covered
    <2>2. ASSUME q \in Pages(addr[c], o) \/ q \in Pages(b, o)
          PROVE  InHands(q)'
      <3>1. q \in Pages(m, o + 1)
        BY <2>2, <1>t, <1>o, <1>b, SizeFacts DEF Pages
      <3> QED BY <3>1, <1>t, <1>e DEF InHands, InHand, Pages
    <2>3. CASE InFree(q)
      BY <2>2, <2>3, <1>t, <1>e, <1>o DEF InFree, Covered, Pages
    <2>4. CASE InHands(q)
      BY <2>2, <2>4, <1>t, <1>e DEF InHands, InHand, Covered, Pages, o
    <2> QED BY <2>1, <2>3, <2>4 DEF Covered
  <1>12. Aligned'
    BY <1>t, <1>e, <1>o, <1>b, SizeFacts DEF IInv, Aligned, OrderOf, InHand
  <1> QED BY <1>1, <1>2, <1>3, <1>4, <1>5, <1>6, <1>7, <1>8, <1>9, <1>10, <1>11, <1>12 DEF IInv, NoOverlap

(* The block in hand goes to a list. *)
LEMMA InsertInv ==
    ASSUME IInv, NEW c \in CPU, Insert(c)
    PROVE  IInv'
  <1>t. /\ free_lists \in [Order -> SUBSET Nat] /\ addr \in [CPU -> Nat]
        /\ order \in [CPU -> Order] /\ region \in Nat /\ p \in Nat
        /\ \A d \in owned : d.addr \in Nat /\ OrderOf(d) \in Order
        /\ DOMAIN pc = CPU
    BY DEF IInv, TypeOK, RequestInv
  <1>e. /\ pc[c] = "merge"
        /\ free_lists' = [free_lists EXCEPT ![order[c]] = @ \cup {addr[c]}]
        /\ lock' = IF use_lock THEN None ELSE lock
        /\ pc' = [pc EXCEPT ![c] = IF use_lock THEN "idle" ELSE "boot"]
        /\ npages' = [npages EXCEPT ![c] = 0] /\ addr' = [addr EXCEPT ![c] = 0]
        /\ order' = [order EXCEPT ![c] = 0]
        /\ UNCHANGED <<use_lock, region, p, owned>>
    BY DEF Insert, Return, bootVars
  <1>1. TypeOK'
    BY <1>t, <1>e, SizeFacts DEF IInv, RequestInv, TypeOK
  <1>2. LockInv'
    BY <1>t, <1>e, SizeFacts, BuddyAssumption DEF IInv, TypeOK, LockInv, LockInv
  <1>3. RequestInv'
    BY <1>t, <1>e, SizeFacts DEF IInv, TypeOK, LockInv, RequestInv, OrderOf
  <1>4. BootInv'
    BY <1>t, <1>e, SizeFacts DEF IInv, TypeOK, LockInv, BootInv
  <1>5. FreeApart'
    <2> SUFFICES ASSUME NEW q \in Order, NEW r \in Order,
                        NEW x \in free_lists[q]', NEW y \in free_lists[r]', ~(q = r /\ x = y)
                 PROVE  Apart(x, q, y, r)'
      BY DEF FreeApart
    <2>1. /\ x \in free_lists[q] \/ (q = order[c] /\ x = addr[c])
          /\ y \in free_lists[r] \/ (r = order[c] /\ y = addr[c])
      BY <1>t, <1>e, SizeFacts
    <2>2. CASE x \in free_lists[q] /\ y \in free_lists[r]
      BY <2>2, <1>t, <1>e, SizeFacts DEF IInv, NoOverlap, FreeApart, Apart
    <2>3. CASE x \in free_lists[q] /\ y \notin free_lists[r]
      BY <2>1, <2>3, <1>t, <1>e, SizeFacts DEF IInv, NoOverlap, FreeHandApart, Apart, InHand
    <2>4. CASE x \notin free_lists[q] /\ y \in free_lists[r]
      BY <2>1, <2>4, <1>t, <1>e, SizeFacts DEF IInv, NoOverlap, FreeHandApart, Apart, InHand
    <2> QED BY <2>1, <2>2, <2>3, <2>4
  <1>6. OwnedApart'
    BY <1>t, <1>e, SizeFacts DEF IInv, NoOverlap, OwnedApart, Apart, OrderOf
  <1>7. HandsApart'
    BY <1>t, <1>e, SizeFacts DEF IInv, NoOverlap, HandsApart, Apart, InHand
  <1>8. FreeOwnedApart'
    <2> SUFFICES ASSUME NEW q \in Order, NEW x \in free_lists[q]', NEW d \in owned'
                 PROVE  Apart(x, q, d.addr, OrderOf(d))'
      BY DEF FreeOwnedApart
    <2>1. x \in free_lists[q] \/ (q = order[c] /\ x = addr[c])
      BY <1>t, <1>e, SizeFacts
    <2>2. CASE x \in free_lists[q]
      BY <2>2, <1>t, <1>e, SizeFacts DEF IInv, NoOverlap, FreeOwnedApart, Apart
    <2>3. CASE x \notin free_lists[q]
      BY <2>1, <2>3, <1>t, <1>e, SizeFacts DEF IInv, NoOverlap, OwnedHandApart, Apart, InHand
    <2> QED BY <2>2, <2>3
  <1>9. FreeHandApart'
    <2> SUFFICES ASSUME NEW q \in Order, NEW x \in free_lists[q]', NEW e \in CPU, InHand(e)'
                 PROVE  Apart(x, q, addr[e], order[e])'
      BY DEF FreeHandApart
    <2>1. x \in free_lists[q] \/ (q = order[c] /\ x = addr[c])
      BY <1>t, <1>e, SizeFacts
    <2>2. CASE x \in free_lists[q]
      BY <2>2, <1>t, <1>e, SizeFacts DEF IInv, NoOverlap, FreeHandApart, Apart, InHand
    <2>3. CASE x \notin free_lists[q] /\ e # c
      BY <2>1, <2>3, <1>t, <1>e, SizeFacts DEF IInv, NoOverlap, HandsApart, Apart, InHand
    <2>4. CASE x \notin free_lists[q] /\ e = c
      BY <2>1, <2>4, <1>t, <1>e, SizeFacts DEF Apart, InHand
    <2> QED BY <2>2, <2>3, <2>4
  <1>10. OwnedHandApart'
    BY <1>t, <1>e, SizeFacts DEF IInv, NoOverlap, OwnedHandApart, Apart, OrderOf, InHand
  <1>11. NoLeak'
    BY <1>t, <1>e, SizeFacts DEF IInv, NoLeak, InFree, InOwned, InHands, Given, Pages, OrderOf, InHand
  <1>12. Aligned'
    BY <1>t, <1>e, SizeFacts DEF IInv, Aligned, OrderOf, InHand
  <1> QED BY <1>1, <1>2, <1>3, <1>4, <1>5, <1>6, <1>7, <1>8, <1>9, <1>10, <1>11, <1>12 DEF IInv, NoOverlap

-----------------------------------------------------------------------------
(* The invariant holds when the kernel starts. *)
LEMMA InitInv == Init => IInv
  <1> SUFFICES ASSUME Init PROVE IInv
    OBVIOUS
  <1>1. TypeOK
    <2>1. region \in 0..Len(Regions) /\ p \in Nat
      BY PageFacts DEF Init
    <2>2. order \in [CPU -> Order] /\ addr \in [CPU -> Nat] /\ npages \in [CPU -> Nat]
      BY SizeFacts DEF Init
    <2>3. pc \in [CPU -> {"boot", "idle", "allocSpin", "split", "freeSpin", "merge"}]
      BY DEF Init
    <2> QED BY <2>1, <2>2, <2>3 DEF Init, TypeOK
  <1>2. LockInv /\ RequestInv /\ BootInv
    <2>1. LockInv
      BY DEF Init, LockInv
    <2>2. RequestInv
      BY DEF Init, RequestInv
    <2>3. BootInv
      BY BuddyAssumption DEF Init, BootInv
    <2> QED BY <2>1, <2>2, <2>3
  <1>3. NoOverlap
    BY DEF Init, NoOverlap, FreeApart, OwnedApart, HandsApart, FreeOwnedApart, FreeHandApart,
           OwnedHandApart, InHand
  <1>4. NoLeak /\ Aligned
    BY DEF Init, NoLeak, Aligned, InHand
  <1> QED BY <1>1, <1>2, <1>3, <1>4 DEF IInv

(* Every step of the allocator preserves the invariant. *)
LEMMA NextInv == IInv /\ [Next]_vars => IInv'
  <1> SUFFICES ASSUME IInv, [Next]_vars PROVE IInv'
    OBVIOUS
  <1>1. CASE UNCHANGED vars
    BY <1>1 DEF vars, bootVars, IInv, TypeOK, LockInv, RequestInv, BootInv, NoOverlap, FreeApart,
        OwnedApart, HandsApart, FreeOwnedApart, FreeHandApart, OwnedHandApart, NoLeak, InFree,
        InOwned, InHands, Given, Aligned, InHand
  <1>2. CASE Next
    <2> PICK c \in CPU :
          \/ Boot(c) \/ Inside(c)
          \/ \E n \in Requests : kalloc(c, n)
          \/ \E b \in owned : kfree(c, b)
      BY <1>2 DEF Next
    <2>1. CASE Boot(c)
      BY <2>1, FreeRangeStartInv, FreeRangeBlockInv, EnableLockInv DEF Boot
    <2>2. CASE Inside(c)
      BY <2>2, KallocPopInv, KallocFullInv, KallocSplitInv, KallocReturnInv, KfreeAcquireInv,
         MergeInv, InsertInv DEF Inside
    <2>3. CASE \E n \in Requests : kalloc(c, n)
      BY <2>3, KallocInv
    <2>4. CASE \E b \in owned : kfree(c, b)
      BY <2>4, KfreeInv
    <2> QED BY <2>1, <2>2, <2>3, <2>4
  <1> QED BY <1>1, <1>2

(* The inductive invariant of the allocator holds in every reachable state *)
(* of kalloc, kfree and freerange.                                         *)
THEOREM BuddyInvariance == Spec => []IInv
  BY InitInv, NextInv, PTL DEF Spec

(* No page is in two blocks, whatever sequence of kalloc and kfree the     *)
(* CPUs run: kalloc never returns memory that is in use.                   *)
THEOREM BuddyNoOverlap == Spec => []NoOverlap
  <1>1. IInv => NoOverlap
    BY DEF IInv
  <1> QED BY <1>1, BuddyInvariance, PTL

(* No page that freerange was given is ever lost by splitting and merging. *)
THEOREM BuddyNoLeak == Spec => []NoLeak
  <1>1. IInv => NoLeak
    BY DEF IInv
  <1> QED BY <1>1, BuddyInvariance, PTL

(* Every block kalloc returns is aligned to its size. *)
THEOREM BuddyAligned == Spec => []Aligned
  <1>1. IInv => Aligned
    BY DEF IInv
  <1> QED BY <1>1, BuddyInvariance, PTL

-----------------------------------------------------------------------------
(* Coalescing *)

(* At every moment, inside the critical section too, no list below the     *)
(* largest order holds a block and its buddy.                              *)
Merged == \A o \in 0..(MAX_ORDER - 2) : \A a \in free_lists[o] : BuddyOf(a, o) \notin free_lists[o]

(* A product divided by its factor. *)
LEMMA ProductDiv ==
    ASSUME NEW k \in Nat, NEW m \in Nat \ {0}
    PROVE  (m * k) \div m = k
  <1>1. (m * k) % m = 0 /\ m * k \in Nat
    BY MultipleMod
  <1> DEFINE a == m * k
             q == a \div m
  <1>2. q \in Nat /\ a = m * q
    <2> HIDE DEF a
    <2> QED BY <1>1, Quotient DEF a
  <1>3. m * k = m * q
    BY <1>2
  <1> HIDE DEF q, a
  <1>4. k = q
    <2>1. k < q => m * k < m * q
      BY <1>2
    <2>2. q < k => m * q < m * k
      BY <1>2
    <2>3. m * k \in Nat /\ m * q \in Nat
      BY <1>2
    <2> QED BY <1>2, <1>3, <2>1, <2>2, <2>3
  <1> QED BY <1>4 DEF q, a

(* The xor is its own inverse on aligned addresses. *)
LEMMA BuddyTwice ==
    ASSUME NEW a \in Nat, NEW o \in Order, a % Size[o] = 0
    PROVE  /\ BuddyOf(a, o) \in Nat /\ BuddyOf(BuddyOf(a, o), o) = a
           /\ BuddyOf(a, o) # a /\ BuddyOf(a, o) % Size[o] = 0
  <1> DEFINE s == Size[o]
  <1>1. s \in Nat \ {0}
    BY SizeFacts
  <1>2. PICK k \in Nat : a = s * k /\ a \div s = k
    BY <1>1, Quotient
  <1>3. CASE k % 2 = 0
    <2>1. BuddyOf(a, o) = a + s
      BY <1>2, <1>3 DEF BuddyOf
    <2>2. k + 1 \in Nat /\ (k + 1) % 2 # 0
      BY <1>3
    <2>3. a + s = s * (k + 1) /\ a + s \in Nat
      BY <1>1, <1>2
    <2> HIDE DEF s
    <2>4. (a + s) \div s = k + 1 /\ (a + s) % s = 0
      <3>1. (s * (k + 1)) \div s = k + 1
        BY <1>1, <2>2, ProductDiv
      <3>2. (s * (k + 1)) % s = 0
        BY <1>1, <2>2, MultipleMod
      <3> QED BY <2>3, <3>1, <3>2
    <2>5. BuddyOf(a + s, o) = (a + s) - s
      BY <2>2, <2>4 DEF BuddyOf, s
    <2>6. (a + s) - s = a /\ a + s # a
      BY <1>1
    <2> QED BY <2>1, <2>3, <2>4, <2>5, <2>6 DEF s
  <1>4. CASE k % 2 # 0
    <2>1. BuddyOf(a, o) = a - s
      BY <1>2, <1>4 DEF BuddyOf
    <2>2. PICK j \in Nat : k = 2 * j + 1
      BY <1>4, OddNumber
    <2>3. k - 1 \in Nat /\ (k - 1) % 2 = 0
      BY <2>2
    <2>4. a - s = s * (k - 1) /\ a - s \in Nat
      <3>1. s * k = s * (k - 1) + s /\ s * (k - 1) \in Nat
        BY <1>1, <2>3
      <3> HIDE DEF s
      <3> QED BY <3>1, <1>1, <1>2
    <2> HIDE DEF s
    <2>5. (a - s) \div s = k - 1 /\ (a - s) % s = 0
      BY <1>1, <2>3, <2>4, ProductDiv, MultipleMod
    <2>6. BuddyOf(a - s, o) = (a - s) + s
      BY <2>3, <2>5 DEF BuddyOf, s
    <2>7. (a - s) + s = a /\ a - s # a
      BY <1>1
    <2> QED BY <2>1, <2>4, <2>5, <2>6, <2>7 DEF s
  <1> QED BY <1>3, <1>4

(* The halves of a block are buddies. *)
LEMMA HalvesAreBuddies ==
    ASSUME NEW a \in Nat, NEW o \in Order, o + 1 \in Order, a % Size[o + 1] = 0
    PROVE  (a + Size[o]) % Size[o] = 0 /\ BuddyOf(a + Size[o], o) = a
  <1> DEFINE s == Size[o]
  <1>1. s \in Nat \ {0} /\ Size[o + 1] = 2 * s
    BY SizeFacts, BuddyAssumption
  <1>2. PICK k \in Nat : a = (2 * s) * k
    <2>1. 2 * s \in Nat \ {0} /\ a % (2 * s) = 0
      BY <1>1
    <2> HIDE DEF s
    <2> QED BY <2>1, Quotient
  <1>3. a % s = 0
    <2> HIDE DEF s
    <2>1. a % (2 * s) = 0
      BY <1>1
    <2> QED BY <1>1, <2>1, HalfAligned
  <1>4. a \div s = 2 * k
    <2> HIDE DEF s
    <2>1. a = s * (2 * k) /\ 2 * k \in Nat
      BY <1>1, <1>2
    <2> QED BY <1>1, <2>1, ProductDiv
  <1>5. BuddyOf(a, o) = a + s
    BY <1>4 DEF BuddyOf
  <1> QED BY <1>3, <1>5, BuddyTwice

(* Blocks taken off the lists. *)
LEMMA MergedLess ==
    ASSUME Merged, \A o \in Order : free_lists'[o] \subseteq free_lists[o]
    PROVE  Merged'
  <1>1. \A o \in 0..(MAX_ORDER - 2) : o \in Order
    BY BuddyAssumption DEF Order
  <1> QED BY <1>1 DEF Merged

(* A block put on a list, whose buddy is not on it. *)
LEMMA MergedMore ==
    ASSUME TypeOK, Aligned, Merged, NEW o \in Order, NEW x \in Nat, x % Size[o] = 0,
           o < MAX_ORDER - 1 => BuddyOf(x, o) \notin free_lists[o],
           free_lists' = [free_lists EXCEPT ![o] = @ \cup {x}]
    PROVE  Merged'
  <1> SUFFICES ASSUME NEW q \in 0..(MAX_ORDER - 2), NEW a \in free_lists'[q],
                      BuddyOf(a, q) \in free_lists'[q]
               PROVE  FALSE
    BY DEF Merged
  <1>1. q \in Order /\ free_lists \in [Order -> SUBSET Nat]
    BY BuddyAssumption DEF Order, TypeOK
  <1>2. CASE q # o
    BY <1>1, <1>2 DEF Merged
  <1>3. CASE q = o
    <2>1. free_lists'[q] = free_lists[q] \cup {x} /\ o < MAX_ORDER - 1
      BY <1>1, <1>3, BuddyAssumption DEF Order
    <2>2. CASE a = x
      BY <2>1, <2>2, <1>3, BuddyTwice
    <2>3. CASE a \in free_lists[q]
      <3>1. a \in Nat /\ a % Size[q] = 0
        BY <2>3, <1>1 DEF Aligned
      <3>2. BuddyOf(BuddyOf(a, q), q) = a
        BY <3>1, <1>1, BuddyTwice
      <3>3. BuddyOf(a, q) = x
        BY <2>1, <2>3 DEF Merged
      <3> QED BY <2>1, <2>3, <3>2, <3>3, <1>3
    <2> QED BY <2>1, <2>2, <2>3
  <1> QED BY <1>2, <1>3

LEMMA MergedStep ==
    ASSUME IInv, Merged, [Next]_vars
    PROVE  Merged'
  <1>t. TypeOK /\ Aligned /\ free_lists \in [Order -> SUBSET Nat] /\ addr \in [CPU -> Nat]
        /\ order \in [CPU -> Order]
    BY DEF IInv, TypeOK
  <1>1. CASE UNCHANGED free_lists
    BY <1>1, MergedLess
  <1>2. ASSUME NEW c \in CPU, KallocPop(c)
        PROVE  Merged'
    <2>1. \A o \in Order : free_lists'[o] \subseteq free_lists[o]
      BY <1>2, <1>t DEF KallocPop
    <2> QED BY <2>1, MergedLess
  <1>3. ASSUME NEW c \in CPU, Merge(c)
        PROVE  Merged'
    <2>1. \A o \in Order : free_lists'[o] \subseteq free_lists[o]
      BY <1>3, <1>t DEF Merge
    <2> QED BY <2>1, MergedLess
  <1>4. ASSUME NEW c \in CPU, Insert(c)
        PROVE  Merged'
    <2>1. pc[c] = "merge" /\ ~HasFreeBuddy(c)
          /\ free_lists' = [free_lists EXCEPT ![order[c]] = @ \cup {addr[c]}]
      BY <1>4 DEF Insert
    <2>2. order[c] \in Order /\ addr[c] \in Nat /\ addr[c] % Size[order[c]] = 0
      BY <2>1, <1>t DEF Aligned, InHand
    <2>3. order[c] < MAX_ORDER - 1 => BuddyOf(addr[c], order[c]) \notin free_lists[order[c]]
      BY <2>1 DEF HasFreeBuddy
    <2> QED BY <2>1, <2>2, <2>3, <1>t, MergedMore
  <1>5. ASSUME NEW c \in CPU, KallocSplit(c)
        PROVE  Merged'
    <2> DEFINE o == order[c] - 1
               x == addr[c] + Size[o]
    <2>1. /\ pc[c] = "split" /\ order[c] > order_for(npages[c]) /\ order_for(npages[c]) \in Order
          /\ free_lists' = [free_lists EXCEPT ![o] = @ \cup {x}]
      BY <1>5 DEF KallocSplit, IInv, RequestInv
    <2>2. addr[c] \in Nat /\ addr[c] % Size[order[c]] = 0
      BY <2>1, <1>t DEF Aligned, InHand
    <2>3. o \in Order /\ o + 1 = order[c] /\ o + 1 \in Order /\ order[c] \in Order
      BY <2>1, <1>t, SizeFacts
    <2>4. x \in Nat /\ Size[o] \in Nat \ {0} /\ Size[order[c]] \in Nat \ {0}
      BY <2>2, <2>3, SizeFacts
    <2>5. x % Size[o] = 0 /\ BuddyOf(x, o) = addr[c]
      <3> HIDE DEF o
      <3> QED BY <2>2, <2>3, HalvesAreBuddies
    <2>6. addr[c] \notin free_lists[o]
      <3>1. InHand(c)
        BY <2>1 DEF InHand
      <3> HIDE DEF o
      <3> QED BY <3>1, <2>2, <2>3, <2>4 DEF IInv, NoOverlap, FreeHandApart, Apart
    <2> HIDE DEF o, x
    <2> QED BY <2>1, <2>3, <2>4, <2>5, <2>6, <1>t, MergedMore
  <1>6. CASE Next
    <2> PICK c \in CPU :
          \/ Boot(c) \/ Inside(c)
          \/ \E n \in Requests : kalloc(c, n)
          \/ \E b \in owned : kfree(c, b)
      BY <1>6 DEF Next
    <2>1. CASE Boot(c)
      BY <2>1, <1>1 DEF Boot, FreeRangeStart, FreeRangeBlock, buddy_enable_lock
    <2>2. CASE Inside(c)
      BY <2>2, <1>1, <1>2, <1>3, <1>4, <1>5 DEF Inside, KallocFull, KallocReturn, KfreeAcquire
    <2>3. CASE \E n \in Requests : kalloc(c, n)
      BY <2>3, <1>1 DEF kalloc
    <2>4. CASE \E b \in owned : kfree(c, b)
      BY <2>4, <1>1 DEF kfree
    <2> QED BY <2>1, <2>2, <2>3, <2>4
  <1> QED BY <1>1, <1>6 DEF vars

LEMMA MergedInvariance == Spec => []Merged
  <1>1. Init => Merged
    BY BuddyAssumption DEF Init, Merged, Order
  <1> QED BY <1>1, BuddyInvariance, MergedStep, PTL DEF Spec

(* kfree and freerange merge all there is to merge, and kalloc leaves no   *)
(* two halves of a block on a list.                                        *)
THEOREM BuddyCoalesced == Spec => []Coalesced
  <1>1. Merged => Coalesced
    BY DEF Merged, Coalesced
  <1> QED BY <1>1, MergedInvariance, PTL

-----------------------------------------------------------------------------
(* What coalescing is worth: an aligned run of free pages lies in a block  *)
(* of at least its size.                                                   *)

(* A block is a whole number of blocks of any smaller order. *)
LEMMA SizeDivides ==
    ASSUME NEW o \in Order, NEW q \in Order, o <= q
    PROVE  \E m \in Nat \ {0} : Size[q] = Size[o] * m
  <1> DEFINE Whole(i) == \E m \in Nat \ {0} : Size[i] = Size[o] * m
             Bad == {i \in Order : o <= i /\ ~Whole(i)}
  <1>1. SUFFICES ASSUME Bad # {} PROVE FALSE
    BY <1>1
  <1>2. PICK i \in Bad : \A j \in Bad : i <= j
    <2>1. Bad \subseteq Nat
      BY SizeFacts
    <2> HIDE DEF Bad
    <2> QED BY <1>1, <2>1, LeastExists
  <1>3. i \in Order /\ o <= i /\ ~Whole(i)
    BY <1>2
  <1>4. i # o
    <2>1. Size[o] = Size[o] * 1 /\ 1 \in Nat \ {0}
      BY SizeFacts
    <2> QED BY <2>1, <1>3
  <1>5. i - 1 \in Order /\ o <= i - 1 /\ Size[i] = 2 * Size[i - 1] /\ i - 1 < i
    BY <1>3, <1>4, SizeFacts
  <1>6. Whole(i - 1)
    BY <1>2, <1>3, <1>5, SizeFacts
  <1>7. PICK m \in Nat \ {0} : Size[i - 1] = Size[o] * m
    BY <1>6
  <1>8. 2 * m \in Nat \ {0} /\ Size[o] \in Nat /\ 2 * (Size[o] * m) = Size[o] * (2 * m)
    BY SizeFacts
  <1> QED BY <1>3, <1>5, <1>7, <1>8

(* Two multiples are equal or a whole block apart. *)
LEMMA MultiplesApart ==
    ASSUME NEW s \in Nat \ {0}, NEW i \in Nat, NEW j \in Nat, s * i < s * j
    PROVE  s * i + s <= s * j
  <1>1. i < j
    <2>1. j <= i => s * j <= s * i
      OBVIOUS
    <2>2. s * i \in Nat /\ s * j \in Nat
      OBVIOUS
    <2> QED BY <2>1, <2>2
  <1>2. s * (i + 1) <= s * j
    <2>1. i + 1 <= j
      BY <1>1
    <2> QED BY <2>1
  <1>3. s * (i + 1) = s * i + s
    OBVIOUS
  <1> QED BY <1>2, <1>3

(* An aligned address is a multiple of every smaller block size. *)
LEMMA AlignedBelow ==
    ASSUME NEW o \in Order, NEW q \in Order, o <= q, NEW b \in Nat, b % Size[q] = 0
    PROVE  \E i, j \in Nat : b = Size[o] * i /\ b + Size[q] = Size[o] * j
  <1>1. PICK m \in Nat \ {0} : Size[q] = Size[o] * m
    BY SizeDivides
  <1>2. Size[o] \in Nat \ {0} /\ Size[q] \in Nat \ {0}
    BY SizeFacts
  <1>3. PICK k \in Nat : b = Size[q] * k
    BY <1>2, Quotient
  <1> DEFINE s == Size[o]
  <1>4. b = (s * m) * k /\ s \in Nat
    BY <1>1, <1>2, <1>3
  <1> HIDE DEF s
  <1>5. (s * m) * k = s * (m * k) /\ s * (m * k) + s * m = s * (m * k + m)
    BY <1>4
  <1>6. m * k \in Nat /\ m * k + m \in Nat
    OBVIOUS
  <1>7. b = s * (m * k) /\ b + s * m = s * (m * k + m)
    BY <1>4, <1>5
  <1> QED BY <1>1, <1>6, <1>7 DEF s

(* Aligned blocks that share a page are one inside the other. *)
LEMMA Nested ==
    ASSUME NEW o \in Order, NEW q \in Order, o <= q, NEW a \in Nat, NEW b \in Nat,
           a % Size[o] = 0, b % Size[q] = 0,
           NEW x, x \in Pages(a, o), x \in Pages(b, q)
    PROVE  b <= a /\ a + Size[o] <= b + Size[q]
  <1> DEFINE s == Size[o]
             t == Size[q]
  <1>1. s \in Nat \ {0} /\ t \in Nat \ {0}
    BY SizeFacts
  <1>2. PICK i \in Nat, i1 \in Nat : a = s * i /\ a + s = s * i1
    <2>1. o <= o
      BY SizeFacts
    <2> QED BY <2>1, AlignedBelow
  <1>3. PICK j \in Nat, j1 \in Nat : b = s * j /\ b + t = s * j1
    BY AlignedBelow
  <1>4. x \in a..(a + s - 1) /\ x \in b..(b + t - 1)
    BY DEF Pages
  <1> HIDE DEF s, t
  <1>5. a < b + t /\ b < a + s
    BY <1>1, <1>4
  <1>6. a + s <= b + t
    <2>1. s * i < s * j1
      BY <1>2, <1>3, <1>5
    <2>2. s * i + s <= s * j1
      BY <2>1, <1>1, MultiplesApart
    <2> QED BY <2>2, <1>2, <1>3
  <1>7. b + s <= a + s
    <2>1. s * j < s * i1
      BY <1>2, <1>3, <1>5
    <2>2. s * j + s <= s * i1
      BY <2>1, <1>1, MultiplesApart
    <2> QED BY <2>2, <1>2, <1>3
  <1>8. b <= a
    BY <1>7, <1>1
  <1> QED BY <1>6, <1>8 DEF s, t

(* With the lists coalesced and no block of order k or more on them, no    *)
(* aligned run of as many free pages is left: the smallest block in such a *)
(* run would lie beside its free buddy.                                    *)
LEMMA NoRun ==
    ASSUME IInv, Merged, NEW k \in Order, NEW a \in Nat, a % Size[k] = 0,
           \A o \in Order : o >= k => free_lists[o] = {},
           \A x \in Pages(a, k) : InFree(x)
    PROVE  FALSE
  <1>t. /\ free_lists \in [Order -> SUBSET Nat]
        /\ \A o \in Order : \A y \in free_lists[o] : y \in Nat /\ y % Size[o] = 0
        /\ FreeApart
    BY DEF IInv, TypeOK, Aligned, NoOverlap
  <1>s. \A o \in Order : Size[o] \in Nat \ {0} /\ o \in Nat
    BY SizeFacts
  <1>f. \A o \in Order : \A y \in free_lists[o] : o < k
    BY <1>s
  <1>1. ASSUME NEW o \in Order, NEW y \in free_lists[o], NEW x \in Pages(a, k), x \in Pages(y, o)
        PROVE  a <= y /\ y + Size[o] <= a + Size[k]
    <2>1. o <= k
      BY <1>f, <1>s
    <2> QED BY <2>1, <1>t, <1>1, Nested
  <1> DEFINE Touch == {o \in Order : \E y \in free_lists[o] : y \in Pages(a, k)}
  <1>2. a \in Pages(a, k)
    BY <1>s DEF Pages
  <1>3. PICK o \in Touch : \A q \in Touch : o <= q
    <2>1. PICK o \in Order : \E y \in free_lists[o] : a \in Pages(y, o)
      BY <1>2 DEF InFree
    <2>4. PICK y \in free_lists[o] : a \in Pages(y, o)
      BY <2>1
    <2>2. y \in Pages(a, k)
      BY <2>4, <1>1, <1>2, <1>s, <1>t DEF Pages
    <2>3. Touch # {} /\ Touch \subseteq Nat
      BY <2>4, <2>2, <1>s
    <2> HIDE DEF Touch
    <2> QED BY <2>3, LeastExists
  <1>4. PICK y \in free_lists[o] : y \in Pages(a, k)
    BY <1>3
  <1>5. o \in Order /\ o < k /\ o < MAX_ORDER - 1 /\ o \in 0..(MAX_ORDER - 2)
    <2>1. o \in Order /\ o < k /\ o \in Nat /\ k \in Nat
      BY <1>3, <1>4, <1>f, <1>s
    <2>2. k <= MAX_ORDER - 1
      BY BuddyAssumption DEF Order
    <2> QED BY <2>1, <2>2, BuddyAssumption
  <1>6. o + 1 \in Order /\ Size[o + 1] = 2 * Size[o] /\ o + 1 <= k /\ y \in Nat /\ y % Size[o] = 0
    BY <1>4, <1>5, <1>t, <1>s, SizeFacts
  <1> DEFINE b == BuddyOf(y, o)
             m == IF b < y THEN b ELSE y
  <1>7. /\ b \in Nat /\ m \in Nat /\ m % Size[o + 1] = 0
        /\ (m = y /\ b = y + Size[o]) \/ (m = b /\ y = b + Size[o])
    BY <1>5, <1>6, MergedBlock
  <1>8. b % Size[o] = 0 /\ b \notin free_lists[o]
    BY <1>4, <1>5, <1>6, BuddyTwice DEF Merged
  <1> HIDE DEF b, m, Touch
  <1>9. y \in Pages(m, o + 1) /\ b \in Pages(m, o + 1) /\ b \in Pages(b, o) /\ y \in Pages(y, o)
    BY <1>5, <1>6, <1>7, <1>s DEF Pages
  <1>10. b \in Pages(a, k)
    <2>1. a <= m /\ m + Size[o + 1] <= a + Size[k]
      BY <1>4, <1>6, <1>7, <1>9, Nested
    <2> QED BY <2>1, <1>6, <1>7, <1>9, <1>s DEF Pages
  <1>16. PICK q \in Order : \E z \in free_lists[q] : b \in Pages(z, q)
    BY <1>10 DEF InFree
  <1>11. PICK z \in free_lists[q] : b \in Pages(z, q)
    BY <1>16
  <1>12. z \in Nat /\ z % Size[q] = 0 /\ q \in Nat /\ Size[q] \in Nat \ {0}
    BY <1>11, <1>t, <1>s
  <1>13. o <= q
    <2>1. a <= z /\ z + Size[q] <= a + Size[k]
      BY <1>1, <1>10, <1>11
    <2>2. z \in Pages(a, k)
      BY <2>1, <1>12, <1>s DEF Pages
    <2>3. q \in Touch
      BY <2>2, <1>11 DEF Touch
    <2> QED BY <2>3, <1>3
  <1>14. CASE q = o
    <2>1. z <= b /\ b + Size[o] <= z + Size[q]
      BY <1>5, <1>7, <1>8, <1>9, <1>11, <1>12, <1>13, Nested
    <2>2. z = b
      BY <2>1, <1>7, <1>12, <1>14
    <2> QED BY <2>2, <1>8, <1>11, <1>14
  <1>15. CASE q # o
    <2>1. o + 1 <= q
      BY <1>5, <1>12, <1>13, <1>15, <1>s
    <2>2. z <= m /\ m + Size[o + 1] <= z + Size[q]
      BY <2>1, <1>6, <1>7, <1>9, <1>11, <1>12, Nested
    <2>3. ~Apart(y, o, z, q)
      BY <2>2, <1>5, <1>6, <1>7, <1>12, <1>s DEF Apart
    <2> QED BY <2>3, <1>4, <1>5, <1>11, <1>15, <1>t DEF FreeApart
  <1> QED BY <1>14, <1>15

-----------------------------------------------------------------------------
(* The refinement: each step is a step of PageAlloc or changes nothing     *)
(* that PageAlloc sees.                                                    *)

(* A page in the block that a CPU splits or merges under the lock. *)
Held(x) == \E c \in CPU : pc[c] \in {"split", "merge"} /\ x \in Pages(addr[c], order[c])

(* The call a CPU at label l has in progress. *)
PendingAt(l, n, a, o) ==
    CASE l \in {"allocSpin", "split"} -> [op |-> "kalloc", npages |-> n]
      [] l = "freeSpin" -> [op |-> "kfree", pages |-> Pages(a, o)]
      [] OTHER -> [op |-> "none"]

(* Before and after a step, a page of the allocator is on a list or held. *)
LEMMA AbsFreeFacts ==
    /\ \A x : x \in AbsFree <=> InFree(x) \/ Held(x)
    /\ \A x : x \in AbsFree' <=> InFree(x)' \/ Held(x)'
  <1>1. ASSUME NEW x PROVE x \in AbsFree <=> InFree(x) \/ Held(x)
    <2>0. AbsFree = UNION {Pages(e[1], e[2]) : e \in FreeBlocks \cup HeldBlocks}
      BY DEF AbsFree, Pages
    <2>1. x \in AbsFree <=> \E e \in FreeBlocks \cup HeldBlocks : x \in Pages(e[1], e[2])
      BY <2>0
    <2>2. \A e \in FreeBlocks : e[2] \in Order /\ e[1] \in free_lists[e[2]]
      BY DEF FreeBlocks
    <2>3. \A o \in Order : \A a \in free_lists[o] : <<a, o>> \in FreeBlocks
      BY DEF FreeBlocks
    <2>4. \A e \in HeldBlocks : \E c \in CPU : pc[c] \in {"split", "merge"} /\ e = <<addr[c], order[c]>>
      BY DEF HeldBlocks
    <2>5. \A c \in CPU : pc[c] \in {"split", "merge"} => <<addr[c], order[c]>> \in HeldBlocks
      BY DEF HeldBlocks
    <2>6. InFree(x) <=> \E e \in FreeBlocks : x \in Pages(e[1], e[2])
      <3>1. InFree(x) <=> \E o \in Order : \E a \in free_lists[o] : x \in Pages(a, o)
        BY DEF InFree, Pages
      <3>2. \A a, o : <<a, o>>[1] = a /\ <<a, o>>[2] = o
        OBVIOUS
      <3> QED BY <2>2, <2>3, <3>1, <3>2
    <2>7. Held(x) <=> \E e \in HeldBlocks : x \in Pages(e[1], e[2])
      <3>1. Held(x) <=> \E c \in CPU : pc[c] \in {"split", "merge"} /\ x \in Pages(addr[c], order[c])
        BY DEF Held, Pages
      <3>2. ASSUME NEW c \in CPU, pc[c] \in {"split", "merge"}, x \in Pages(addr[c], order[c])
            PROVE  \E e \in HeldBlocks : x \in Pages(e[1], e[2])
        <4> DEFINE e == <<addr[c], order[c]>>
        <4>1. e \in HeldBlocks
          BY <2>5, <3>2
        <4>2. e[1] = addr[c] /\ e[2] = order[c]
          OBVIOUS
        <4> HIDE DEF e
        <4> QED BY <3>2, <4>1, <4>2
      <3>3. ASSUME NEW e \in HeldBlocks, x \in Pages(e[1], e[2])
            PROVE  \E c \in CPU : pc[c] \in {"split", "merge"} /\ x \in Pages(addr[c], order[c])
        <4>1. PICK c \in CPU : pc[c] \in {"split", "merge"} /\ e = <<addr[c], order[c]>>
          BY <2>4, <3>3
        <4>2. e[1] = addr[c] /\ e[2] = order[c]
          BY <4>1
        <4>3. x \in Pages(addr[c], order[c])
          BY <3>3, <4>2
        <4> QED BY <4>1, <4>3
      <3> QED BY <3>1, <3>2, <3>3
    <2> QED BY <2>1, <2>6, <2>7
  <1>2. ASSUME NEW x PROVE x \in AbsFree' <=> InFree(x)' \/ Held(x)'
    <2>0. AbsFree' = UNION {Pages(e[1], e[2]) : e \in FreeBlocks' \cup HeldBlocks'}
      BY DEF AbsFree, Pages
    <2>1. x \in AbsFree' <=> \E e \in FreeBlocks' \cup HeldBlocks' : x \in Pages(e[1], e[2])
      BY <2>0
    <2>2. \A e \in FreeBlocks' : e[2] \in Order /\ e[1] \in free_lists'[e[2]]
      BY DEF FreeBlocks
    <2>3. \A o \in Order : \A a \in free_lists'[o] : <<a, o>> \in FreeBlocks'
      BY DEF FreeBlocks
    <2>4. \A e \in HeldBlocks' : \E c \in CPU : pc'[c] \in {"split", "merge"} /\ e = <<addr'[c], order'[c]>>
      BY DEF HeldBlocks
    <2>5. \A c \in CPU : pc'[c] \in {"split", "merge"} => <<addr'[c], order'[c]>> \in HeldBlocks'
      BY DEF HeldBlocks
    <2>6. InFree(x)' <=> \E e \in FreeBlocks' : x \in Pages(e[1], e[2])
      <3>1. InFree(x)' <=> \E o \in Order : \E a \in free_lists'[o] : x \in Pages(a, o)
        BY DEF InFree, Pages
      <3>2. \A a, o : <<a, o>>[1] = a /\ <<a, o>>[2] = o
        OBVIOUS
      <3> QED BY <2>2, <2>3, <3>1, <3>2
    <2>7. Held(x)' <=> \E e \in HeldBlocks' : x \in Pages(e[1], e[2])
      <3>1. Held(x)' <=> \E c \in CPU : pc'[c] \in {"split", "merge"} /\ x \in Pages(addr'[c], order'[c])
        BY DEF Held, Pages
      <3>2. ASSUME NEW c \in CPU, pc'[c] \in {"split", "merge"}, x \in Pages(addr'[c], order'[c])
            PROVE  \E e \in HeldBlocks' : x \in Pages(e[1], e[2])
        <4> DEFINE e == <<addr'[c], order'[c]>>
        <4>1. e \in HeldBlocks'
          BY <2>5, <3>2
        <4>2. e[1] = addr'[c] /\ e[2] = order'[c]
          OBVIOUS
        <4> HIDE DEF e
        <4> QED BY <3>2, <4>1, <4>2
      <3>3. ASSUME NEW e \in HeldBlocks', x \in Pages(e[1], e[2])
            PROVE  \E c \in CPU : pc'[c] \in {"split", "merge"} /\ x \in Pages(addr'[c], order'[c])
        <4>1. PICK c \in CPU : pc'[c] \in {"split", "merge"} /\ e = <<addr'[c], order'[c]>>
          BY <2>4, <3>3
        <4>2. e[1] = addr'[c] /\ e[2] = order'[c]
          BY <4>1
        <4>3. x \in Pages(addr'[c], order'[c])
          BY <3>3, <4>2
        <4> QED BY <4>1, <4>3
      <3> QED BY <3>1, <3>2, <3>3
    <2> QED BY <2>1, <2>6, <2>7
  <1> QED BY <1>1, <1>2

(* The pending call by label. *)
LEMMA PendingFacts ==
    /\ AbsPending = [c \in CPU |-> PendingAt(pc[c], npages[c], addr[c], order[c])]
    /\ AbsPending' = [c \in CPU |-> PendingAt(pc'[c], npages'[c], addr'[c], order'[c])]
    /\ \A l, n, a, o :
         /\ l \in {"allocSpin", "split"} =>
              PendingAt(l, n, a, o) = [op |-> "kalloc", npages |-> n]
         /\ l = "freeSpin" => PendingAt(l, n, a, o) = [op |-> "kfree", pages |-> Pages(a, o)]
         /\ l \in {"boot", "idle", "merge"} => PendingAt(l, n, a, o) = [op |-> "none"]
  <1>1. AbsPending = [c \in CPU |-> PendingAt(pc[c], npages[c], addr[c], order[c])]
    BY DEF AbsPending, PendingAt
  <1>2. AbsPending' = [c \in CPU |-> PendingAt(pc'[c], npages'[c], addr'[c], order'[c])]
    BY DEF AbsPending, PendingAt, Pages
  <1>3. ASSUME NEW l, NEW n, NEW a, NEW o
        PROVE  /\ l \in {"allocSpin", "split"} =>
                    PendingAt(l, n, a, o) = [op |-> "kalloc", npages |-> n]
               /\ l = "freeSpin" => PendingAt(l, n, a, o) = [op |-> "kfree", pages |-> Pages(a, o)]
               /\ l \in {"boot", "idle", "merge"} => PendingAt(l, n, a, o) = [op |-> "none"]
    BY DEF PendingAt
  <1> QED BY <1>1, <1>2, <1>3, Zenon

(* One CPU moves: what the others have in progress stays. *)
LEMMA PendingStep ==
    ASSUME NEW c \in CPU, NEW v, PendingAt(pc'[c], npages'[c], addr'[c], order'[c]) = v,
           \A e \in CPU : e # c => /\ pc'[e] = pc[e] /\ npages'[e] = npages[e]
                                   /\ addr'[e] = addr[e] /\ order'[e] = order[e]
    PROVE  AbsPending' = [AbsPending EXCEPT ![c] = v]
  <1> DEFINE old == [e \in CPU |-> PendingAt(pc[e], npages[e], addr[e], order[e])]
             new == [e \in CPU |-> PendingAt(pc'[e], npages'[e], addr'[e], order'[e])]
  <1>1. AbsPending = old /\ AbsPending' = new
    BY PendingFacts
  <1>2. \A e \in CPU : new[e] = [old EXCEPT ![c] = v][e]
    OBVIOUS
  <1>3. new = [old EXCEPT ![c] = v]
    BY <1>2
  <1> QED BY <1>1, <1>3

(* The step leaves the pending call of the CPU that takes it. *)
LEMMA PendingSame ==
    ASSUME NEW c \in CPU,
           PendingAt(pc'[c], npages'[c], addr'[c], order'[c]) =
             PendingAt(pc[c], npages[c], addr[c], order[c]),
           \A e \in CPU : e # c => /\ pc'[e] = pc[e] /\ npages'[e] = npages[e]
                                   /\ addr'[e] = addr[e] /\ order'[e] = order[e]
    PROVE  AbsPending' = AbsPending
  <1>1. AbsPending' = [AbsPending EXCEPT ![c] = PendingAt(pc[c], npages[c], addr[c], order[c])]
    BY PendingStep
  <1>2. /\ AbsPending[c] = PendingAt(pc[c], npages[c], addr[c], order[c])
        /\ AbsPending = [e \in CPU |-> AbsPending[e]]
    BY PendingFacts
  <1> QED BY <1>1, <1>2

(* Set extensionality, for pages before and after a step. *)
LEMMA AbsFreeSame ==
    ASSUME \A x : (InFree(x) \/ Held(x)) <=> (InFree(x)' \/ Held(x)')
    PROVE  AbsFree' = AbsFree
  <1>1. \A x : x \in AbsFree <=> x \in AbsFree'
    BY AbsFreeFacts
  <1> QED BY <1>1

(* Under the lock only its holder has a block that counts as free. *)
LEMMA HeldBy ==
    ASSUME IInv
    PROVE  /\ \A c, e \in CPU : pc[c] \in {"split", "merge"} /\ pc[e] \in {"split", "merge"} => c = e
           /\ lock = None /\ use_lock => \A x : ~Held(x)
           /\ \A c \in CPU : pc[c] \in {"allocSpin", "split", "freeSpin"} => use_lock
  <1>1. LockInv /\ None \notin CPU /\ use_lock \in BOOLEAN
    BY BuddyAssumption DEF IInv, TypeOK
  <1>2. \A c, e \in CPU : pc[c] \in {"split", "merge"} /\ pc[e] \in {"split", "merge"} => c = e
    BY <1>1 DEF LockInv
  <1>3. lock = None /\ use_lock => \A x : ~Held(x)
    BY <1>1 DEF LockInv, Held
  <1>4. \A c \in CPU : pc[c] \in {"allocSpin", "split", "freeSpin"} => use_lock
    BY <1>1 DEF LockInv
  <1> QED BY <1>2, <1>3, <1>4

(* What the CPUs other than the one that steps see unchanged. *)
Others(c) == \A e \in CPU : e # c => /\ pc'[e] = pc[e] /\ npages'[e] = npages[e]
                                     /\ addr'[e] = addr[e] /\ order'[e] = order[e]

(* A step on the boot CPU between two blocks. *)
LEMMA BootStutters ==
    ASSUME IInv, NEW c \in CPU, FreeRangeStart(c) \/ buddy_enable_lock(c)
    PROVE  UNCHANGED PA!vars
  <1>1. /\ pc[c] = "boot" /\ pc'[c] \in {"boot", "idle"} /\ Others(c)
        /\ UNCHANGED <<free_lists, owned, npages, addr, order>>
    BY DEF FreeRangeStart, buddy_enable_lock, Others, IInv, TypeOK
  <1>2. AbsPending' = AbsPending
    <2>1. PendingAt(pc'[c], npages'[c], addr'[c], order'[c]) =
            PendingAt(pc[c], npages[c], addr[c], order[c])
      BY <1>1, PendingFacts
    <2> QED BY <2>1, <1>1, PendingSame DEF Others
  <1>3. AbsFree' = AbsFree
    <2>1. \A x : InFree(x)' <=> InFree(x)
      BY <1>1 DEF InFree, Pages
    <2>2. \A e \in CPU : pc'[e] \in {"split", "merge"} <=> pc[e] \in {"split", "merge"}
      BY <1>1 DEF Others
    <2>3. \A x : Held(x)' <=> Held(x)
      BY <2>2, <1>1 DEF Held, Pages
    <2> QED BY <2>1, <2>3, AbsFreeSame
  <1> QED BY <1>1, <1>2, <1>3 DEF PA!vars

(* freerange takes a block of the region: its pages are given to the       *)
(* allocator.                                                              *)
LEMMA BlockGives ==
    ASSUME IInv, NEW c \in CPU, FreeRangeBlock(c)
    PROVE  PA!Give
  <1>1. /\ pc[c] = "boot" /\ pc'[c] = "merge" /\ Others(c)
        /\ UNCHANGED <<free_lists, owned, npages>>
    BY DEF FreeRangeBlock, Others, IInv, TypeOK
  <1>2. ~use_lock /\ owned = {}
    BY <1>1 DEF IInv, LockInv, BootInv
  <1>3. \A e \in CPU : pc[e] \in {"boot", "idle", "merge"}
    BY <1>2 DEF IInv, LockInv
  <1>4. AbsPending = [e \in CPU |-> [op |-> "none"]]
    <2>1. \A e \in CPU : PendingAt(pc[e], npages[e], addr[e], order[e]) = [op |-> "none"]
      BY <1>3, PendingFacts
    <2> QED BY <2>1, PendingFacts
  <1>5. AbsPending' = AbsPending
    <2>1. PendingAt(pc'[c], npages'[c], addr'[c], order'[c]) =
            PendingAt(pc[c], npages[c], addr[c], order[c])
      BY <1>1, PendingFacts
    <2> QED BY <2>1, <1>1, PendingSame DEF Others
  <1>6. AbsFree \subseteq AbsFree'
    <2>1. \A x : InFree(x) => InFree(x)'
      BY <1>1 DEF InFree, Pages
    <2>2. \A x : Held(x) => Held(x)'
      <3> SUFFICES ASSUME NEW x, NEW e \in CPU, pc[e] \in {"split", "merge"},
                          x \in Pages(addr[e], order[e])
                   PROVE  Held(x)'
        BY DEF Held
      <3>1. e # c
        BY <1>1
      <3> QED BY <3>1, <1>1 DEF Others, Held, Pages
    <2>3. \A x : x \in AbsFree => x \in AbsFree'
      BY <2>1, <2>2, AbsFreeFacts
    <2> QED BY <2>3
  <1> QED BY <1>1, <1>2, <1>4, <1>5, <1>6 DEF PA!Give, PA!Idle

(* kalloc is called. *)
LEMMA KallocCalls ==
    ASSUME IInv, NEW c \in CPU, NEW n \in Requests, kalloc(c, n)
    PROVE  PA!CallAlloc(c)
  <1>1. /\ pc[c] = "idle" /\ pc'[c] = "allocSpin" /\ npages'[c] = n /\ Others(c)
        /\ UNCHANGED <<free_lists, owned, addr, order>>
    BY DEF kalloc, Others, IInv, TypeOK
  <1>2. AbsPending[c] = [op |-> "none"]
    BY <1>1, PendingFacts
  <1>3. AbsPending' = [AbsPending EXCEPT ![c] = [op |-> "kalloc", npages |-> n]]
    <2>1. PendingAt(pc'[c], npages'[c], addr'[c], order'[c]) = [op |-> "kalloc", npages |-> n]
      BY <1>1, PendingFacts
    <2> QED BY <2>1, <1>1, PendingStep DEF Others
  <1>4. AbsFree' = AbsFree
    <2>1. \A x : InFree(x)' <=> InFree(x)
      BY <1>1 DEF InFree, Pages
    <2>2. \A e \in CPU : pc'[e] \in {"split", "merge"} <=> pc[e] \in {"split", "merge"}
      BY <1>1 DEF Others
    <2>3. \A x : Held(x)' <=> Held(x)
      BY <2>2, <1>1 DEF Held, Pages
    <2> QED BY <2>1, <2>3, AbsFreeSame
  <1> QED BY <1>1, <1>2, <1>3, <1>4 DEF PA!CallAlloc, PA!Idle

(* kfree is called: the block is no longer the caller's. *)
LEMMA KfreeCalls ==
    ASSUME IInv, NEW c \in CPU, NEW b \in owned, kfree(c, b)
    PROVE  PA!CallFree(c)
  <1>1. /\ pc[c] = "idle" /\ pc'[c] = "freeSpin" /\ addr'[c] = b.addr /\ Others(c)
        /\ order'[c] = (IF order_for(b.npages) >= MAX_ORDER
                        THEN MAX_ORDER - 1 ELSE order_for(b.npages))
        /\ owned' = owned \ {b} /\ UNCHANGED <<free_lists, npages>>
    BY DEF kfree, Others, IInv, TypeOK
  <1>2. order'[c] = order_for(b.npages)
    <2>1. order_for(b.npages) \in Order
      BY DEF IInv, RequestInv, OrderOf
    <2> QED BY <2>1, <1>1, BuddyAssumption DEF Order
  <1>3. AbsPending[c] = [op |-> "none"]
    BY <1>1, PendingFacts
  <1>4. AbsPending' = [AbsPending EXCEPT ![c] =
          [op |-> "kfree", pages |-> b.addr .. (b.addr + Size[order_for(b.npages)] - 1)]]
    <2>1. PendingAt(pc'[c], npages'[c], addr'[c], order'[c]) =
            [op |-> "kfree", pages |-> Pages(addr'[c], order'[c])]
      BY <1>1, PendingFacts
    <2>2. Pages(addr'[c], order'[c]) = b.addr .. (b.addr + Size[order_for(b.npages)] - 1)
      BY <1>1, <1>2 DEF Pages
    <2> QED BY <2>1, <2>2, <1>1, PendingStep DEF Others
  <1>5. AbsFree' = AbsFree
    <2>1. \A x : InFree(x)' <=> InFree(x)
      BY <1>1 DEF InFree, Pages
    <2>2. \A e \in CPU : /\ pc'[e] \in {"split", "merge"} <=> pc[e] \in {"split", "merge"}
                         /\ pc[e] \in {"split", "merge"} => addr'[e] = addr[e] /\ order'[e] = order[e]
      BY <1>1 DEF Others
    <2>3. \A x : Held(x)' <=> Held(x)
      BY <2>2 DEF Held, Pages
    <2> QED BY <2>1, <2>3, AbsFreeSame
  <1> QED BY <1>1, <1>3, <1>4, <1>5 DEF PA!CallFree, PA!Idle, PA!Run

(* The pages of a block are those of its halves. *)
LEMMA PagesOfHalves ==
    ASSUME NEW o \in Order, o + 1 \in Order, NEW m \in Nat
    PROVE  \A x : x \in Pages(m, o + 1) <=> x \in Pages(m, o) \/ x \in Pages(m + Size[o], o)
  <1>1. Size[o] \in Nat \ {0} /\ Size[o + 1] = 2 * Size[o]
    BY SizeFacts, BuddyAssumption
  <1> QED BY <1>1 DEF Pages

(* A block goes on a list or comes off it. *)
LEMMA InFreeMore ==
    ASSUME TypeOK, NEW o \in Order, NEW a, free_lists' = [free_lists EXCEPT ![o] = @ \cup {a}]
    PROVE  \A x : InFree(x)' <=> InFree(x) \/ x \in Pages(a, o)
  <1>1. \A x : InFree(x)' <=> \E q \in Order : \E b \in free_lists'[q] : x \in Pages(b, q)
    BY DEF InFree, Pages
  <1>2. \A q \in Order : free_lists'[q] = IF q = o THEN free_lists[o] \cup {a} ELSE free_lists[q]
    BY DEF TypeOK
  <1>3. \A x : InFree(x) <=> \E q \in Order : \E b \in free_lists[q] : x \in Pages(b, q)
    BY DEF InFree
  <1> QED BY <1>1, <1>2, <1>3

LEMMA InFreeLess ==
    ASSUME TypeOK, NEW o \in Order, NEW a \in free_lists[o],
           free_lists' = [free_lists EXCEPT ![o] = @ \ {a}]
    PROVE  \A x : InFree(x) <=> InFree(x)' \/ x \in Pages(a, o)
  <1>1. \A x : InFree(x)' <=> \E q \in Order : \E b \in free_lists'[q] : x \in Pages(b, q)
    BY DEF InFree, Pages
  <1>2. \A q \in Order : free_lists[q] = IF q = o THEN free_lists'[o] \cup {a} ELSE free_lists'[q]
    BY DEF TypeOK
  <1>3. \A x : InFree(x) <=> \E q \in Order : \E b \in free_lists[q] : x \in Pages(b, q)
    BY DEF InFree
  <1> QED BY <1>1, <1>2, <1>3

(* The pages the CPU in the critical section holds, before and after. *)
LEMMA HeldByOne ==
    ASSUME IInv, NEW c \in CPU, pc[c] \in {"split", "merge"}, Others(c)
    PROVE  /\ \A x : Held(x) <=> x \in Pages(addr[c], order[c])
           /\ \A x : Held(x)' <=> pc'[c] \in {"split", "merge"} /\ x \in Pages(addr'[c], order'[c])
  <1>1. \A e \in CPU : pc[e] \in {"split", "merge"} <=> e = c
    BY HeldBy
  <1>2. \A e \in CPU : pc'[e] \in {"split", "merge"} => e = c
    BY <1>1 DEF Others
  <1>3. \A x : Held(x) <=> x \in Pages(addr[c], order[c])
    BY <1>1 DEF Held
  <1>4. \A x : Held(x)' <=> pc'[c] \in {"split", "merge"} /\ x \in Pages(addr'[c], order'[c])
    BY <1>2 DEF Held, Pages
  <1> QED BY <1>3, <1>4

(* The block that kalloc takes off a list still counts as free. *)
LEMMA PopStutters ==
    ASSUME IInv, NEW c \in CPU, KallocPop(c)
    PROVE  UNCHANGED PA!vars
  <1>1. /\ pc[c] = "allocSpin" /\ lock = None /\ pc'[c] = "split" /\ Others(c)
        /\ UNCHANGED <<owned, npages>>
    BY DEF KallocPop, Others, IInv, TypeOK
  <1>2. PICK o \in Order : \E a \in free_lists[o] :
          /\ free_lists' = [free_lists EXCEPT ![o] = @ \ {a}]
          /\ addr' = [addr EXCEPT ![c] = a] /\ order' = [order EXCEPT ![c] = o]
    BY DEF KallocPop, Available
  <1>3. PICK a \in free_lists[o] :
          /\ free_lists' = [free_lists EXCEPT ![o] = @ \ {a}]
          /\ addr' = [addr EXCEPT ![c] = a] /\ order' = [order EXCEPT ![c] = o]
    BY <1>2
  <1>4. addr'[c] = a /\ order'[c] = o
    BY <1>3 DEF IInv, TypeOK
  <1>5. \A x : ~Held(x)
    BY <1>1, HeldBy
  <1>6. \A x : Held(x)' <=> x \in Pages(a, o)
    <2>1. \A e \in CPU : pc'[e] \in {"split", "merge"} <=> e = c
      <3>1. \A e \in CPU : pc[e] \notin {"split", "merge"}
        BY <1>1, BuddyAssumption, HeldBy DEF IInv, LockInv
      <3> QED BY <3>1, <1>1 DEF Others
    <2> QED BY <2>1, <1>4 DEF Held, Pages
  <1>7. \A x : InFree(x) <=> InFree(x)' \/ x \in Pages(a, o)
    BY <1>3, InFreeLess DEF IInv
  <1>8. AbsFree' = AbsFree
    BY <1>5, <1>6, <1>7, AbsFreeSame
  <1>9. AbsPending' = AbsPending
    <2>1. PendingAt(pc'[c], npages'[c], addr'[c], order'[c]) =
            PendingAt(pc[c], npages[c], addr[c], order[c])
      BY <1>1, PendingFacts
    <2> QED BY <2>1, <1>1, PendingSame DEF Others
  <1> QED BY <1>1, <1>8, <1>9 DEF PA!vars

(* Halving a block under the lock. *)
LEMMA SplitStutters ==
    ASSUME IInv, NEW c \in CPU, KallocSplit(c)
    PROVE  UNCHANGED PA!vars
  <1> DEFINE o == order[c] - 1
             a == addr[c]
  <1>1. /\ pc[c] = "split" /\ pc'[c] = "split" /\ Others(c)
        /\ order[c] > order_for(npages[c]) /\ order_for(npages[c]) \in Order
        /\ order'[c] = o /\ addr'[c] = a
        /\ free_lists' = [free_lists EXCEPT ![o] = @ \cup {a + Size[o]}]
        /\ UNCHANGED <<owned, npages>>
    <2>1. /\ pc[c] = "split" /\ order[c] > order_for(npages[c])
          /\ free_lists' = [free_lists EXCEPT ![o] = @ \cup {a + Size[o]}]
          /\ order' = [order EXCEPT ![c] = @ - 1] /\ UNCHANGED <<owned, npages, pc, addr>>
      BY DEF KallocSplit
    <2>2. order_for(npages[c]) \in Order
      BY <2>1 DEF IInv, RequestInv
    <2>3. order'[c] = o /\ \A e \in CPU : e # c => order'[e] = order[e]
      BY <2>1 DEF IInv, TypeOK
    <2> QED BY <2>1, <2>2, <2>3 DEF Others
  <1>2. o \in Order /\ o + 1 = order[c] /\ order[c] \in Order /\ a \in Nat /\ TypeOK
    <2>1. TypeOK
      BY DEF IInv
    <2>2. order[c] \in Order /\ a \in Nat
      BY <2>1 DEF TypeOK
    <2>3. order[c] > order_for(npages[c]) /\ order_for(npages[c]) \in Order
      BY <1>1
    <2>4. o \in Order /\ o + 1 = order[c]
      BY <2>2, <2>3, SizeFacts
    <2> QED BY <2>1, <2>2, <2>4
  <1>3. /\ \A x : Held(x) <=> x \in Pages(a, order[c])
        /\ \A x : Held(x)' <=> x \in Pages(a, o)
    <2>1. pc'[c] \in {"split", "merge"} /\ pc[c] \in {"split", "merge"}
      BY <1>1
    <2> QED BY <2>1, <1>1, HeldByOne
  <1> HIDE DEF o, a
  <1>4. \A x : InFree(x)' <=> InFree(x) \/ x \in Pages(a + Size[o], o)
    BY <1>1, <1>2, InFreeMore
  <1>5. \A x : x \in Pages(a, order[c]) <=> x \in Pages(a, o) \/ x \in Pages(a + Size[o], o)
    BY <1>2, PagesOfHalves
  <1>6. AbsFree' = AbsFree
    BY <1>3, <1>4, <1>5, AbsFreeSame
  <1>7. AbsPending' = AbsPending
    <2>1. PendingAt(pc'[c], npages'[c], addr'[c], order'[c]) =
            PendingAt(pc[c], npages[c], addr[c], order[c])
      BY <1>1, PendingFacts
    <2> QED BY <2>1, <1>1, PendingSame DEF Others
  <1> QED BY <1>1, <1>6, <1>7 DEF PA!vars

(* Merging a block with its buddy under the lock. *)
LEMMA MergeStutters ==
    ASSUME IInv, NEW c \in CPU, Merge(c)
    PROVE  UNCHANGED PA!vars
  <1> DEFINE o == order[c]
             a == addr[c]
             b == BuddyOf(a, o)
             m == IF b < a THEN b ELSE a
  <1>1. /\ pc[c] = "merge" /\ pc'[c] = "merge" /\ Others(c)
        /\ o < MAX_ORDER - 1 /\ b \in free_lists[o]
        /\ order'[c] = o + 1 /\ addr'[c] = m
        /\ free_lists' = [free_lists EXCEPT ![o] = @ \ {b}]
        /\ UNCHANGED <<owned, npages>>
    BY DEF Merge, HasFreeBuddy, Others, IInv, TypeOK
  <1>2. o \in Order /\ o + 1 \in Order /\ a \in Nat /\ a % Size[o] = 0 /\ TypeOK
    BY <1>1, SizeFacts DEF IInv, TypeOK, Aligned, InHand
  <1>3. /\ \A x : Held(x) <=> x \in Pages(a, o)
        /\ \A x : Held(x)' <=> x \in Pages(m, o + 1)
    <2>1. pc'[c] \in {"split", "merge"} /\ pc[c] \in {"split", "merge"}
      BY <1>1
    <2> QED BY <2>1, <1>1, HeldByOne
  <1>4. m \in Nat /\ ((m = a /\ b = a + Size[o]) \/ (m = b /\ a = b + Size[o]))
    BY <1>1, <1>2, MergedBlock
  <1> HIDE DEF o, a, b, m
  <1>5. \A x : InFree(x) <=> InFree(x)' \/ x \in Pages(b, o)
    BY <1>1, <1>2, InFreeLess
  <1>6. \A x : x \in Pages(m, o + 1) <=> x \in Pages(a, o) \/ x \in Pages(b, o)
    <2>1. \A x : x \in Pages(m, o + 1) <=> x \in Pages(m, o) \/ x \in Pages(m + Size[o], o)
      BY <1>2, <1>4, PagesOfHalves
    <2> QED BY <2>1, <1>4
  <1>7. AbsFree' = AbsFree
    BY <1>3, <1>5, <1>6, AbsFreeSame
  <1>8. AbsPending' = AbsPending
    <2>1. PendingAt(pc'[c], npages'[c], addr'[c], order'[c]) =
            PendingAt(pc[c], npages[c], addr[c], order[c])
      BY <1>1, PendingFacts
    <2> QED BY <2>1, <1>1, PendingSame DEF Others
  <1> QED BY <1>1, <1>7, <1>8 DEF PA!vars

(* The merged block goes on its list. *)
LEMMA InsertStutters ==
    ASSUME IInv, NEW c \in CPU, Insert(c)
    PROVE  UNCHANGED PA!vars
  <1>1. /\ pc[c] = "merge" /\ pc'[c] \in {"idle", "boot"} /\ Others(c)
        /\ free_lists' = [free_lists EXCEPT ![order[c]] = @ \cup {addr[c]}]
        /\ UNCHANGED owned
    BY DEF Insert, Return, Others, IInv, TypeOK
  <1>2. order[c] \in Order /\ TypeOK
    BY DEF IInv, TypeOK
  <1>3. (\A x : Held(x) <=> x \in Pages(addr[c], order[c])) /\ \A x : ~Held(x)'
    <2>1. pc'[c] \notin {"split", "merge"} /\ pc[c] \in {"split", "merge"}
      BY <1>1
    <2> QED BY <2>1, <1>1, HeldByOne
  <1>4. \A x : InFree(x)' <=> InFree(x) \/ x \in Pages(addr[c], order[c])
    BY <1>1, <1>2, InFreeMore
  <1>5. AbsFree' = AbsFree
    BY <1>3, <1>4, AbsFreeSame
  <1>6. AbsPending' = AbsPending
    <2>1. PendingAt(pc'[c], npages'[c], addr'[c], order'[c]) =
            PendingAt(pc[c], npages[c], addr[c], order[c])
      BY <1>1, PendingFacts
    <2> QED BY <2>1, <1>1, PendingSame DEF Others
  <1> QED BY <1>1, <1>5, <1>6 DEF PA!vars

(* kalloc returns a block: a run of pages that were free, aligned, and no  *)
(* longer free to anybody.                                                 *)
LEMMA ReturnGrants ==
    ASSUME IInv, NEW c \in CPU, KallocReturn(c)
    PROVE  PA!Grant(c)
  <1> DEFINE a == addr[c]
             n == npages[c]
             k == order_for(n)
  <1>1. /\ pc[c] = "split" /\ pc'[c] = "idle" /\ Others(c) /\ order[c] = k
        /\ owned' = owned \cup {[addr |-> a, npages |-> n]} /\ UNCHANGED free_lists
    BY DEF KallocReturn, Return, Others, IInv, TypeOK
  <1>2. k \in Order /\ a \in Nat /\ a % Size[k] = 0 /\ Size[k] \in Nat \ {0}
    <2>1. order[c] \in Order /\ a \in Nat /\ a % Size[order[c]] = 0
      BY <1>1 DEF IInv, TypeOK, Aligned, InHand
    <2> QED BY <2>1, <1>1, SizeFacts
  <1>3. (\A x : Held(x) <=> x \in Pages(a, k)) /\ \A x : ~Held(x)'
    <2>1. pc'[c] \notin {"split", "merge"} /\ pc[c] \in {"split", "merge"}
      BY <1>1
    <2> QED BY <2>1, <1>1, HeldByOne
  <1>4. \A x : InFree(x)' <=> InFree(x)
    BY <1>1 DEF InFree, Pages
  <1>5. \A x : InFree(x) => x \notin Pages(a, k)
    <2> SUFFICES ASSUME NEW x, NEW q \in Order, NEW b \in free_lists[q],
                        x \in Pages(b, q), x \in Pages(a, k)
                 PROVE  FALSE
      BY DEF InFree
    <2>1. Apart(b, q, a, k)
      BY <1>1 DEF IInv, NoOverlap, FreeHandApart, InHand
    <2>2. b \in Nat /\ Size[q] \in Nat \ {0}
      BY SizeFacts DEF IInv, TypeOK
    <2> HIDE DEF a, k
    <2> QED BY <2>1, <2>2, <1>2 DEF Apart, Pages
  <1>6. AbsPending[c] = [op |-> "kalloc", npages |-> n]
    BY <1>1, PendingFacts
  <1>7. AbsPending' = [AbsPending EXCEPT ![c] = [op |-> "none"]]
    <2>1. PendingAt(pc'[c], npages'[c], addr'[c], order'[c]) = [op |-> "none"]
      BY <1>1, PendingFacts
    <2> QED BY <2>1, <1>1, PendingStep DEF Others
  <1> HIDE DEF a, n, k
  <1> DEFINE run == a .. (a + Size[k] - 1)
  <1>8. run = Pages(a, k)
    BY DEF Pages
  <1> HIDE DEF run
  <1>9. run \subseteq AbsFree /\ AbsFree' = AbsFree \ run
    <2>1. \A x : x \in run => x \in AbsFree
      BY <1>3, <1>8, AbsFreeFacts
    <2>2. \A x : x \in AbsFree' <=> x \in AbsFree /\ x \notin run
      BY <1>3, <1>4, <1>5, <1>8, AbsFreeFacts
    <2> QED BY <2>1, <2>2
  <1>10. a \in AbsFree
    <2>1. a \in Pages(a, k)
      BY <1>2 DEF Pages
    <2> QED BY <2>1, <1>8, <1>9
  <1>11. AbsPending[c].op = "kalloc" /\ AbsPending[c].npages = n
    BY <1>6
  <1> QED BY <1>1, <1>2, <1>7, <1>9, <1>10, <1>11 DEF PA!Grant, PA!Idle, PA!Run, run, k

(* kalloc returns 0: no aligned run of free pages is long enough. *)
LEMMA FullRefuses ==
    ASSUME IInv, Merged, NEW c \in CPU, KallocFull(c)
    PROVE  PA!Refuse(c)
  <1> DEFINE n == npages[c]
             k == order_for(n)
  <1>1. /\ pc[c] = "allocSpin" /\ pc'[c] = "idle" /\ lock = None /\ Others(c)
        /\ Available(c) = {} /\ UNCHANGED <<free_lists, owned>>
    BY DEF KallocFull, Return, Others, IInv, TypeOK
  <1>2. k \in Order
    BY <1>1 DEF IInv, RequestInv
  <1>3. \A o \in Order : o >= k => free_lists[o] = {}
    BY <1>1 DEF Available
  <1>4. \A x : ~Held(x)
    BY <1>1, HeldBy
  <1>5. \A x : ~Held(x)'
    <2>1. \A e \in CPU : pc[e] \notin {"split", "merge"}
      BY <1>1, BuddyAssumption, HeldBy DEF IInv, LockInv
    <2>2. \A e \in CPU : pc'[e] \notin {"split", "merge"}
      BY <2>1, <1>1 DEF Others
    <2> QED BY <2>2 DEF Held
  <1>6. AbsFree' = AbsFree
    <2>1. \A x : InFree(x)' <=> InFree(x)
      BY <1>1 DEF InFree, Pages
    <2> QED BY <2>1, <1>4, <1>5, AbsFreeSame
  <1>7. AbsPending[c] = [op |-> "kalloc", npages |-> n]
    BY <1>1, PendingFacts
  <1>8. AbsPending' = [AbsPending EXCEPT ![c] = [op |-> "none"]]
    <2>1. PendingAt(pc'[c], npages'[c], addr'[c], order'[c]) = [op |-> "none"]
      BY <1>1, PendingFacts
    <2> QED BY <2>1, <1>1, PendingStep DEF Others
  <1> HIDE DEF n, k
  <1>9. ASSUME NEW a \in AbsFree, a % Size[k] = 0, a .. (a + Size[k] - 1) \subseteq AbsFree
        PROVE  FALSE
    <2>1. \A x \in AbsFree : InFree(x)
      BY <1>4, AbsFreeFacts
    <2>2. a \in Nat
      <3>1. PICK q \in Order : \E b \in free_lists[q] : a \in Pages(b, q)
        BY <2>1 DEF InFree
      <3>2. PICK b \in free_lists[q] : a \in Pages(b, q)
        BY <3>1
      <3>3. b \in Nat /\ Size[q] \in Nat
        BY <3>2, SizeFacts DEF IInv, TypeOK
      <3> QED BY <3>2, <3>3 DEF Pages
    <2>3. \A x \in Pages(a, k) : InFree(x)
      BY <2>1, <1>9 DEF Pages
    <2> QED BY <2>2, <2>3, <1>2, <1>3, <1>9, NoRun
  <1>10. AbsPending[c].op = "kalloc" /\ AbsPending[c].npages = n
    BY <1>7
  <1> QED BY <1>1, <1>6, <1>8, <1>9, <1>10 DEF PA!Refuse, PA!Idle, PA!Run, k

(* kfree has the lock: the pages were not free, and are. *)
LEMMA AcquireAccepts ==
    ASSUME IInv, NEW c \in CPU, KfreeAcquire(c)
    PROVE  PA!Accept(c)
  <1> DEFINE a == addr[c]
             o == order[c]
             run == Pages(a, o)
  <1>1. /\ pc[c] = "freeSpin" /\ pc'[c] = "merge" /\ lock = None /\ Others(c)
        /\ UNCHANGED <<free_lists, owned, addr, order>>
    BY DEF KfreeAcquire, Others, IInv, TypeOK
  <1>2. o \in Order /\ a \in Nat /\ Size[o] \in Nat \ {0}
    BY SizeFacts DEF IInv, TypeOK
  <1>3. \A x : ~Held(x)
    BY <1>1, HeldBy
  <1>4. \A x : Held(x)' <=> x \in run
    <2>1. \A e \in CPU : pc[e] \notin {"split", "merge"}
      BY <1>1, BuddyAssumption, HeldBy DEF IInv, LockInv
    <2>2. \A e \in CPU : pc'[e] \in {"split", "merge"} <=> e = c
      BY <2>1, <1>1 DEF Others
    <2> QED BY <2>2, <1>1 DEF Held, Pages
  <1>5. \A x : InFree(x)' <=> InFree(x)
    BY <1>1 DEF InFree, Pages
  <1>6. \A x : InFree(x) => x \notin run
    <2> SUFFICES ASSUME NEW x, NEW q \in Order, NEW b \in free_lists[q],
                        x \in Pages(b, q), x \in run
                 PROVE  FALSE
      BY DEF InFree
    <2>1. Apart(b, q, a, o)
      BY <1>1 DEF IInv, NoOverlap, FreeHandApart, InHand
    <2>2. b \in Nat /\ Size[q] \in Nat \ {0}
      BY SizeFacts DEF IInv, TypeOK
    <2> HIDE DEF a, o
    <2> QED BY <2>1, <2>2, <1>2 DEF Apart, Pages
  <1>7. AbsPending[c] = [op |-> "kfree", pages |-> run]
    BY <1>1, PendingFacts
  <1>8. AbsPending' = [AbsPending EXCEPT ![c] = [op |-> "none"]]
    <2>1. PendingAt(pc'[c], npages'[c], addr'[c], order'[c]) = [op |-> "none"]
      BY <1>1, PendingFacts
    <2> QED BY <2>1, <1>1, PendingStep DEF Others
  <1> HIDE DEF run
  <1>9. run \cap AbsFree = {} /\ AbsFree' = AbsFree \cup run
    <2>1. \A x : x \in AbsFree => x \notin run
      BY <1>3, <1>6, AbsFreeFacts
    <2>2. \A x : x \in AbsFree' <=> x \in AbsFree \/ x \in run
      BY <1>3, <1>4, <1>5, AbsFreeFacts
    <2> QED BY <2>1, <2>2
  <1>10. AbsPending[c].op = "kfree" /\ AbsPending[c].pages = run
    BY <1>7
  <1> QED BY <1>1, <1>8, <1>9, <1>10 DEF PA!Accept, PA!Idle

LEMMA RefinementStep ==
    ASSUME IInv, Merged, [Next]_vars
    PROVE  [PA!Next]_(PA!vars)
  <1>1. ASSUME UNCHANGED vars PROVE UNCHANGED PA!vars
    <2>1. UNCHANGED <<free_lists, owned, pc, npages, addr, order>>
      BY <1>1 DEF vars
    <2>2. AbsPending' = AbsPending
      BY <2>1, PendingFacts
    <2>3. (\A x : InFree(x)' <=> InFree(x)) /\ \A x : Held(x)' <=> Held(x)
      BY <2>1 DEF InFree, Held, Pages
    <2>4. AbsFree' = AbsFree
      BY <2>3, AbsFreeSame
    <2> QED BY <2>1, <2>2, <2>4 DEF PA!vars
  <1>2. CASE Next
    <2> PICK c \in CPU :
          \/ Boot(c) \/ Inside(c)
          \/ \E n \in Requests : kalloc(c, n)
          \/ \E b \in owned : kfree(c, b)
      BY <1>2 DEF Next
    <2>1. CASE FreeRangeStart(c) \/ buddy_enable_lock(c)
      BY <2>1, BootStutters
    <2>2. CASE FreeRangeBlock(c)
      BY <2>2, BlockGives DEF PA!Next
    <2>3. CASE KallocPop(c)
      BY <2>3, PopStutters
    <2>4. CASE KallocFull(c)
      BY <2>4, FullRefuses DEF PA!Next
    <2>5. CASE KallocSplit(c)
      BY <2>5, SplitStutters
    <2>6. CASE KallocReturn(c)
      BY <2>6, ReturnGrants DEF PA!Next
    <2>7. CASE KfreeAcquire(c)
      BY <2>7, AcquireAccepts DEF PA!Next
    <2>8. CASE Merge(c)
      BY <2>8, MergeStutters
    <2>9. CASE Insert(c)
      BY <2>9, InsertStutters
    <2>10. CASE \E n \in Requests : kalloc(c, n)
      BY <2>10, KallocCalls DEF PA!Next
    <2>11. CASE \E b \in owned : kfree(c, b)
      BY <2>11, KfreeCalls DEF PA!Next
    <2> QED BY <2>1, <2>2, <2>3, <2>4, <2>5, <2>6, <2>7, <2>8, <2>9, <2>10, <2>11
            DEF Boot, Inside
  <1> QED BY <1>1, <1>2

LEMMA RefinementInit == Init => PA!Init
  <1> SUFFICES ASSUME Init PROVE PA!Init
    OBVIOUS
  <1>1. AbsFree = {}
    <2>1. (\A x : ~InFree(x)) /\ \A x : ~Held(x)
      BY DEF Init, InFree, Held
    <2> QED BY <2>1, AbsFreeFacts
  <1>2. AbsPending = [c \in CPU |-> [op |-> "none"]]
    <2>1. \A c \in CPU : PendingAt(pc[c], npages[c], addr[c], order[c]) = [op |-> "none"]
      BY PendingFacts DEF Init
    <2> QED BY <2>1, PendingFacts
  <1> QED BY <1>1, <1>2 DEF Init, PA!Init, PA!Idle

(* The allocator of mem.c, with its lists, orders and lock, implements     *)
(* atomic operations on a set of pages: what kalloc returns was free and   *)
(* is aligned, and it returns 0 only when no aligned run is long enough.   *)
THEOREM BuddyRefinement == Spec => RefinesPageAlloc
  <1>1. IInv /\ Merged /\ [Next]_vars => [PA!Next]_(PA!vars)
    BY RefinementStep
  <1> QED BY <1>1, RefinementInit, BuddyInvariance, MergedInvariance, PTL
          DEF Spec, RefinesPageAlloc, PA!Spec
=============================================================================
