----------------------------- MODULE PmmProofs -----------------------------
(***************************************************************************)
(* Proofs about the page allocator of module Pmm, for every memory map.    *)
(***************************************************************************)
EXTENDS Pmm, FiniteSetTheorems, WellFoundedInduction, TLAPS

USE DEF PmmAssumption, Page, Span

PmmInv == TypeOK /\ Accounting /\ Exclusive

(* After pmm_init exactly the usable pages are unmarked. *)
LEMMA InitInv == pmm_init => PmmInv
<1> SUFFICES ASSUME pmm_init PROVE PmmInv
  OBVIOUS
<1> USE PmmAssumption DEF pmm_init
<1>1. TypeOK
  BY DEF TypeOK
<1>2. Accounting
  <2> SUFFICES ASSUME NEW p \in Page
               PROVE  pmm_bitmap[p] <=> p \notin Usable
    BY DEF Accounting
  <2>1. p \in Bit
    BY DEF Bit
  <2> QED BY <2>1, Zenon
<1>3. Exclusive
  BY DEF Exclusive
<1> QED BY <1>1, <1>2, <1>3 DEF PmmInv

(* Marking n pages from base, of which those that exist are free, keeps    *)
(* the accounts: lines 76-80 of pmm_alloc, found or not.                   *)
LEMMA TakeInv ==
  ASSUME PmmInv, NEW n \in Sizes, NEW base \in 0..pmm_pages,
         IsFree(Span(base, n) \cap Page), Take(base, n)
  PROVE  PmmInv'
<1> USE PmmAssumption
<1> DEFINE new == [base |-> base, pages |-> n]
<1>1. n \in Nat \ {0} /\ base \in Nat
  OBVIOUS
<1>2. blocks' = blocks \cup {new} /\ new \in [base : 0..pmm_pages, pages : Sizes]
  BY DEF Take
<1>3. TypeOK'
  <2>1. pmm_bitmap' \in [Bit -> BOOLEAN]
    BY DEF Take, bitmap_set, PmmInv, TypeOK
  <2>2. pmm_bitmap_index' \in 0..pmm_pages
    BY <1>1 DEF Take
  <2> QED BY <1>2, <2>1, <2>2 DEF PmmInv, TypeOK
<1>4. \A p \in Page : pmm_bitmap'[p] <=> pmm_bitmap[p] \/ p \in PagesOf(new)
  <2> SUFFICES ASSUME NEW p \in Page
               PROVE  pmm_bitmap'[p] <=> pmm_bitmap[p] \/ p \in PagesOf(new)
    OBVIOUS
  <2>1. p \in Bit
    BY DEF Bit
  <2>2. p \in PagesOf(new) <=> p \in Span(base, n)
    BY DEF PagesOf
  <2>3. pmm_bitmap' = [i \in Bit |-> pmm_bitmap[i] \/ i \in Span(base, n)]
    BY DEF Take, bitmap_set
  <2> HIDE DEF new
  <2> QED BY <2>1, <2>2, <2>3, Zenon
<1>5. \A p \in PagesOf(new) : p \in Page /\ ~pmm_bitmap[p]
  BY DEF IsFree, PagesOf
<1>6. Accounting'
  BY <1>2, <1>4 DEF PmmInv, Accounting, PagesOf
<1>7. Exclusive'
  <2>1. PagesOf(new) \subseteq Usable
    BY <1>5 DEF PmmInv, Accounting
  <2>2. \A b \in blocks : PagesOf(b) \cap PagesOf(new) = {}
    BY <1>5 DEF PmmInv, Accounting
  <2> QED BY <1>2, <2>1, <2>2 DEF PmmInv, Exclusive, PagesOf
<1> QED BY <1>3, <1>6, <1>7 DEF PmmInv

(* pmm_free of a held block unmarks its pages and no others. *)
LEMMA FreeInv ==
  ASSUME PmmInv, NEW b \in blocks, pmm_free(b)
  PROVE  PmmInv'
<1> USE PmmAssumption
<1>1. b.base \in 0..pmm_pages /\ b.pages \in Nat
  BY DEF PmmInv, TypeOK
<1>2. TypeOK'
  BY <1>1 DEF PmmInv, TypeOK, pmm_free, bitmap_clear
<1>3. \A p \in Page : pmm_bitmap'[p] <=> pmm_bitmap[p] /\ p \notin PagesOf(b)
  <2> SUFFICES ASSUME NEW p \in Page
               PROVE  pmm_bitmap'[p] <=> pmm_bitmap[p] /\ p \notin PagesOf(b)
    OBVIOUS
  <2>1. p \in Bit
    BY DEF Bit
  <2>2. p \in PagesOf(b) <=> p \in Span(b.base, b.pages)
    BY DEF PagesOf
  <2>3. pmm_bitmap' = [i \in Bit |-> pmm_bitmap[i] /\ i \notin Span(b.base, b.pages)]
    BY DEF pmm_free, bitmap_clear
  <2> QED BY <2>1, <2>2, <2>3, Zenon
<1>4. blocks' = blocks \ {b}
  BY DEF pmm_free
<1>5. Exclusive'
  BY <1>4 DEF PmmInv, Exclusive, PagesOf
<1>6. Accounting'
  <2> SUFFICES ASSUME NEW p \in Page
               PROVE  pmm_bitmap'[p] <=> \/ p \notin Usable
                                         \/ \E c \in blocks' : p \in PagesOf(c)
    BY DEF Accounting, PagesOf
  <2>1. CASE p \in PagesOf(b)
    <3>1. p \in Usable /\ \A c \in blocks' : p \notin PagesOf(c)
      BY <2>1, <1>4 DEF PmmInv, Exclusive
    <3> QED BY <3>1, <2>1, <1>3
  <2>2. CASE p \notin PagesOf(b)
    BY <2>2, <1>3, <1>4 DEF PmmInv, Accounting
  <2> QED BY <2>1, <2>2
<1> QED BY <1>2, <1>5, <1>6 DEF PmmInv

(* The pages pmm_alloc takes are free, as far as they exist. *)
LEMMA FitsFree ==
  ASSUME PmmInv, NEW n \in Sizes
  PROVE  /\ \A b \in Fits(n) : b \in 0..pmm_pages /\ IsFree(Span(b, n) \cap Page)
         /\ \A b \in Tail : b \in 0..pmm_pages /\ IsFree(Span(b, n) \cap Page)
<1> USE PmmAssumption
<1>1. \A b \in Fits(n) : b \in 0..pmm_pages /\ IsFree(Span(b, n) \cap Page)
  BY DEF Fits, IsFree
<1>2. \A b \in Tail : b \in 0..pmm_pages /\ IsFree(Span(b, n) \cap Page)
  BY DEF Tail, IsFree, PmmInv, TypeOK
<1> QED BY <1>1, <1>2

(* Every call keeps the accounts; one case per action. *)
LEMMA NextInv == PmmInv /\ [Next]_pmmVars => PmmInv'
<1> SUFFICES ASSUME PmmInv, [Next]_pmmVars PROVE PmmInv'
  OBVIOUS
<1>1. ASSUME NEW n \in Sizes, AllocFits(n) PROVE PmmInv'
  <2>1. PICK b \in Fits(n) : Take(b, n)
    BY <1>1 DEF AllocFits
  <2> QED BY <2>1, FitsFree, TakeInv
<1>2. ASSUME NEW n \in Sizes, AllocExhausted(n) PROVE PmmInv'
  <2>1. PICK b \in Tail : Take(b, n)
    BY <1>2 DEF AllocExhausted
  <2> QED BY <2>1, FitsFree, TakeInv
<1>3. ASSUME NEW b \in blocks, pmm_free(b) PROVE PmmInv'
  BY <1>3, FreeInv
<1>4. CASE UNCHANGED pmmVars
  BY <1>4 DEF pmmVars, PmmInv, TypeOK, Accounting, Exclusive, PagesOf
<1> QED BY <1>1, <1>2, <1>3, <1>4 DEF Next

-----------------------------------------------------------------------------
(* The accounts hold in every reachable state, also after memory ran out.  *)
THEOREM Invariance == Spec => []PmmInv
  BY InitInv, NextInv, PTL DEF Spec

(* The index stays within memory and the bitmap keeps its bits (pmm.c:4-7). *)
THEOREM TypeCorrect == Spec => []TypeOK
<1>1. PmmInv => TypeOK
  BY DEF PmmInv
<1> QED BY Invariance, <1>1, PTL

(* A page of memory is marked exactly when it is reserved or held          *)
(* (pmm.c:76-93).                                                          *)
THEOREM PagesAccounted == Spec => []Accounting
<1>1. PmmInv => Accounting
  BY DEF PmmInv
<1> QED BY Invariance, <1>1, PTL

(* No two holders share an existing page, and none holds a reserved one    *)
(* (pmm.c:60-93).                                                          *)
THEOREM BlocksExclusive == Spec => []Exclusive
<1>1. PmmInv => Exclusive
  BY DEF PmmInv
<1> QED BY Invariance, <1>1, PTL

-----------------------------------------------------------------------------
(* Every nonempty set of natural numbers has a least element, and so       *)
(* induction over a set of them works.                                     *)
LEMMA Least ==
  ASSUME NEW T, T \subseteq Nat, T # {}
  PROVE  \E n \in T : \A k \in T : n <= k
<1> DEFINE I == {0..n : n \in T}
<1>1. \A n \in T : IsFiniteSet(0..n)
  BY FS_Interval
<1>2. I \subseteq FiniteSubsetsOf(Nat) /\ I # {}
  <2>1. \A n \in T : 0..n \in SUBSET Nat
    OBVIOUS
  <2>2. I # {}
    OBVIOUS
  <2> QED BY <1>1, <2>1, <2>2 DEF FiniteSubsetsOf
<1>3. IsWellFoundedOn(StrictSubsetOrdering(Nat), FiniteSubsetsOf(Nat))
  BY FS_StrictSubsetOrderingWellFounded
<1>4. PICK J \in I : \A y \in I : ~(<<y, J>> \in StrictSubsetOrdering(Nat))
  <2> HIDE DEF I
  <2> QED BY <1>2, <1>3, WFMin
<1>5. PICK n \in T : J = 0..n
  BY <1>4
<1>6. \A k \in T : n <= k
  <2> SUFFICES ASSUME NEW k \in T, k < n PROVE FALSE
    OBVIOUS
  <2>1. 0..k \in I /\ (0..k) \subseteq (0..n) /\ 0..k # 0..n
    BY <1>5
  <2>2. <<0..k, J>> \in StrictSubsetOrdering(Nat)
    BY <2>1, <1>5 DEF StrictSubsetOrdering
  <2> QED BY <2>1, <2>2, <1>4
<1> QED BY <1>6

LEMMA SetInduction ==
  ASSUME NEW T, T \subseteq Nat, 0 \in T, \A n \in T : n + 1 \in T
  PROVE  T = Nat
<1> SUFFICES ASSUME Nat \ T # {} PROVE FALSE
  OBVIOUS
<1>1. PICK n \in Nat \ T : \A k \in Nat \ T : n <= k
  <2> HIDE DEF Nat
  <2>1. Nat \ T \subseteq Nat OBVIOUS
  <2> QED BY <2>1, Least
<1>2. n - 1 \in Nat
  BY <1>1
<1>3. n - 1 \in T
  BY <1>1, <1>2
<1> QED BY <1>1, <1>3


(* The loop of pmm_alloc from each index, when n pages are wanted. *)
Loops(loop, n) ==
    loop = [i \in 0..pmm_pages |->
              [f \in Nat |-> IF i = pmm_pages \/ f = n THEN << i, f >>
                             ELSE loop[i + 1][IF pmm_bitmap[i] THEN 0 ELSE f + 1]]]

(* The definition of Search's loop is one: from the end of memory down,    *)
(* each index's results are given by the next one's.                       *)
LEMMA LoopExists ==
  ASSUME NEW n \in Nat PROVE \E loop : Loops(loop, n)
<1> DEFINE D(k) == (pmm_pages - k)..pmm_pages
           Row(L, i) == [f \in Nat |-> IF i = pmm_pages \/ f = n THEN << i, f >>
                                       ELSE L[i + 1][IF pmm_bitmap[i] THEN 0 ELSE f + 1]]
           Part(L, k) == L = [i \in D(k) |-> Row(L, i)]
           T == {k \in Nat : k <= pmm_pages => \E L : Part(L, k)}
<1> USE PmmAssumption
<1>1. 0 \in T
  <2> DEFINE L == [i \in D(0) |-> [f \in Nat |-> << i, f >>]]
  <2>1. \A i \in D(0) : L[i] = Row(L, i)
    OBVIOUS
  <2>2. Part(L, 0)
    <3> HIDE DEF Row
    <3> QED BY <2>1
  <2> HIDE DEF Part
  <2> QED BY <2>2
<1>2. ASSUME NEW k \in T PROVE k + 1 \in T
  <2> SUFFICES ASSUME k + 1 <= pmm_pages PROVE \E L : Part(L, k + 1)
    OBVIOUS
  <2>1. PICK L : Part(L, k)
    OBVIOUS
  <2> DEFINE first == pmm_pages - (k + 1)
             M == [i \in D(k + 1) |-> IF i = first THEN Row(L, i) ELSE L[i]]
  <2>2. \A i \in D(k + 1) : i = first \/ i \in D(k)
    OBVIOUS
  <2>3. \A i \in D(k + 1) : i # pmm_pages => i + 1 \in D(k) /\ i + 1 \in D(k + 1) /\ i + 1 # first
    OBVIOUS
  <2>4. \A i \in D(k + 1) : i # pmm_pages => M[i + 1] = L[i + 1]
    <3> HIDE DEF Row, Part, D, first
    <3> QED BY <2>3
  <2>5. \A i \in D(k + 1) : Row(M, i) = Row(L, i)
    <3> HIDE DEF M, Part, D
    <3> QED BY <2>4
  <2>6. \A i \in D(k + 1) : M[i] = Row(L, i)
    <3> HIDE DEF Row, D, first
    <3> QED BY <2>1, <2>2
  <2>7. M = [i \in D(k + 1) |-> M[i]]
    <3> HIDE DEF Row, Part, D, first
    <3> QED OBVIOUS
  <2>8. Part(M, k + 1)
    <3> HIDE DEF M, Row, D
    <3> QED BY <2>5, <2>6, <2>7
  <2> HIDE DEF M, Part
  <2> QED BY <2>8
<1>3. T = Nat
  <2>1. T \subseteq Nat
    OBVIOUS
  <2> HIDE DEF T
  <2> QED BY <1>1, <1>2, <2>1, SetInduction
<1>4. pmm_pages \in T
  BY <1>3
<1>5. PICK L : Part(L, pmm_pages)
  BY <1>4
<1>6. D(pmm_pages) = 0..pmm_pages
  OBVIOUS
<1> QED BY <1>5, <1>6 DEF Loops

(* From index i with f free pages counted, the loop ends at an index and a *)
(* count with that many free pages before the index, having found n or     *)
(* seen all of memory, and no block of n pages that starts earlier is free.*)
Ends(i, f, n, r) ==
    LET base == r[1] - r[2]
    IN  /\ r[1] \in i..pmm_pages /\ r[2] \in 0..n
        /\ r[2] = n \/ r[1] = pmm_pages
        /\ i - f <= base
        /\ IsFree(base..(r[1] - 1))
        /\ \A b \in (i - f)..(base - 1) :
              \E q \in b..(b + n - 1) : q < r[1] /\ pmm_bitmap[q]

(* By induction from the end of memory down. *)
LEMMA LoopEnds ==
  ASSUME NEW n \in Nat \ {0}, NEW loop, Loops(loop, n),
         NEW i \in 0..pmm_pages, NEW f \in 0..n, f <= i, IsFree((i - f)..(i - 1))
  PROVE  Ends(i, f, n, loop[i][f])
<1> DEFINE Claim(j) == \A g \in 0..n : g <= j /\ IsFree((j - g)..(j - 1))
                                        => Ends(j, g, n, loop[j][g])
           T == {k \in Nat : k <= pmm_pages => Claim(pmm_pages - k)}
<1> USE PmmAssumption
<1>0. ASSUME NEW j \in 0..pmm_pages, NEW g \in Nat
      PROVE  /\ j = pmm_pages \/ g = n => loop[j][g] = << j, g >>
             /\ ~(j = pmm_pages \/ g = n) /\ pmm_bitmap[j] => loop[j][g] = loop[j + 1][0]
             /\ ~(j = pmm_pages \/ g = n) /\ ~pmm_bitmap[j] => loop[j][g] = loop[j + 1][g + 1]
  <2> DEFINE Row(k) == [h \in Nat |-> IF k = pmm_pages \/ h = n THEN << k, h >>
                                      ELSE loop[k + 1][IF pmm_bitmap[k] THEN 0 ELSE h + 1]]
  <2>1. loop = [k \in 0..pmm_pages |-> Row(k)]
    BY DEF Loops
  <2>2. loop[j] = Row(j)
    <3> HIDE DEF Row
    <3> QED BY <2>1
  <2>3. Row(j)[g] = IF j = pmm_pages \/ g = n THEN << j, g >>
                    ELSE loop[j + 1][IF pmm_bitmap[j] THEN 0 ELSE g + 1]
    OBVIOUS
  <2> HIDE DEF Row
  <2> QED BY <2>2, <2>3
<1>1. ASSUME NEW j \in 0..pmm_pages, NEW g \in 0..n, g <= j, IsFree((j - g)..(j - 1)),
             j = pmm_pages \/ g = n
      PROVE  Ends(j, g, n, loop[j][g])
  <2>1. loop[j][g] = << j, g >>
    BY <1>0, <1>1
  <2> QED BY <1>1, <2>1 DEF Ends
<1>2. 0 \in T
  BY <1>1, SMTT(30)
<1>3. ASSUME NEW k \in T PROVE k + 1 \in T
  <2> SUFFICES ASSUME k + 1 <= pmm_pages PROVE Claim(pmm_pages - (k + 1))
    OBVIOUS
  <2> DEFINE j == pmm_pages - (k + 1)
  <2>1. j \in 0..pmm_pages /\ j # pmm_pages /\ j + 1 = pmm_pages - k /\ j + 1 \in 0..pmm_pages
    OBVIOUS
  <2>2. Claim(j + 1)
    BY <2>1
  <2> HIDE DEF j
  <2> SUFFICES ASSUME NEW g \in 0..n, g <= j, IsFree((j - g)..(j - 1))
               PROVE  Ends(j, g, n, loop[j][g])
    BY DEF j
  <2>3. CASE g = n
    BY <1>1, <2>1, <2>3
  <2>4. CASE g # n /\ pmm_bitmap[j]
    <3>1. loop[j][g] = loop[j + 1][0]
      BY <1>0, <2>1, <2>4
    <3>2. Ends(j + 1, 0, n, loop[j + 1][0])
      <4>1. IsFree((j + 1 - 0)..(j + 1 - 1))
        BY <2>1 DEF IsFree
      <4> QED BY <4>1, <2>2, <2>1
    <3> DEFINE r == loop[j + 1][0]
    <3> HIDE DEF r
    <3>3. /\ r[1] \in (j + 1)..pmm_pages /\ r[2] \in 0..n
          /\ r[2] = n \/ r[1] = pmm_pages
          /\ j + 1 <= r[1] - r[2]
          /\ IsFree((r[1] - r[2])..(r[1] - 1))
          /\ \A b \in (j + 1)..(r[1] - r[2] - 1) :
                \E q \in b..(b + n - 1) : q < r[1] /\ pmm_bitmap[q]
      BY <3>2, <2>1 DEF Ends, r
    <3>4. ASSUME NEW b \in (j - g)..(r[1] - r[2] - 1)
          PROVE  \E q \in b..(b + n - 1) : q < r[1] /\ pmm_bitmap[q]
      <4>1. CASE b <= j
        <5>1. b \in Int /\ j - g <= b /\ j \in Int /\ g < n
          BY <3>3, <2>1, <2>4
        <5>2. j \in b..(b + n - 1) /\ j < r[1]
          BY <4>1, <3>3, <2>1, <5>1, SMTT(30)
        <5> QED BY <5>2, <2>4
      <4>2. CASE b > j
        <5>1. b \in (j + 1)..(r[1] - r[2] - 1)
          BY <4>2, <2>1, <3>3
        <5> QED BY <5>1, <3>3
      <4>3. b \in Int /\ j \in Int
        BY <2>1, <3>3
      <4> QED BY <4>1, <4>2, <4>3
    <3>5. Ends(j, g, n, r)
      BY <3>3, <3>4, <2>1, SMTT(30) DEF Ends
    <3> QED BY <3>1, <3>5 DEF r
  <2>5. CASE g # n /\ ~pmm_bitmap[j]
    <3>1. loop[j][g] = loop[j + 1][g + 1]
      <4>1. j \in 0..pmm_pages /\ g \in Nat /\ ~(j = pmm_pages \/ g = n)
        BY <2>1, <2>5
      <4>2. ~pmm_bitmap[j]
        BY <2>5
      <4> QED BY <4>1, <4>2, <1>0, Zenon
    <3>2. IsFree((j + 1 - (g + 1))..(j + 1 - 1))
      BY <2>1, <2>5 DEF IsFree
    <3>3. Ends(j + 1, g + 1, n, loop[j + 1][g + 1])
      <4>0. g # n /\ j \in Nat
        BY <2>1, <2>5
      <4>1. g + 1 \in 0..n /\ g + 1 <= j + 1
        BY <4>0
      <4> DEFINE h == g + 1
      <4>2. h \in 0..n /\ h <= j + 1 /\ IsFree((j + 1 - h)..(j + 1 - 1))
        BY <4>1, <3>2
      <4> HIDE DEF h
      <4>3. Ends(j + 1, h, n, loop[j + 1][h])
        BY <2>1, <2>2, <4>2
      <4> QED BY <4>3 DEF h
    <3> QED BY <3>1, <3>3, <2>1 DEF Ends
  <2> QED BY <2>3, <2>4, <2>5
<1>4. T = Nat
  <2>1. T \subseteq Nat
    OBVIOUS
  <2> HIDE DEF T
  <2> QED BY <1>2, <1>3, <2>1, SetInduction
<1>5. pmm_pages - i \in T /\ pmm_pages - (pmm_pages - i) = i
  BY <1>4, SMTT(30)
<1>6. Claim(i)
  BY <1>5, SMTT(30)
<1> QED BY <1>6

(* The loop of pmm_alloc (pmm.c:63-74) finds the lowest block of n free    *)
(* pages at or above the index, or leaves what is free at the end of       *)
(* memory.                                                                 *)
THEOREM SearchCorrect == Spec => []SearchAgrees
<1>1. TypeOK => SearchAgrees
  <2> SUFFICES ASSUME TypeOK, NEW n \in Sizes
               PROVE  LET base == Search(n)[1] - Search(n)[2]
                      IN  /\ (Search(n)[2] = n) <=> (Fits(n) # {})
                          /\ base = Min(IF Fits(n) # {} THEN Fits(n) ELSE Tail)
    BY DEF SearchAgrees
  <2> USE PmmAssumption
  <2>1. n \in Nat \ {0} /\ pmm_bitmap_index \in 0..pmm_pages
    BY DEF TypeOK
  <2> DEFINE loop == CHOOSE loop : Loops(loop, n)
             r == Search(n)
             base == r[1] - r[2]
  <2>2. Loops(loop, n)
    BY <2>1, LoopExists
  <2>3. r = loop[pmm_bitmap_index][0]
    BY DEF Search, Loops
  <2>4. Ends(pmm_bitmap_index, 0, n, r)
    <3> HIDE DEF loop, r
    <3>1. IsFree((pmm_bitmap_index - 0)..(pmm_bitmap_index - 1))
      BY <2>1 DEF IsFree
    <3>2. 0 \in 0..n /\ 0 <= pmm_bitmap_index
      BY <2>1
    <3> QED BY <2>1, <2>2, <2>3, <3>1, <3>2, LoopEnds, Zenon
  <2> HIDE DEF r
  <2>5. /\ r[1] \in pmm_bitmap_index..pmm_pages /\ r[2] \in 0..n
        /\ r[2] = n \/ r[1] = pmm_pages
        /\ pmm_bitmap_index <= base
        /\ IsFree(base..(r[1] - 1))
        /\ \A b \in pmm_bitmap_index..(base - 1) :
              \E q \in b..(b + n - 1) : q < r[1] /\ pmm_bitmap[q]
    BY <2>1, <2>4 DEF Ends
  <2>6. base \in pmm_bitmap_index..pmm_pages
    BY <2>1, <2>5
  <2>7. CASE r[2] = n
    <3>1. base \in Fits(n)
      BY <2>1, <2>5, <2>6, <2>7 DEF Fits
    <3>2. ASSUME NEW b \in Fits(n) PROVE base <= b
      BY <2>1, <2>5, <2>6 DEF Fits, IsFree
    <3>3. base = Min(Fits(n))
      BY <3>1, <3>2, <2>1 DEF Min, Fits
    <3> QED BY <3>1, <3>3, <2>7 DEF r
  <2>8. CASE r[2] # n
    <3>1. r[1] = pmm_pages
      BY <2>5, <2>8
    <3>2. ASSUME NEW b \in Fits(n) PROVE FALSE
      BY <2>1, <2>5, <2>6, <2>8, <3>1 DEF Fits, IsFree
    <3>3. base \in Tail
      BY <2>1, <2>5, <2>6, <3>1 DEF Tail
    <3>4. ASSUME NEW b \in Tail PROVE base <= b
      BY <2>1, <2>5, <2>6, <3>1 DEF Tail, IsFree
    <3>5. base = Min(Tail)
      BY <3>3, <3>4, <2>1 DEF Min, Tail
    <3> QED BY <3>2, <3>5, <2>8 DEF r
  <2> QED BY <2>7, <2>8
<1> QED BY TypeCorrect, <1>1, PTL

-----------------------------------------------------------------------------
FreePages == {p \in Page : ~pmm_bitmap[p]}
Held == {PagesOf(b) : b \in blocks} \ {{}}

(* Taking pages is the abstract Allocate of those that exist, or nothing.  *)
LEMMA TakeRefines ==
  ASSUME PmmInv, NEW n \in Sizes, NEW base \in 0..pmm_pages,
         IsFree(Span(base, n) \cap Page), Take(base, n)
  PROVE  A!Next \/ UNCHANGED << FreePages, Held >>
<1> DEFINE new == [base |-> base, pages |-> n]
<1>1. blocks' = blocks \cup {new}
  BY DEF Take
<1>2. \A p \in Page : pmm_bitmap'[p] <=> pmm_bitmap[p] \/ p \in PagesOf(new)
  <2> SUFFICES ASSUME NEW p \in Page
               PROVE  pmm_bitmap'[p] <=> pmm_bitmap[p] \/ p \in PagesOf(new)
    OBVIOUS
  <2>1. p \in Bit
    BY PmmAssumption DEF Bit
  <2>2. p \in PagesOf(new) <=> p \in Span(base, n)
    BY DEF PagesOf
  <2>3. pmm_bitmap' = [i \in Bit |-> pmm_bitmap[i] \/ i \in Span(base, n)]
    BY DEF Take, bitmap_set
  <2> HIDE DEF new
  <2> QED BY <2>1, <2>2, <2>3, Zenon
<1>3. PagesOf(new) \subseteq FreePages
  BY DEF IsFree, PagesOf, FreePages
<1> HIDE DEF new
<1>4. FreePages' = FreePages \ PagesOf(new)
  BY <1>2 DEF FreePages
<1>5. {PagesOf(b) : b \in blocks'} = {PagesOf(b) : b \in blocks} \cup {PagesOf(new)}
  BY <1>1
<1>6. Held' = (Held \cup {PagesOf(new)}) \ {{}}
  BY <1>5 DEF Held, PagesOf
<1>7. CASE PagesOf(new) = {}
  BY <1>4, <1>6, <1>7 DEF Held
<1>8. CASE PagesOf(new) # {}
  <2>1. Held' = Held \cup {PagesOf(new)}
    BY <1>6, <1>8 DEF Held
  <2>2. A!Allocate(PagesOf(new))
    BY <1>3, <1>4, <1>8, <2>1 DEF A!Allocate, FreePages, Held
  <2> QED BY <2>2, <1>3 DEF A!Next, FreePages
<1> QED BY <1>7, <1>8

(* Giving a block back is the abstract Release of its existing pages.      *)
LEMMA FreeRefines ==
  ASSUME PmmInv, NEW b \in blocks, pmm_free(b)
  PROVE  A!Next \/ UNCHANGED << FreePages, Held >>
<1>1. blocks' = blocks \ {b}
  BY DEF pmm_free
<1>2. \A p \in Page : pmm_bitmap'[p] <=> pmm_bitmap[p] /\ p \notin PagesOf(b)
  <2> SUFFICES ASSUME NEW p \in Page
               PROVE  pmm_bitmap'[p] <=> pmm_bitmap[p] /\ p \notin PagesOf(b)
    OBVIOUS
  <2>1. p \in Bit
    BY PmmAssumption DEF Bit
  <2>2. p \in PagesOf(b) <=> p \in Span(b.base, b.pages)
    BY DEF PagesOf
  <2>3. pmm_bitmap' = [i \in Bit |-> pmm_bitmap[i] /\ i \notin Span(b.base, b.pages)]
    BY DEF pmm_free, bitmap_clear
  <2> QED BY <2>1, <2>2, <2>3, Zenon
<1>3. PagesOf(b) \subseteq Page
  BY DEF PagesOf
<1>4. FreePages' = FreePages \cup PagesOf(b)
  BY <1>2, <1>3 DEF FreePages
<1>5. \A c \in blocks : c # b => PagesOf(c) \cap PagesOf(b) = {}
  BY DEF PmmInv, Exclusive
<1>6. Held' = {PagesOf(c) : c \in blocks \ {b}} \ {{}}
  BY <1>1 DEF Held, PagesOf
<1>7. CASE PagesOf(b) = {}
  <2>1. Held' = Held
    BY <1>6, <1>7 DEF Held
  <2> QED BY <1>4, <1>7, <2>1
<1>8. CASE PagesOf(b) # {}
  <2>1. Held' = Held \ {PagesOf(b)}
    BY <1>5, <1>6, <1>8 DEF Held
  <2>2. PagesOf(b) \in Held
    BY <1>8 DEF Held
  <2>3. A!Release(PagesOf(b))
    BY <1>4, <2>1, <2>2 DEF A!Release, FreePages, Held
  <2> QED BY <2>2, <2>3 DEF A!Next, Held
<1> QED BY <1>7, <1>8

(* The allocator implements PageAllocator on the pages that exist: what it *)
(* hands out was free, and what comes back was held (pmm.c:60-93).         *)
THEOREM Refinement == Spec => Allocator
<1>1. pmm_init => A!Init
  <2> SUFFICES ASSUME pmm_init PROVE A!Init
    OBVIOUS
  <2>1. FreePages = Usable
    <3>1. \A p \in Page : pmm_bitmap[p] <=> p \notin Usable
      BY InitInv DEF PmmInv, Accounting, pmm_init
    <3> QED BY <3>1 DEF FreePages, Usable
  <2>2. Held = {}
    BY DEF Held, pmm_init
  <2> QED BY <2>1, <2>2 DEF A!Init, FreePages, Held
<1>2. PmmInv /\ [Next]_pmmVars => [A!Next]_<< FreePages, Held >>
  <2> SUFFICES ASSUME PmmInv, [Next]_pmmVars
               PROVE  A!Next \/ UNCHANGED << FreePages, Held >>
    OBVIOUS
  <2>1. ASSUME NEW n \in Sizes, AllocFits(n)
        PROVE  A!Next \/ UNCHANGED << FreePages, Held >>
    <3>1. PICK b \in Fits(n) : Take(b, n)
      BY <2>1 DEF AllocFits
    <3> QED BY <3>1, FitsFree, TakeRefines
  <2>2. ASSUME NEW n \in Sizes, AllocExhausted(n)
        PROVE  A!Next \/ UNCHANGED << FreePages, Held >>
    <3>1. PICK b \in Tail : Take(b, n)
      BY <2>2 DEF AllocExhausted
    <3> QED BY <3>1, FitsFree, TakeRefines
  <2>3. ASSUME NEW b \in blocks, pmm_free(b)
        PROVE  A!Next \/ UNCHANGED << FreePages, Held >>
    BY <2>3, FreeRefines
  <2>4. CASE UNCHANGED pmmVars
    BY <2>4 DEF pmmVars, FreePages, Held, PagesOf
  <2> QED BY <2>1, <2>2, <2>3, <2>4 DEF Next
<1> QED
  BY <1>1, <1>2, Invariance, PTL DEF Spec, Allocator, A!Spec, FreePages, Held
=============================================================================
