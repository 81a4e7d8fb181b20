-------------------------------- MODULE Pmm --------------------------------
(***************************************************************************)
(* The physical page allocator, src/mm/pmm.c over src/mm/bitmap.c: one bit *)
(* per page and a next-fit index.  Addresses are page numbers.             *)
(*                                                                         *)
(* pmm_init's loops over the boot memory map are its results here: the     *)
(* pages below the end of the highest usable entry (pmm_pages), the bitmap *)
(* at the start of a usable entry with room for it, and the remaining      *)
(* usable pages free.                                                      *)
(***************************************************************************)
EXTENDS Integers, FiniteSetsExt

CONSTANTS MemMap,       \* the usable entries: records of base and length
          pmm_pages,    \* where the highest of them ends
          BitmapBase,   \* the first page of pmm_bitmap
          BitmapPages,  \* pmm_bitmap_size in pages
          BITS,         \* 8 * pmm_bitmap_size: the bits pmm_bitmap has
          Sizes         \* bound: the block lengths callers ask for

Page == 0..(pmm_pages - 1)
Span(base, n) == base..(base + n - 1)
BitmapSpan == Span(BitmapBase, BitmapPages)

(* pmm_bitmap_size is computed from pmm_pages / 8, rounded down before it  *)
(* is rounded up to whole pages: only when that drops no page is there a   *)
(* bit for each, which is the third conjunct.                              *)
ASSUME PmmAssumption ==
    /\ pmm_pages \in Nat /\ BITS \in Nat
    /\ BitmapBase \in Nat /\ BitmapPages \in Nat
    /\ pmm_pages <= BITS
    /\ Sizes \subseteq Nat \ {0}
    /\ \A e \in MemMap : /\ e.base \in Nat /\ e.length \in Nat
                         /\ e.base + e.length <= pmm_pages
    /\ \E e \in MemMap : e.base = BitmapBase /\ BitmapPages <= e.length

(* Lines 44-57: what pmm_init leaves to hand out. *)
Usable == {p \in Page : \E e \in MemMap : p \in Span(e.base, e.length)} \ BitmapSpan

VARIABLES pmm_bitmap,        \* TRUE: the bit is set, the page is taken
          pmm_bitmap_index,  \* where the next search starts
          blocks             \* the blocks callers hold: records of base and pages

pmmVars == << pmm_bitmap, pmm_bitmap_index, blocks >>

Bit == 0..(BITS - 1)

pmm_init_BitmapFree == /\ pmm_bitmap = [i \in Bit |-> i \notin Usable \cup BitmapSpan]
                       /\ pmm_bitmap_index = 0
                       /\ blocks = {}
pmm_init == /\ pmm_bitmap = [i \in Bit |-> i \notin Usable]
            /\ pmm_bitmap_index = 0
            /\ blocks = {}

bitmap_set(S) == [i \in Bit |-> pmm_bitmap[i] \/ i \in S]
bitmap_clear_OneShort(S) == [i \in Bit |-> pmm_bitmap[i] /\ ~(i \in S /\ i + 1 \in S)]
bitmap_clear(S) == [i \in Bit |-> pmm_bitmap[i] /\ i \notin S]

IsFree(S) == \A i \in S : ~pmm_bitmap[i]

-----------------------------------------------------------------------------
(* Where the search loop of pmm_alloc (63-74) may stop with n free pages.  *)
Fits_FirstPageOnly(n) == {b \in Page : /\ pmm_bitmap_index <= b
                                       /\ b + n <= pmm_pages
                                       /\ ~pmm_bitmap[b]}
Fits(n) == {b \in Page : /\ pmm_bitmap_index <= b
                         /\ b + n <= pmm_pages
                         /\ IsFree(Span(b, n))}

(* When it runs off the end instead, pages_free counts the free pages at   *)
(* the end of memory, fewer than asked for.                                *)
Tail == {b \in pmm_bitmap_index..pmm_pages : IsFree(b..(pmm_pages - 1))}

(* Lines 76-80 mark and return the n pages that start pages_free before    *)
(* the index, whether or not the loop found them.                          *)
Take_IndexNotStopped(base, n) ==
    /\ pmm_bitmap' = bitmap_set(Span(base, n))
    /\ pmm_bitmap_index' = base + n
    /\ blocks' = blocks \cup {[base |-> base, pages |-> n]}
Take(base, n) ==
    /\ pmm_bitmap' = bitmap_set(Span(base, n))
    /\ pmm_bitmap_index' = IF base + n <= pmm_pages THEN base + n ELSE pmm_pages
    /\ blocks' = blocks \cup {[base |-> base, pages |-> n]}

AllocFits(n) == \E b \in Fits(n) : /\ \A c \in Fits(n) : b <= c
                                   /\ Take(b, n)

AllocExhausted(n) == /\ Fits(n) = {}
                     /\ \E b \in Tail : /\ \A c \in Tail : b <= c
                                        /\ Take(b, n)

pmm_alloc(n) == AllocFits(n) \/ AllocExhausted(n)

(* A caller returns a block it holds. *)
pmm_free(b) ==
    /\ b \in blocks
    /\ pmm_bitmap' = bitmap_clear(Span(b.base, b.pages))
    /\ pmm_bitmap_index' = b.base
    /\ blocks' = blocks \ {b}

Next == \/ \E n \in Sizes : AllocFits(n) \/ AllocExhausted(n)
        \/ \E b \in blocks : pmm_free(b)

Spec == pmm_init /\ [][Next]_pmmVars

-----------------------------------------------------------------------------
(* The loop of pmm_alloc as the code runs it, from index i with f free     *)
(* pages counted so far: the index and the count it ends with.             *)
Search_NoReset(n) ==
    LET loop[i \in 0..pmm_pages] ==
            [f \in Nat |-> IF i = pmm_pages \/ f = n THEN << i, f >>
                           ELSE loop[i + 1][IF pmm_bitmap[i] THEN f ELSE f + 1]]
    IN  loop[pmm_bitmap_index][0]
Search(n) ==
    LET loop[i \in 0..pmm_pages] ==
            [f \in Nat |-> IF i = pmm_pages \/ f = n THEN << i, f >>
                           ELSE loop[i + 1][IF pmm_bitmap[i] THEN 0 ELSE f + 1]]
    IN  loop[pmm_bitmap_index][0]

(* The loop ends where the two actions say: the block it returns is the    *)
(* lowest fit at or above the index, or what is left at the end of memory. *)
SearchAgrees ==
    \A n \in Sizes :
        LET base == Search(n)[1] - Search(n)[2]
        IN  /\ (Search(n)[2] = n) <=> (Fits(n) # {})
            /\ base = Min(IF Fits(n) # {} THEN Fits(n) ELSE Tail)

-----------------------------------------------------------------------------
(* Type correctness of the allocator's globals (pmm.c:4-7). *)
TypeOK ==
    /\ pmm_bitmap \in [Bit -> BOOLEAN]
    /\ pmm_bitmap_index \in 0..pmm_pages
    /\ blocks \subseteq [base : 0..pmm_pages, pages : Sizes]

(* The pages of a block that exist: all of them until memory runs out.     *)
PagesOf(b) == Span(b.base, b.pages) \cap Page

(* A page is marked exactly when it is not for handing out or belongs to a *)
(* block some caller holds: no page is lost and none is given away while   *)
(* in use, the search index and exhaustion notwithstanding.                *)
Accounting ==
    \A p \in Page : pmm_bitmap[p] <=> \/ p \notin Usable
                                      \/ \E b \in blocks : p \in PagesOf(b)

(* Two callers never share a page of memory, and no caller gets a page of  *)
(* the bitmap or one the memory map reserves.                              *)
Exclusive ==
    /\ \A b, c \in blocks : b # c => PagesOf(b) \cap PagesOf(c) = {}
    /\ \A b \in blocks : PagesOf(b) \subseteq Usable

(* pmm.c:64-66 would rather panic, "Out of memory", than hand out pages    *)
(* that do not exist.                                                      *)
BlocksExist == \A b \in blocks : Span(b.base, b.pages) \subseteq Page

(* Memory, leaving out what is handed out past its end, is allocated the   *)
(* way PageAllocator promises.                                             *)
A == INSTANCE PageAllocator
       WITH free <- {p \in Page : ~pmm_bitmap[p]},
            owned <- {PagesOf(b) : b \in blocks} \ {{}}
Allocator == A!Spec
=============================================================================
