-------------------------- MODULE AddrSpaceProofs --------------------------
(***************************************************************************)
(* Proofs about the address spaces of module AddrSpace, for every size of  *)
(* memory, number and shape of tables, programs and tasks.                 *)
(***************************************************************************)
EXTENDS AddrSpace, FiniteSetTheorems, WellFoundedInduction, TLAPS

(* A set of naturals that is not empty has a least member.                 *)
LEMMA Least == ASSUME NEW T, T \subseteq Nat, T # {}
               PROVE  \E n \in T : \A k \in T : n <= k
<1> DEFINE I == {0..n : n \in T}
<1>1. \A n \in T : IsFiniteSet(0..n)
  BY FS_Interval
<1>2. I \subseteq FiniteSubsetsOf(Nat) /\ I # {}
  <2>1. \A n \in T : 0..n \in SUBSET Nat
    OBVIOUS
  <2>2. I # {}
    OBVIOUS
  <2> QED BY <1>1, <2>1, <2>2 DEF FiniteSubsetsOf
<1>3. IsWellFoundedOn(StrictSubsetOrdering(Nat), FiniteSubsetsOf(Nat))
  BY FS_StrictSubsetOrderingWellFounded
<1>4. PICK J \in I : \A y \in I : ~(<<y, J>> \in StrictSubsetOrdering(Nat))
  <2> HIDE DEF I
  <2> QED BY <1>2, <1>3, WFMin
<1>5. PICK n \in T : J = 0..n
  BY <1>4
<1>6. \A k \in T : n <= k
  <2> SUFFICES ASSUME NEW k \in T, k < n PROVE FALSE
    OBVIOUS
  <2>1. 0..k \in I /\ (0..k) \subseteq (0..n) /\ 0..k # 0..n
    BY <1>5
  <2>2. <<0..k, J>> \in StrictSubsetOrdering(Nat)
    BY <2>1, <1>5 DEF StrictSubsetOrdering
  <2> QED BY <2>1, <2>2, <1>4
<1> QED BY <1>6

(* Induction over the naturals, by the set of those it reached.            *)
LEMMA SetInduction == ASSUME NEW T, T \subseteq Nat, 0 \in T, \A n \in T : n + 1 \in T
                      PROVE  T = Nat
<1> SUFFICES ASSUME Nat \ T # {} PROVE FALSE
  OBVIOUS
<1>1. PICK n \in Nat \ T : \A k \in Nat \ T : n <= k
  <2> HIDE DEF Nat
  <2>1. Nat \ T \subseteq Nat OBVIOUS
  <2> QED BY <2>1, Least
<1>2. n - 1 \in Nat
  BY <1>1
<1>3. n - 1 \in T
  BY <1>1, <1>2
<1> QED BY <1>1, <1>3

(* Steps of an iteration over S, and the sequence of its results. *)
Steps(S_, N) == [S_ \X (1..N) -> S_]
IsRun(f, S_, s0, N, g) ==
    /\ f \in [0..N -> S_] /\ f[0] = s0
    /\ \A n \in 1..N : f[n] = g[<< f[n - 1], n >>]

(* A definition by recursion over 0..N has a solution. *)
LEMMA Iteration ==
  ASSUME NEW S_, NEW s0 \in S_, NEW N \in Nat, NEW g \in Steps(S_, N)
  PROVE  \E f : IsRun(f, S_, s0, N, g)
<1> USE DEF Steps
<1> DEFINE P(f, k) == /\ f \in [0..k -> S_] /\ f[0] = s0 
                      /\ \A n \in 1..k : f[n] = g[<<f[n - 1], n>>]
           T == {k \in Nat : k <= N => \E f \in [0..k -> S_] : P(f, k)}
<1>1. 0 \in T
  <2> [n \in 0..0 |-> s0] \in [0..0 -> S_]
    OBVIOUS
  <2> P([n \in 0..0 |-> s0], 0)
    OBVIOUS
  <2> QED OBVIOUS
<1>2. ASSUME NEW k \in T PROVE k + 1 \in T
  <2> SUFFICES ASSUME k + 1 <= N PROVE \E f \in [0..(k + 1) -> S_] : P(f, k + 1)
    OBVIOUS
  <2>1. PICK f \in [0..k -> S_] : P(f, k)
    OBVIOUS
  <2> DEFINE h == [n \in 0..(k + 1) |-> IF n <= k THEN f[n] ELSE g[<<f[k], k + 1>>]]
  <2>2. <<f[k], k + 1>> \in S_ \X (1..N)
    BY <2>1
  <2>3. h \in [0..(k + 1) -> S_]
    BY <2>1, <2>2
  <2>4. ASSUME NEW n \in 1..(k + 1) PROVE h[n] = g[<<h[n - 1], n>>]
    <3>1. n - 1 \in 0..(k + 1) /\ n - 1 <= k /\ h[n - 1] = f[n - 1]
      OBVIOUS
    <3>2. CASE n <= k
      <4>1. n \in 1..k /\ h[n] = f[n]
        BY <3>2
      <4> HIDE DEF h
      <4> QED BY <4>1, <3>1, <2>1
    <3>3. CASE n = k + 1
      <4>1. h[n] = g[<<f[k], k + 1>>] /\ n - 1 = k
        BY <3>3
      <4> HIDE DEF h
      <4> QED BY <4>1, <3>1, <3>3
    <3>4. n <= k \/ n = k + 1
      OBVIOUS
    <3> QED BY <3>2, <3>3, <3>4
  <2>5. h[0] = s0
    BY <2>1
  <2> HIDE DEF h
  <2> QED BY <2>3, <2>4, <2>5
<1>3. T = Nat
  <2> HIDE DEF T
  <2>1. T \subseteq Nat BY DEF T
  <2> QED BY <1>1, <1>2, <2>1, SetInduction
<1>4. N \in T
  BY <1>3
<1> QED BY <1>4 DEF IsRun

-----------------------------------------------------------------------------
(* Addresses and indexes.                                                  *)

(* What the constants are.                                                 *)
LEMMA Params ==
  /\ Pages \in Nat \ {0} /\ NULL \notin Page
  /\ LEVELS \in Nat \ {0} /\ ENTRIES \in Nat \ {0} /\ BLOCK \in Nat \ {0}
  /\ Shift(Pages - 1, LEVELS) = 0 /\ Base \in Nat
  BY AddrSpaceAssumption DEF AddrSpaceAssumption

(* An address without its lowest digits, one division at a time.           *)
LEMMA ShiftFacts ==
  ASSUME NEW v \in Nat
  PROVE  /\ Shift(v, 0) = v
         /\ \A k \in 0..LEVELS : Shift(v, k) \in Nat
         /\ \A k \in 1..LEVELS : Shift(v, k) = Shift(v, k - 1) \div ENTRIES
<1> USE Params
<1> DEFINE q == [n \in Nat |-> n \div ENTRIES]
           Eq(f) == f = [k \in 0..LEVELS |-> IF k = 0 THEN v ELSE f[k - 1] \div ENTRIES]
           g == [x \in Nat \X (1..LEVELS) |-> q[x[1]]]
           shift == CHOOSE f : Eq(f)
<1>1. q \in [Nat -> Nat] /\ \A n \in Nat : n \div ENTRIES = q[n]
  OBVIOUS
<1> HIDE DEF q
<1>2. g \in Steps(Nat, LEVELS)
  BY <1>1 DEF Steps
<1>3. PICK f : IsRun(f, Nat, v, LEVELS, g)
  <2> HIDE DEF g, Eq
  <2>1. LEVELS \in Nat
    OBVIOUS
  <2> QED BY <1>2, <2>1, Iteration
<1>4. Eq(f)
  <2>1. \A k \in 1..LEVELS : f[k - 1] \in Nat /\ g[<< f[k - 1], k >>] = q[f[k - 1]]
    BY <1>3 DEF IsRun
  <2>2. \A k \in 1..LEVELS : g[<< f[k - 1], k >>] = f[k - 1] \div ENTRIES
    BY <1>1, <2>1
  <2> DEFINE body(k) == IF k = 0 THEN v ELSE f[k - 1] \div ENTRIES
  <2>3. \A k \in 0..LEVELS : f[k] = body(k)
    <3> HIDE DEF g
    <3>1. f[0] = v /\ \A k \in 1..LEVELS : f[k] = g[<< f[k - 1], k >>]
      BY <1>3 DEF IsRun
    <3>2. \A k \in 1..LEVELS : f[k] = f[k - 1] \div ENTRIES
      BY <2>2, <3>1
    <3>3. \A k \in 0..LEVELS : k = 0 \/ k \in 1..LEVELS
      OBVIOUS
    <3> QED BY <3>1, <3>2, <3>3
  <2> HIDE DEF g, body
  <2>4. f = [k \in 0..LEVELS |-> body(k)]
    BY <1>3, <2>3 DEF IsRun
  <2> QED BY <2>4 DEF body
<1>5. Eq(shift)
  <2> HIDE DEF Eq
  <2> QED BY <1>4
<1>6. \A k \in 0..LEVELS : Shift(v, k) = shift[k]
  BY DEF Shift
<1> HIDE DEF shift
<1>7. shift[0] = v /\ \A k \in 1..LEVELS : shift[k] = shift[k - 1] \div ENTRIES
  BY <1>5
<1>8. \A k \in 0..LEVELS : shift[k] \in Nat
  <2> DEFINE T == {n \in Nat : n <= LEVELS => shift[n] \in Nat}
  <2> HIDE DEF Eq, g
  <2>1. ASSUME NEW n \in T PROVE n + 1 \in T
    <3> SUFFICES ASSUME n + 1 <= LEVELS PROVE shift[n + 1] \in Nat
      OBVIOUS
    <3>1. shift[n] \in Nat /\ n + 1 \in 1..LEVELS /\ n + 1 - 1 = n
      OBVIOUS
    <3>2. shift[n + 1] = q[shift[n]]
      <4>1. \A k \in 1..LEVELS : shift[k - 1] \in Nat => shift[k] = q[shift[k - 1]]
        BY <1>1, <1>7
      <4> QED BY <4>1, <3>1
    <3> QED BY <1>1, <3>1, <3>2
  <2>2. T = Nat
    <3>1. T \subseteq Nat /\ 0 \in T
      BY <1>7
    <3> HIDE DEF T
    <3> QED BY <2>1, <3>1, SetInduction
  <2> QED BY <2>2
<1> HIDE DEF Eq, g
<1> QED BY <1>6, <1>7, <1>8

(* An index is one of a table's entries, and the digits of an address in   *)
(* range are the address.                                                  *)
LEMMA IndexFacts ==
  ASSUME NEW v \in Nat, NEW k \in 0..LEVELS
  PROVE  Index(v, k) \in Entry
  BY Params, ShiftFacts DEF Index, Entry

(* Quotient and remainder determine a number, and division keeps order.    *)
LEMMA Division ==
  ASSUME NEW a \in Nat, NEW b \in Nat, NEW e \in Nat \ {0}
  PROVE  /\ a % e = b % e /\ a \div e = b \div e => a = b
         /\ a <= b => a \div e <= b \div e
<1>1. a = e * (a \div e) + (a % e) /\ b = e * (b \div e) + (b % e)
  OBVIOUS
<1>2. a <= b => a \div e <= b \div e
  OBVIOUS
<1> QED BY <1>1, <1>2

LEMMA DigitsFrom ==
  ASSUME NEW a \in Nat, NEW b \in Nat, Shift(a, LEVELS) = 0, Shift(b, LEVELS) = 0,
         NEW j \in 0..LEVELS,
         \A k \in j..(LEVELS - 1) : Index(a, k) = Index(b, k)
  PROVE  Shift(a, j) = Shift(b, j)
<1> USE Params
<1> DEFINE T == {n \in Nat : n <= LEVELS - j => Shift(a, LEVELS - n) = Shift(b, LEVELS - n)}
<1>1. 0 \in T
  OBVIOUS
<1>2. ASSUME NEW n \in T PROVE n + 1 \in T
  <2> SUFFICES ASSUME n + 1 <= LEVELS - j
               PROVE  Shift(a, LEVELS - (n + 1)) = Shift(b, LEVELS - (n + 1))
    OBVIOUS
  <2> DEFINE k == LEVELS - (n + 1)
  <2>1. k \in j..(LEVELS - 1) /\ k \in 0..LEVELS /\ k + 1 \in 1..LEVELS /\ k + 1 = LEVELS - n /\ k + 1 - 1 = k
    OBVIOUS
  <2>2. Shift(a, k + 1) = Shift(b, k + 1)
    BY <2>1
  <2> HIDE DEF k
  <2>3. Shift(a, k) \div ENTRIES = Shift(b, k) \div ENTRIES
    BY <2>1, <2>2, ShiftFacts
  <2>4. Shift(a, k) % ENTRIES = Shift(b, k) % ENTRIES
    BY <2>1 DEF Index
  <2>5. Shift(a, k) \in Nat /\ Shift(b, k) \in Nat
    BY <2>1, ShiftFacts
  <2>6. Shift(a, k) = Shift(b, k)
    BY <2>3, <2>4, <2>5, Division
  <2> QED BY <2>6 DEF k
<1>3. T = Nat
  <2>1. T \subseteq Nat
    OBVIOUS
  <2> HIDE DEF T
  <2> QED BY <1>1, <1>2, <2>1, SetInduction
<1>4. LEVELS - j \in T
  <2>1. LEVELS - j \in Nat
    OBVIOUS
  <2> HIDE DEF T
  <2> QED BY <1>3, <2>1
<1>5. Shift(a, LEVELS - (LEVELS - j)) = Shift(b, LEVELS - (LEVELS - j)) /\ LEVELS - (LEVELS - j) = j
  BY <1>4
<1> QED BY <1>5

(* All the digits of an address are the address. *)
LEMMA Digits ==
  ASSUME NEW a \in Nat, NEW b \in Nat, Shift(a, LEVELS) = 0, Shift(b, LEVELS) = 0,
         \A k \in 0..(LEVELS - 1) : Index(a, k) = Index(b, k)
  PROVE  a = b
<1>1. 0 \in 0..LEVELS
  BY Params
<1>2. Shift(a, 0) = Shift(b, 0)
  BY <1>1, DigitsFrom
<1> QED BY <1>2, ShiftFacts

(* Every page of memory has an address the tables reach. *)
LEMMA PagesInRange ==
  ASSUME NEW p \in Page
  PROVE  p \in Nat /\ Shift(p, LEVELS) = 0
<1> USE Params DEF Page
<1> DEFINE T == {n \in Nat : n <= LEVELS => Shift(p, n) <= Shift(Pages - 1, n)}
<1>1. p \in Nat /\ Pages - 1 \in Nat /\ p <= Pages - 1
  OBVIOUS
<1>2. 0 \in T
  BY <1>1, ShiftFacts
<1>3. ASSUME NEW n \in T PROVE n + 1 \in T
  <2> SUFFICES ASSUME n + 1 <= LEVELS PROVE Shift(p, n + 1) <= Shift(Pages - 1, n + 1)
    OBVIOUS
  <2>1. n \in 0..LEVELS /\ n + 1 \in 1..LEVELS /\ n + 1 - 1 = n
    OBVIOUS
  <2>2. Shift(p, n) \in Nat /\ Shift(Pages - 1, n) \in Nat /\ Shift(p, n) <= Shift(Pages - 1, n)
    BY <1>1, <2>1, ShiftFacts
  <2>3. /\ Shift(p, n + 1) = Shift(p, n) \div ENTRIES
        /\ Shift(Pages - 1, n + 1) = Shift(Pages - 1, n) \div ENTRIES
    BY <1>1, <2>1, ShiftFacts
  <2> QED BY <2>2, <2>3, Division
<1>4. T = Nat
  <2>1. T \subseteq Nat
    OBVIOUS
  <2> HIDE DEF T
  <2> QED BY <1>2, <1>3, <2>1, SetInduction
<1>5. LEVELS \in T /\ LEVELS \in 0..LEVELS
  BY <1>4
<1>6. Shift(p, LEVELS) \in Nat /\ Shift(p, LEVELS) <= 0
  BY <1>1, <1>5, ShiftFacts
<1> QED BY <1>1, <1>6

-----------------------------------------------------------------------------
(* Memories.                                                               *)

Use == [as : Kind, of : Owner, at : Page, usable : BOOLEAN]
Slot == Page \cup {NULL}
Tables == UNION {[D -> [Entry -> Slot]] : D \in SUBSET Page}
Mem == [use : [Page -> Use], pmm_bitmap_index : 0..Pages, table : Tables,
        mapped : 0..Pages, full : BOOLEAN]

(* Whatever is read from a page is a table.                                *)
LEMMA HeldFacts ==
  ASSUME NEW m \in Mem
  PROVE  /\ m.table \in Tables /\ DOMAIN m.table \subseteq Page
         /\ \A p : Held(m, p) \in [Entry -> Slot]
         /\ Held(m, NULL) = Junk
<1>1. m.table \in Tables
  BY DEF Mem
<1>2. PICK D \in SUBSET Page : m.table \in [D -> [Entry -> Slot]]
  BY <1>1 DEF Tables
<1>3. Junk \in [Entry -> Slot]
  BY Params DEF Junk, Slot, Page
<1>4. \A p : Held(m, p) \in [Entry -> Slot]
  BY <1>2, <1>3 DEF Held
<1>5. NULL \notin DOMAIN m.table
  BY <1>2, Params
<1> QED BY <1>1, <1>2, <1>4, <1>5 DEF Held

(* Writing a page changes what that page holds, and no other.              *)
LEMMA WriteFacts ==
  ASSUME NEW m \in Mem, NEW p \in Page, NEW c \in [Entry -> Slot]
  PROVE  /\ Write(m, p, c) \in Mem
         /\ Write(m, p, c).use = m.use
         /\ Write(m, p, c).pmm_bitmap_index = m.pmm_bitmap_index
         /\ Write(m, p, c).mapped = m.mapped
         /\ Write(m, p, c).full = m.full
         /\ \A q : Held(Write(m, p, c), q) = IF q = p THEN c ELSE Held(m, q)
<1> DEFINE D == (DOMAIN m.table) \cup {p}
           T == [q \in D |-> IF q = p THEN c ELSE m.table[q]]
<1>1. PICK C \in SUBSET Page : m.table \in [C -> [Entry -> Slot]]
  BY DEF Mem, Tables
<1>2. D \in SUBSET Page /\ T \in [D -> [Entry -> Slot]]
  BY <1>1
<1>3. T \in Tables
  <2> HIDE DEF D, T
  <2> QED BY <1>2 DEF Tables
<1>4. Write(m, p, c) = [m EXCEPT !.table = T]
  BY DEF Write
<1>5. DOMAIN T = D
  OBVIOUS
<1> HIDE DEF T
<1>6. /\ Write(m, p, c) \in Mem /\ Write(m, p, c).table = T
      /\ Write(m, p, c).use = m.use
      /\ Write(m, p, c).pmm_bitmap_index = m.pmm_bitmap_index
      /\ Write(m, p, c).mapped = m.mapped
      /\ Write(m, p, c).full = m.full
  BY <1>3, <1>4 DEF Mem
<1>7. \A q \in D : T[q] = IF q = p THEN c ELSE m.table[q]
  BY DEF T
<1>8. \A q : Held(Write(m, p, c), q) = IF q = p THEN c ELSE Held(m, q)
  BY <1>5, <1>6, <1>7 DEF Held
<1> QED BY <1>6, <1>8

(* Storing an entry changes that entry.                                    *)
LEMMA StoreFacts ==
  ASSUME NEW m \in Mem, NEW p \in Page, NEW i \in Entry, NEW v \in Slot
  PROVE  /\ Store(m, p, i, v) \in Mem
         /\ Store(m, p, i, v).use = m.use
         /\ Store(m, p, i, v).pmm_bitmap_index = m.pmm_bitmap_index
         /\ Store(m, p, i, v).mapped = m.mapped
         /\ Store(m, p, i, v).full = m.full
         /\ \A q : \A j \in Entry :
               Held(Store(m, p, i, v), q)[j] = IF q = p /\ j = i THEN v ELSE Held(m, q)[j]
<1> DEFINE c == [Held(m, p) EXCEPT ![i] = v]
<1>1. c \in [Entry -> Slot]
  BY HeldFacts
<1>2. Store(m, p, i, v) = Write(m, p, c)
  BY DEF Store
<1>3. \A j \in Entry : c[j] = IF j = i THEN v ELSE Held(m, p)[j]
  BY HeldFacts
<1> HIDE DEF c
<1> QED BY <1>1, <1>2, <1>3, WriteFacts

(* pmm_alloc takes free pages, or says that memory is full. *)
LEMMA NextFits ==
  ASSUME NEW m, NEW n, Fits(m, n) # {}
  PROVE  Next_(m, n) \in Fits(m, n) /\ \A q \in Fits(m, n) : Next_(m, n) <= q
<1>1. Fits(m, n) \subseteq Nat
  BY Params DEF Fits, Page
<1>2. \E p \in Fits(m, n) : \A q \in Fits(m, n) : p <= q
  BY <1>1, Least
<1> QED BY <1>2 DEF Next_

LEMMA AllocFacts ==
  ASSUME NEW m \in Mem, NEW n \in Nat \ {0}, NEW kind \in Kind, NEW t \in Owner,
         NEW m2, m2 = pmm_alloc(m, n, kind, t), NEW a, a = Next_(m, n)
  PROVE  /\ m2 \in Mem /\ m2.mapped = m.mapped
         /\ \A p : Held(m2, p) = Held(m, p)
         /\ m.full => m2.full
         /\ ~m2.full =>
               /\ a \in Page /\ a + n <= Pages
               /\ \A p \in a..(a + n - 1) : p \in Page /\ m.use[p] = Free
               /\ m2.pmm_bitmap_index = a + n
               /\ \A p \in Page : m2.use[p] = IF p \in a..(a + n - 1)
                                THEN [as |-> kind, of |-> t, at |-> a, usable |-> FALSE]
                                ELSE m.use[p]
<1>1. CASE Fits(m, n) = {}
  <2>1. m2 = [m EXCEPT !.full = TRUE]
    BY <1>1 DEF pmm_alloc
  <2>2. m2 \in Mem /\ m2.mapped = m.mapped /\ m2.table = m.table /\ m2.full
    BY <2>1 DEF Mem
  <2> QED BY <2>2 DEF Held
<1>2. CASE Fits(m, n) # {}
  <2> DEFINE part == [as |-> kind, of |-> t, at |-> a, usable |-> FALSE]
             U == [p \in Page |-> IF p \in a..(a + n - 1) THEN part ELSE m.use[p]]
  <2>1. a \in Fits(m, n)
    BY <1>2, NextFits
  <2>2. a \in Page /\ a + n <= Pages /\ \A p \in a..(a + n - 1) : m.use[p] = Free
    BY <2>1 DEF Fits
  <2>3. a \in Nat /\ \A p \in a..(a + n - 1) : p \in Page
    BY <2>2, Params DEF Page
  <2>4. part \in Use
    BY <2>2 DEF Use
  <2>5. U \in [Page -> Use]
    <3> HIDE DEF part
    <3>1. m.use \in [Page -> Use]
      BY DEF Mem
    <3> QED BY <2>4, <3>1
  <2>6. m2 = [m EXCEPT !.use = U, !.pmm_bitmap_index = a + n]
    BY <1>2 DEF pmm_alloc
  <2>7. a + n \in 0..Pages
    BY <2>2, <2>3
  <2> HIDE DEF U
  <2>8. /\ m2 \in Mem /\ m2.mapped = m.mapped /\ m2.table = m.table /\ m2.full = m.full
        /\ m2.use = U /\ m2.pmm_bitmap_index = a + n
    BY <2>5, <2>6, <2>7 DEF Mem
  <2>9. \A p \in Page : U[p] = IF p \in a..(a + n - 1) THEN part ELSE m.use[p]
    BY DEF U
  <2>10. \A p : Held(m2, p) = Held(m, p)
    BY <2>8 DEF Held
  <2> QED BY <2>2, <2>3, <2>8, <2>9, <2>10
<1> QED BY <1>1, <1>2

-----------------------------------------------------------------------------
(* Walks through the tables.                                               *)

PathEq(f, m, map, v) ==
    f = [n \in 0..LEVELS |->
           IF n = 0 THEN map
           ELSE IF f[n - 1] = NULL THEN NULL
           ELSE Held(m, f[n - 1])[Index(v, LEVELS - n)]]
Path(m, map, v) == CHOOSE f : PathEq(f, m, map, v)

(* What lies on the walk of an address after n tables. *)
LEMMA PathFacts ==
  ASSUME NEW m \in Mem, NEW map \in Slot, NEW v \in Nat
  PROVE  /\ Path(m, map, v)[0] = map
         /\ \A n \in 1..LEVELS :
               Path(m, map, v)[n] = IF Path(m, map, v)[n - 1] = NULL THEN NULL
                                    ELSE Held(m, Path(m, map, v)[n - 1])[Index(v, LEVELS - n)]
         /\ \A n \in 0..LEVELS : Path(m, map, v)[n] \in Slot
         /\ Translation(m, map, v) = Path(m, map, v)[LEVELS]
<1> USE Params
<1> DEFINE step(s, n) == IF s = NULL THEN NULL ELSE Held(m, s)[Index(v, LEVELS - n)]
           g == [x \in Slot \X (1..LEVELS) |-> step(x[1], x[2])]
           path == Path(m, map, v)
<1>1. \A s \in Slot, n \in 1..LEVELS : step(s, n) \in Slot
  <2>1. \A n \in 1..LEVELS : LEVELS - n \in 0..LEVELS
    OBVIOUS
  <2> QED BY <2>1, HeldFacts, IndexFacts DEF Slot
<1> HIDE DEF step
<1>2. g \in Steps(Slot, LEVELS)
  BY <1>1 DEF Steps
<1>3. PICK f : IsRun(f, Slot, map, LEVELS, g)
  <2> HIDE DEF g
  <2>1. LEVELS \in Nat
    OBVIOUS
  <2> QED BY <1>2, <2>1, Iteration
<1>4. f \in [0..LEVELS -> Slot] /\ f[0] = map /\ \A n \in 1..LEVELS : f[n] = step(f[n - 1], n)
  <2>1. f \in [0..LEVELS -> Slot] /\ f[0] = map /\ \A n \in 1..LEVELS : f[n] = g[<< f[n - 1], n >>]
    <3> HIDE DEF g
    <3> QED BY <1>3 DEF IsRun
  <2>2. \A n \in 1..LEVELS : << f[n - 1], n >> \in Slot \X (1..LEVELS)
    BY <2>1
  <2> QED BY <2>1, <2>2
<1> HIDE DEF g
<1>5. PathEq(f, m, map, v)
  <2> DEFINE body(n) == IF n = 0 THEN map ELSE step(f[n - 1], n)
  <2>1. \A n \in 0..LEVELS : f[n] = body(n)
    BY <1>4
  <2> HIDE DEF body
  <2>2. f = [n \in 0..LEVELS |-> body(n)]
    BY <1>4, <2>1
  <2> QED BY <2>2 DEF body, step, PathEq
<1>6. PathEq(path, m, map, v)
  BY <1>5 DEF Path
<1>7. Translation(m, map, v) = path[LEVELS]
  BY DEF Translation, Path, PathEq
<1> HIDE DEF path
<1>8. path = [n \in 0..LEVELS |-> IF n = 0 THEN map ELSE step(path[n - 1], n)]
  BY <1>6 DEF PathEq, step
<1>9. path[0] = map /\ \A n \in 1..LEVELS : path[n] = step(path[n - 1], n)
  BY <1>8
<1>10. \A n \in 0..LEVELS : path[n] \in Slot
  <2> DEFINE T == {n \in Nat : n <= LEVELS => path[n] \in Slot}
  <2>1. T = Nat
    <3>1. 0 \in T
      BY <1>9
    <3>2. ASSUME NEW n \in T PROVE n + 1 \in T
      <4> SUFFICES ASSUME n + 1 <= LEVELS PROVE path[n + 1] \in Slot
        OBVIOUS
      <4>1. path[n] \in Slot /\ n + 1 \in 1..LEVELS /\ n + 1 - 1 = n
        OBVIOUS
      <4>2. path[n + 1] = step(path[n], n + 1)
        BY <1>9, <4>1
      <4> QED BY <1>1, <4>1, <4>2
    <3>3. T \subseteq Nat
      OBVIOUS
    <3> HIDE DEF T
    <3> QED BY <3>1, <3>2, <3>3, SetInduction
  <2> QED BY <2>1
<1> QED BY <1>7, <1>9, <1>10 DEF step, path

(* The tables of every owner, from the top table down.  Level 0 holds what *)
(* is mapped; above it, each entry of a table leads to a table of the same *)
(* owner one level below, and no two entries lead to the same one.         *)
IsTable(m, p) == m.use[p].as \in {"map", "table"}
Level == [Page -> 0..(LEVELS - 1)]
TopLevel(m, lv) == \A p \in Page : m.use[p].as = "map" => lv[p] = LEVELS - 1
Child(m, lv, d, q) ==
    /\ lv[d] > 0 => m.use[q].as = "table" /\ m.use[q].of = m.use[d].of /\ lv[q] = lv[d] - 1
    /\ lv[d] = 0 /\ m.use[d].of # NULL
          => m.use[q].as \in {"segment", "heap"} /\ m.use[q].of = m.use[d].of
Children(m, lv) == \A d \in Page, i \in Entry :
    IsTable(m, d) /\ Held(m, d)[i] # NULL => Child(m, lv, d, Held(m, d)[i])
OneParent(m, lv) == \A d, e \in Page, i, j \in Entry :
    /\ IsTable(m, d) /\ IsTable(m, e) /\ lv[d] > 0 /\ lv[e] > 0
    /\ Held(m, d)[i] # NULL /\ Held(m, d)[i] = Held(m, e)[j]
    => d = e /\ i = j
Shape(m, lv) == lv \in Level /\ TopLevel(m, lv) /\ Children(m, lv) /\ OneParent(m, lv)

IsRoot(m, r) == r \in Page /\ m.use[r].as = "map"

(* A walk from a top table goes down one level at a time, through tables   *)
(* of one owner.                                                           *)
LEMMA PathLevel ==
  ASSUME NEW m \in Mem, NEW lv, Shape(m, lv), NEW r, IsRoot(m, r), NEW v \in Nat,
         NEW n \in 0..(LEVELS - 1), Path(m, r, v)[n] # NULL
  PROVE  LET d == Path(m, r, v)[n]
         IN  /\ d \in Page /\ IsTable(m, d) /\ m.use[d].of = m.use[r].of
             /\ lv[d] = LEVELS - 1 - n
<1> USE Params
<1> DEFINE path == Path(m, r, v)
           Good(k) == path[k] # NULL =>
                         /\ path[k] \in Page /\ IsTable(m, path[k])
                         /\ m.use[path[k]].of = m.use[r].of /\ lv[path[k]] = LEVELS - 1 - k
           T == {k \in Nat : k <= LEVELS - 1 => Good(k)}
<1>1. /\ path[0] = r
      /\ \A k \in 1..LEVELS : path[k] = IF path[k - 1] = NULL THEN NULL
                                        ELSE Held(m, path[k - 1])[Index(v, LEVELS - k)]
      /\ \A k \in 0..LEVELS : path[k] \in Slot
  BY PathFacts DEF IsRoot, Slot
<1> HIDE DEF path
<1>2. 0 \in T
  BY <1>1 DEF IsRoot, IsTable, Shape, TopLevel
<1>3. ASSUME NEW k \in T PROVE k + 1 \in T
  <2> SUFFICES ASSUME k + 1 <= LEVELS - 1, path[k + 1] # NULL PROVE Good(k + 1)
    OBVIOUS
  <2> DEFINE d == path[k]
             q == path[k + 1]
             i == Index(v, LEVELS - (k + 1))
  <2>1. k + 1 \in 1..LEVELS /\ k + 1 - 1 = k /\ LEVELS - (k + 1) \in 0..LEVELS
    OBVIOUS
  <2>2. d # NULL /\ q = Held(m, d)[i] /\ i \in Entry
    BY <1>1, <2>1, IndexFacts
  <2>3. d \in Page /\ IsTable(m, d) /\ m.use[d].of = m.use[r].of /\ lv[d] = LEVELS - 1 - k
    BY <2>2
  <2>4. q \in Page
    BY <1>1, <2>1 DEF Slot
  <2>5. lv[d] > 0
    BY <2>3
  <2> HIDE DEF d, q, i
  <2>6. m.use[q].as = "table" /\ m.use[q].of = m.use[d].of /\ lv[q] = lv[d] - 1
    BY <2>2, <2>3, <2>5 DEF Shape, Children, Child, q
  <2> QED BY <2>3, <2>4, <2>6 DEF q, IsTable
<1>4. T = Nat
  <2>1. T \subseteq Nat
    OBVIOUS
  <2> HIDE DEF T
  <2> QED BY <1>2, <1>3, <2>1, SetInduction
<1>5. n \in T
  <2> HIDE DEF T
  <2> QED BY <1>4
<1> QED BY <1>5 DEF path

(* Two walks that meet in a table came from one top table by one way. *)
LEMMA PathUnique ==
  ASSUME NEW m \in Mem, NEW lv, Shape(m, lv),
         NEW r, IsRoot(m, r), NEW v \in Nat, NEW s, IsRoot(m, s), NEW w \in Nat,
         NEW n \in 0..(LEVELS - 1),
         Path(m, r, v)[n] # NULL, Path(m, r, v)[n] = Path(m, s, w)[n]
  PROVE  r = s /\ \A k \in 1..n : Index(v, LEVELS - k) = Index(w, LEVELS - k)
<1> USE Params
<1> DEFINE a == Path(m, r, v)
           b == Path(m, s, w)
           Same(k) == a[k] # NULL /\ a[k] = b[k] =>
                         r = s /\ \A j \in 1..k : Index(v, LEVELS - j) = Index(w, LEVELS - j)
           T == {k \in Nat : k <= LEVELS - 1 => Same(k)}
<1>1. /\ a[0] = r /\ b[0] = s
      /\ \A k \in 1..LEVELS : a[k] = IF a[k - 1] = NULL THEN NULL
                                     ELSE Held(m, a[k - 1])[Index(v, LEVELS - k)]
      /\ \A k \in 1..LEVELS : b[k] = IF b[k - 1] = NULL THEN NULL
                                     ELSE Held(m, b[k - 1])[Index(w, LEVELS - k)]
  BY PathFacts DEF IsRoot, Slot
<1>2. \A k \in 0..(LEVELS - 1) :
         /\ a[k] # NULL => a[k] \in Page /\ IsTable(m, a[k]) /\ lv[a[k]] = LEVELS - 1 - k
         /\ b[k] # NULL => b[k] \in Page /\ IsTable(m, b[k]) /\ lv[b[k]] = LEVELS - 1 - k
  BY PathLevel
<1> HIDE DEF a, b
<1>3. 0 \in T
  BY <1>1
<1>4. ASSUME NEW k \in T PROVE k + 1 \in T
  <2> SUFFICES ASSUME k + 1 <= LEVELS - 1, a[k + 1] # NULL, a[k + 1] = b[k + 1]
               PROVE  r = s /\ \A j \in 1..(k + 1) : Index(v, LEVELS - j) = Index(w, LEVELS - j)
    OBVIOUS
  <2> DEFINE i == Index(v, LEVELS - (k + 1))
             j == Index(w, LEVELS - (k + 1))
  <2>1. k + 1 \in 1..LEVELS /\ k + 1 - 1 = k /\ LEVELS - (k + 1) \in 0..LEVELS /\ k \in 0..(LEVELS - 1)
    OBVIOUS
  <2>2. i \in Entry /\ j \in Entry
    BY <2>1, IndexFacts
  <2>3. a[k] # NULL /\ b[k] # NULL /\ a[k + 1] = Held(m, a[k])[i] /\ b[k + 1] = Held(m, b[k])[j]
    BY <1>1, <2>1
  <2> HIDE DEF i, j
  <2>4. /\ a[k] \in Page /\ IsTable(m, a[k]) /\ lv[a[k]] > 0
        /\ b[k] \in Page /\ IsTable(m, b[k]) /\ lv[b[k]] > 0
    BY <1>2, <2>1, <2>3
  <2>5. a[k] = b[k] /\ i = j
    BY <2>2, <2>3, <2>4, ZenonT(30) DEF Shape, OneParent
  <2>6. r = s /\ \A h \in 1..k : Index(v, LEVELS - h) = Index(w, LEVELS - h)
    BY <2>1, <2>3, <2>5
  <2>7. \A h \in 1..(k + 1) : h \in 1..k \/ h = k + 1
    OBVIOUS
  <2> QED BY <2>5, <2>6, <2>7 DEF i, j
<1>5. T = Nat
  <2>1. T \subseteq Nat
    OBVIOUS
  <2> HIDE DEF T
  <2> QED BY <1>3, <1>4, <2>1, SetInduction
<1>6. n \in T
  <2> HIDE DEF T
  <2> QED BY <1>5
<1> QED BY <1>6 DEF a, b

-----------------------------------------------------------------------------
(* What changes to memory do to the walks and to the shape.                *)

(* A walk is the same in two memories that agree on its top table and on   *)
(* all tables below top tables.                                            *)
LEMMA SamePaths ==
  ASSUME NEW m \in Mem, NEW m2 \in Mem, NEW lv, Shape(m, lv), NEW r, IsRoot(m, r), NEW v \in Nat,
         \A q \in Page : q = r \/ m.use[q].as = "table" => Held(m2, q) = Held(m, q)
  PROVE  \A k \in 0..LEVELS : Path(m2, r, v)[k] = Path(m, r, v)[k]
<1> USE Params
<1> DEFINE a == Path(m, r, v)
           b == Path(m2, r, v)
           T == {k \in Nat : k <= LEVELS => a[k] = b[k]}
<1>1. /\ a[0] = r /\ b[0] = r
      /\ \A k \in 1..LEVELS : a[k] = IF a[k - 1] = NULL THEN NULL
                                     ELSE Held(m, a[k - 1])[Index(v, LEVELS - k)]
      /\ \A k \in 1..LEVELS : b[k] = IF b[k - 1] = NULL THEN NULL
                                     ELSE Held(m2, b[k - 1])[Index(v, LEVELS - k)]
  BY PathFacts DEF IsRoot, Slot
<1>2. \A k \in 0..(LEVELS - 1) : a[k] # NULL => /\ a[k] \in Page /\ lv[a[k]] = LEVELS - 1 - k
                                                /\ IsTable(m, a[k])
  BY PathLevel
<1> HIDE DEF a, b
<1>3. 0 \in T
  BY <1>1
<1>4. ASSUME NEW k \in T PROVE k + 1 \in T
  <2> SUFFICES ASSUME k + 1 <= LEVELS PROVE a[k + 1] = b[k + 1]
    OBVIOUS
  <2>1. k + 1 \in 1..LEVELS /\ k + 1 - 1 = k /\ k \in 0..(LEVELS - 1) /\ a[k] = b[k]
    OBVIOUS
  <2>2. CASE a[k] = NULL
    BY <1>1, <2>1, <2>2
  <2>3. CASE a[k] # NULL
    <3>1. a[k] \in Page /\ IsTable(m, a[k]) /\ lv[a[k]] = LEVELS - 1 - k
      BY <1>2, <2>1, <2>3
    <3>2. a[k] = r \/ m.use[a[k]].as = "table"
      <4>1. CASE k = 0
        BY <4>1, <1>1
      <4>2. CASE k # 0
        <5>1. lv[a[k]] # LEVELS - 1
          BY <3>1, <4>2
        <5> QED BY <5>1, <3>1 DEF Shape, TopLevel, IsTable
      <4> QED BY <4>1, <4>2
    <3>3. Held(m2, a[k]) = Held(m, a[k])
      BY <3>1, <3>2
    <3> QED BY <1>1, <2>1, <2>3, <3>3
  <2> QED BY <2>2, <2>3
<1>5. T = Nat
  <2>1. T \subseteq Nat
    OBVIOUS
  <2> HIDE DEF T
  <2> QED BY <1>3, <1>4, <2>1, SetInduction
<1>6. \A k \in 0..LEVELS : k \in Nat /\ k <= LEVELS
  OBVIOUS
<1> QED BY <1>5, <1>6 DEF a, b

(* The shape survives a change that leaves the tables there are, and what  *)
(* they lead to, as they were.                                             *)
LEMMA ShapeKept ==
  ASSUME NEW m \in Mem, NEW m2 \in Mem, NEW lv, Shape(m, lv),
         \A p \in Page : IsTable(m2, p) => /\ m.use[p].as = m2.use[p].as
                                           /\ m.use[p].of = m2.use[p].of
                                           /\ Held(m2, p) = Held(m, p),
         \A p \in Page : m.use[p].as \in {"table", "segment", "heap"}
                            => m2.use[p].as = m.use[p].as /\ m2.use[p].of = m.use[p].of
  PROVE  Shape(m2, lv)
<1>1. \A p \in Page : IsTable(m2, p) => IsTable(m, p)
  BY DEF IsTable
<1>2. TopLevel(m2, lv)
  BY DEF Shape, TopLevel, IsTable
<1>3. Children(m2, lv)
  <2> SUFFICES ASSUME NEW d \in Page, NEW i \in Entry, IsTable(m2, d), Held(m2, d)[i] # NULL
               PROVE  Child(m2, lv, d, Held(m2, d)[i])
    BY DEF Children
  <2>1. Held(m2, d)[i] = Held(m, d)[i] /\ Child(m, lv, d, Held(m, d)[i])
    BY <1>1 DEF Shape, Children
  <2> DEFINE q == Held(m, d)[i]
  <2>2. q \in Page
    BY <2>1, HeldFacts DEF Slot
  <2> HIDE DEF q
  <2>3. m2.use[d].of = m.use[d].of
    OBVIOUS
  <2>4. Child(m, lv, d, q)
    BY <2>1 DEF q
  <2>5. Child(m2, lv, d, q)
    BY <2>2, <2>3, <2>4 DEF Child
  <2> QED BY <2>1, <2>5 DEF q
<1>4. OneParent(m2, lv)
  <2> SUFFICES ASSUME NEW d \in Page, NEW e \in Page, NEW i \in Entry, NEW j \in Entry,
                      IsTable(m2, d), IsTable(m2, e), lv[d] > 0, lv[e] > 0,
                      Held(m2, d)[i] # NULL, Held(m2, d)[i] = Held(m2, e)[j]
               PROVE  d = e /\ i = j
    BY DEF OneParent
  <2>1. IsTable(m, d) /\ IsTable(m, e) /\ Held(m2, d) = Held(m, d) /\ Held(m2, e) = Held(m, e)
    BY <1>1
  <2> QED BY <2>1 DEF Shape, OneParent
<1> QED BY <1>2, <1>3, <1>4 DEF Shape

(* Grown memories: what was allocated stays, and what was free is free     *)
(* still or was allocated as one of kinds, for t.                          *)
Grown(m, m2, kinds, t) ==
    \A p \in Page : \/ m2.use[p] = m.use[p]
                    \/ m.use[p] = Free /\ m2.use[p].as \in kinds /\ m2.use[p].of = t

(* A new table below a directory is one level lower than it, and no walk   *)
(* that went anywhere goes elsewhere.                                      *)
LEMMA NewTable ==
  ASSUME NEW m \in Mem, NEW lv, Shape(m, lv),
         NEW d \in Page, IsTable(m, d), lv[d] > 0, NEW i \in Entry, Held(m, d)[i] = NULL,
         NEW m1, m1 = pmm_alloc(m, 1, "table", m.use[d].of), ~m1.full,
         NEW p, p = Next_(m, 1),
         NEW m2, m2 = Store(Write(m1, p, Zero), d, i, p)
  PROVE  /\ p \in Page /\ m2 \in Mem /\ m2.mapped = m.mapped /\ ~m2.full /\ ~m.full
         /\ m2.pmm_bitmap_index = p + 1 /\ p >= m.pmm_bitmap_index
         /\ \A q \in Page : q >= m.pmm_bitmap_index /\ q < p => m.use[q] # Free
         /\ m.use[p] = Free /\ m2.use[p].as = "table" /\ m2.use[p].of = m.use[d].of
         /\ \A q \in Page \ {p} : m2.use[q] = m.use[q]
         /\ \E lv2 : Shape(m2, lv2)
         /\ Held(m2, d)[i] = p
         /\ \A r \in Page, v \in Nat : IsRoot(m, r) =>
               \A k \in 0..LEVELS :
                  \/ Path(m2, r, v)[k] = Path(m, r, v)[k]
                  \/ /\ Path(m, r, v)[k] = NULL /\ Path(m2, r, v)[k] = p
                     /\ k > 0 /\ lv[d] = LEVELS - k
<1> USE Params
<1>1. m.use[d].of \in Owner /\ 1 \in Nat \ {0} /\ "table" \in Kind
  BY DEF Mem, Use, Kind
<1>2. /\ m1 \in Mem /\ m1.mapped = m.mapped /\ ~m.full
      /\ \A q : Held(m1, q) = Held(m, q)
      /\ p \in Page /\ m1.pmm_bitmap_index = p + 1 /\ m.use[p] = Free
      /\ \A q \in Page : m1.use[q] = IF q = p
                            THEN [as |-> "table", of |-> m.use[d].of, at |-> p, usable |-> FALSE]
                            ELSE m.use[q]
  <2>1. /\ m1 \in Mem /\ m1.mapped = m.mapped
        /\ \A q : Held(m1, q) = Held(m, q)
        /\ m.full => m1.full
        /\ ~m1.full =>
              /\ p \in Page /\ p + 1 <= Pages
              /\ \A q \in p..(p + 1 - 1) : q \in Page /\ m.use[q] = Free
              /\ m1.pmm_bitmap_index = p + 1
              /\ \A q \in Page : m1.use[q] = IF q \in p..(p + 1 - 1)
                               THEN [as |-> "table", of |-> m.use[d].of, at |-> p, usable |-> FALSE]
                               ELSE m.use[q]
    BY <1>1, AllocFacts
  <2>2. \A q \in Page : q \in Int
    BY DEF Page
  <2>3. \A q \in Page : q \in p..(p + 1 - 1) <=> q = p
    BY <2>1, <2>2
  <2>4. p \in p..(p + 1 - 1)
    BY <2>1, <2>3
  <2> QED BY <2>1, <2>3, <2>4
<1>3. /\ p >= m.pmm_bitmap_index
      /\ \A q \in Page : q >= m.pmm_bitmap_index /\ q < p => m.use[q] # Free
  <2>1. Fits(m, 1) # {}
    <3> SUFFICES ASSUME Fits(m, 1) = {} PROVE FALSE
      OBVIOUS
    <3>1. m1 = [m EXCEPT !.full = TRUE]
      BY DEF pmm_alloc
    <3> QED BY <3>1 DEF Mem
  <2>2. Next_(m, 1) \in Fits(m, 1) /\ \A q \in Fits(m, 1) : Next_(m, 1) <= q
    BY <2>1, NextFits
  <2>3. ASSUME NEW q \in Page, q >= m.pmm_bitmap_index, m.use[q] = Free PROVE q \in Fits(m, 1)
    <3>1. q \in Nat /\ q + 1 <= Pages
      BY DEF Page
    <3>2. \A e \in q..(q + 1 - 1) : e = q
      BY <3>1
    <3> QED BY <2>3, <3>1, <3>2 DEF Fits
  <2>4. \A q \in Page : q \in Int
    BY DEF Page
  <2> QED BY <2>2, <2>3, <2>4, <1>2 DEF Fits
<1> DEFINE w == Write(m1, p, Zero)
<1>4. Zero \in [Entry -> Slot]
  BY DEF Zero, Slot
<1>5. /\ w \in Mem /\ w.use = m1.use /\ w.pmm_bitmap_index = m1.pmm_bitmap_index
      /\ w.mapped = m1.mapped /\ w.full = m1.full
      /\ \A q : Held(w, q) = IF q = p THEN Zero ELSE Held(m1, q)
  BY <1>2, <1>4, WriteFacts
<1> HIDE DEF w
<1>6. m2 = Store(w, d, i, p) /\ p \in Slot
  BY <1>2 DEF w, Slot
<1>7. /\ m2 \in Mem /\ m2.use = w.use /\ m2.pmm_bitmap_index = w.pmm_bitmap_index
      /\ m2.mapped = w.mapped /\ m2.full = w.full
      /\ \A q : \A j \in Entry : Held(m2, q)[j] = IF q = d /\ j = i THEN p ELSE Held(w, q)[j]
  BY <1>5, <1>6, StoreFacts
<1>8. d # p
  BY <1>2 DEF IsTable, Free
<1>9. /\ \A j \in Entry : Held(m2, p)[j] = NULL
      /\ \A q : \A j \in Entry : q # p => Held(m2, q)[j] = IF q = d /\ j = i THEN p ELSE Held(m, q)[j]
  BY <1>2, <1>5, <1>7, <1>8 DEF Zero
<1>10. /\ m2.use[p].as = "table" /\ m2.use[p].of = m.use[d].of
       /\ \A q \in Page \ {p} : m2.use[q] = m.use[q]
  BY <1>2, <1>5, <1>7
<1>11. /\ m2 \in Mem /\ m2.mapped = m.mapped /\ ~m2.full /\ m2.pmm_bitmap_index = p + 1
  BY <1>2, <1>5, <1>7
<1>12. Shape(m2, [lv EXCEPT ![p] = lv[d] - 1])
  <2> DEFINE lv2 == [lv EXCEPT ![p] = lv[d] - 1]
  <2>1. lv2 \in Level /\ lv2[p] = lv[d] - 1 /\ \A q \in Page \ {p} : lv2[q] = lv[q]
    BY <1>2 DEF Level, Shape
  <2> HIDE DEF lv2
  <2>2. TopLevel(m2, lv2)
    BY <1>10, <2>1 DEF Shape, TopLevel
  <2>3. \A q \in Page \ {p} : IsTable(m2, q) <=> IsTable(m, q)
    BY <1>10 DEF IsTable
  <2>4. ASSUME NEW e \in Page, NEW j \in Entry, IsTable(m, e), Held(m, e)[j] # NULL
        PROVE  lv[e] > 0 \/ m.use[e].of # NULL => Held(m, e)[j] \in Page \ {p}
    <3>1. Child(m, lv, e, Held(m, e)[j])
      BY <2>4 DEF Shape, Children
    <3>2. Held(m, e)[j] \in Page
      BY <2>4, HeldFacts DEF Slot
    <3>3. lv[e] \in 0..(LEVELS - 1)
      BY DEF Shape, Level
    <3> QED BY <1>2, <3>1, <3>2, <3>3 DEF Child, Free
  <2>5. Children(m2, lv2)
    <3> SUFFICES ASSUME NEW e \in Page, NEW j \in Entry, IsTable(m2, e), Held(m2, e)[j] # NULL
                 PROVE  Child(m2, lv2, e, Held(m2, e)[j])
      BY DEF Children
    <3>1. e # p
      BY <1>9
    <3>2. IsTable(m, e) /\ lv2[e] = lv[e] /\ m2.use[e] = m.use[e]
      BY <1>10, <2>1, <2>3, <3>1
    <3>3. CASE e = d /\ j = i
      BY <1>9, <1>10, <2>1, <3>1, <3>2, <3>3, SMTT(60) DEF Child
    <3>4. CASE ~(e = d /\ j = i)
      <4>1. Held(m2, e)[j] = Held(m, e)[j]
        BY <1>9, <3>1, <3>4
      <4> DEFINE q == Held(m, e)[j]
      <4>2. Child(m, lv, e, q)
        BY <3>2, <4>1 DEF Shape, Children
      <4>3. lv[e] > 0 \/ m.use[e].of # NULL => q \in Page \ {p}
        BY <2>4, <3>2, <4>1
      <4> HIDE DEF q
      <4>4. Child(m2, lv2, e, q)
        BY <1>10, <2>1, <3>2, <4>2, <4>3 DEF Child
      <4> QED BY <4>1, <4>4 DEF q
    <3> QED BY <3>3, <3>4
  <2>6. OneParent(m2, lv2)
    <3> SUFFICES ASSUME NEW e \in Page, NEW f \in Page, NEW j \in Entry, NEW k \in Entry,
                        IsTable(m2, e), IsTable(m2, f), lv2[e] > 0, lv2[f] > 0,
                        Held(m2, e)[j] # NULL, Held(m2, e)[j] = Held(m2, f)[k]
                 PROVE  e = f /\ j = k
      BY DEF OneParent
    <3>1. e # p /\ f # p
      BY <1>9
    <3>2. IsTable(m, e) /\ lv[e] > 0 /\ IsTable(m, f) /\ lv[f] > 0
      BY <2>1, <2>3, <3>1
    <3>3. Held(m2, e)[j] = IF e = d /\ j = i THEN p ELSE Held(m, e)[j]
      BY <1>9, <3>1
    <3>4. Held(m2, f)[k] = IF f = d /\ k = i THEN p ELSE Held(m, f)[k]
      BY <1>9, <3>1
    <3>5. Held(m, e)[j] # NULL => Held(m, e)[j] # p
      BY <2>4, <3>2
    <3>6. Held(m, f)[k] # NULL => Held(m, f)[k] # p
      BY <2>4, <3>2
    <3>7. p # NULL
      BY <1>2
    <3>8. (e = d /\ j = i) <=> (f = d /\ k = i)
      BY <3>3, <3>4, <3>5, <3>6, <3>7
    <3> QED BY <3>2, <3>3, <3>4, <3>8 DEF Shape, OneParent
  <2> QED BY <2>1, <2>2, <2>5, <2>6 DEF Shape, lv2
<1>13. ASSUME NEW r \in Page, NEW v \in Nat, IsRoot(m, r)
       PROVE  \A k \in 0..LEVELS :
                 \/ Path(m2, r, v)[k] = Path(m, r, v)[k]
                 \/ /\ Path(m, r, v)[k] = NULL /\ Path(m2, r, v)[k] = p
                    /\ k > 0 /\ lv[d] = LEVELS - k
  <2> DEFINE a == Path(m, r, v)
             b == Path(m2, r, v)
             Claim(k) == \/ b[k] = a[k]
                         \/ a[k] = NULL /\ b[k] = p /\ k > 0 /\ lv[d] = LEVELS - k
             T == {k \in Nat : k <= LEVELS => Claim(k)}
  <2>1. /\ a[0] = r /\ b[0] = r
        /\ \A k \in 1..LEVELS : a[k] = IF a[k - 1] = NULL THEN NULL
                                       ELSE Held(m, a[k - 1])[Index(v, LEVELS - k)]
        /\ \A k \in 1..LEVELS : b[k] = IF b[k - 1] = NULL THEN NULL
                                       ELSE Held(m2, b[k - 1])[Index(v, LEVELS - k)]
    BY <1>7, <1>13, PathFacts DEF IsRoot, Slot
  <2>2. \A k \in 0..(LEVELS - 1) : a[k] # NULL => /\ a[k] \in Page /\ lv[a[k]] = LEVELS - 1 - k
                                                  /\ IsTable(m, a[k])
    BY <1>13, PathLevel
  <2> HIDE DEF a, b
  <2>3. 0 \in T
    BY <2>1
  <2>4. ASSUME NEW k \in T PROVE k + 1 \in T
    <3> SUFFICES ASSUME k + 1 <= LEVELS PROVE Claim(k + 1)
      OBVIOUS
    <3> DEFINE j == Index(v, LEVELS - (k + 1))
    <3>1. k + 1 \in 1..LEVELS /\ k + 1 - 1 = k /\ k \in 0..(LEVELS - 1) /\ LEVELS - (k + 1) \in 0..LEVELS
      OBVIOUS
    <3>2. j \in Entry
      BY <3>1, IndexFacts
    <3>3. /\ a[k + 1] = IF a[k] = NULL THEN NULL ELSE Held(m, a[k])[j]
          /\ b[k + 1] = IF b[k] = NULL THEN NULL ELSE Held(m2, b[k])[j]
      BY <2>1, <3>1
    <3> HIDE DEF j
    <3>4. CASE a[k] = NULL /\ b[k] = p
      BY <1>2, <1>9, <3>2, <3>3, <3>4
    <3>5. CASE a[k] = NULL /\ b[k] = NULL
      BY <3>3, <3>5
    <3>6. CASE a[k] # NULL /\ b[k] = a[k]
      <4>1. a[k] \in Page /\ lv[a[k]] = LEVELS - 1 - k /\ IsTable(m, a[k])
        BY <2>2, <3>1, <3>6
      <4>2. a[k] # p
        BY <1>2, <4>1 DEF IsTable, Free
      <4>3. b[k + 1] = IF a[k] = d /\ j = i THEN p ELSE a[k + 1]
        BY <1>9, <3>2, <3>3, <3>6, <4>2
      <4>4. CASE a[k] = d /\ j = i
        <5>1. a[k + 1] = NULL /\ b[k + 1] = p
          BY <3>3, <3>6, <4>3, <4>4
        <5>2. lv[d] = LEVELS - (k + 1)
          BY <4>1, <4>4
        <5> QED BY <5>1, <5>2
      <4> QED BY <4>3, <4>4
    <3> QED BY <3>1, <3>4, <3>5, <3>6
  <2>5. T = Nat
    <3>1. T \subseteq Nat
      OBVIOUS
    <3> HIDE DEF T
    <3> QED BY <2>3, <2>4, <3>1, SetInduction
  <2>6. \A k \in 0..LEVELS : k \in Nat /\ k <= LEVELS
    OBVIOUS
  <2> QED BY <2>5, <2>6 DEF a, b
<1> QED BY <1>2, <1>3, <1>9, <1>10, <1>11, <1>12, <1>13, <1>8

InReach(v) == v \in Nat /\ Shift(v, LEVELS) = 0

(* The entry of an address in its last table decides where that address,   *)
(* and no other, leads.                                                    *)
LEMMA LeafStore ==
  ASSUME NEW m \in Mem, NEW lv, Shape(m, lv), NEW map, IsRoot(m, map), NEW v0 \in Nat,
         NEW d, d = Path(m, map, v0)[LEVELS - 1], d # NULL,
         NEW q \in Page,
         m.use[map].of # NULL => m.use[q].as \in {"segment", "heap"} /\ m.use[q].of = m.use[map].of,
         NEW m2, m2 = Store(m, d, Index(v0, 0), q)
  PROVE  /\ m2 \in Mem /\ m2.mapped = m.mapped /\ m2.full = m.full /\ m2.use = m.use
         /\ m2.pmm_bitmap_index = m.pmm_bitmap_index
         /\ Shape(m2, lv)
         /\ \A r \in Page, v \in Nat : IsRoot(m, r) =>
               \A k \in 0..(LEVELS - 1) : Path(m2, r, v)[k] = Path(m, r, v)[k]
         /\ \A r \in Page, v \in Nat : IsRoot(m, r) /\ InReach(v) /\ InReach(v0) =>
               Translation(m2, r, v) = IF r = map /\ v = v0 THEN q ELSE Translation(m, r, v)
<1> USE Params
<1>0. LEVELS - 1 \in 0..(LEVELS - 1) /\ LEVELS - 1 \in 0..LEVELS /\ 0 \in 0..LEVELS
  OBVIOUS
<1>1. d \in Page /\ IsTable(m, d) /\ m.use[d].of = m.use[map].of /\ lv[d] = 0
  BY <1>0, PathLevel
<1> DEFINE i == Index(v0, 0)
<1>2. i \in Entry /\ q \in Slot
  BY <1>0, IndexFacts DEF Slot
<1>3. m2 = Store(m, d, i, q)
  OBVIOUS
<1> HIDE DEF i
<1>4. /\ m2 \in Mem /\ m2.use = m.use /\ m2.mapped = m.mapped /\ m2.full = m.full
      /\ m2.pmm_bitmap_index = m.pmm_bitmap_index
      /\ \A e : \A j \in Entry : Held(m2, e)[j] = IF e = d /\ j = i THEN q ELSE Held(m, e)[j]
  BY <1>1, <1>2, <1>3, StoreFacts
<1>5. \A e \in Page : IsTable(m2, e) <=> IsTable(m, e)
  BY <1>4 DEF IsTable
<1>6. Shape(m2, lv)
  <2>1. TopLevel(m2, lv)
    BY <1>4 DEF Shape, TopLevel
  <2>2. Children(m2, lv)
    <3> SUFFICES ASSUME NEW e \in Page, NEW j \in Entry, IsTable(m, e), Held(m2, e)[j] # NULL
                 PROVE  Child(m2, lv, e, Held(m2, e)[j])
      BY <1>5 DEF Children
    <3>1. CASE e = d /\ j = i
      BY <1>1, <1>4, <3>1 DEF Child
    <3>2. CASE ~(e = d /\ j = i)
      <4>1. Held(m2, e)[j] = Held(m, e)[j]
        BY <1>4, <3>2
      <4>2. Child(m, lv, e, Held(m, e)[j])
        BY <4>1 DEF Shape, Children
      <4> QED BY <1>4, <4>1, <4>2 DEF Child
    <3> QED BY <3>1, <3>2
  <2>3. OneParent(m2, lv)
    <3> SUFFICES ASSUME NEW e \in Page, NEW f \in Page, NEW j \in Entry, NEW k \in Entry,
                        IsTable(m, e), IsTable(m, f), lv[e] > 0, lv[f] > 0,
                        Held(m2, e)[j] # NULL, Held(m2, e)[j] = Held(m2, f)[k]
                 PROVE  e = f /\ j = k
      BY <1>5 DEF OneParent
    <3>1. e # d /\ f # d
      BY <1>1
    <3>2. Held(m2, e)[j] = Held(m, e)[j] /\ Held(m2, f)[k] = Held(m, f)[k]
      BY <1>4, <3>1
    <3> QED BY <3>2 DEF Shape, OneParent
  <2> QED BY <2>1, <2>2, <2>3 DEF Shape
<1>7. ASSUME NEW r \in Page, NEW v \in Nat, IsRoot(m, r)
      PROVE  /\ \A k \in 0..(LEVELS - 1) : Path(m2, r, v)[k] = Path(m, r, v)[k]
             /\ InReach(v) /\ InReach(v0) =>
                  Translation(m2, r, v) = IF r = map /\ v = v0 THEN q ELSE Translation(m, r, v)
  <2> DEFINE a == Path(m, r, v)
             b == Path(m2, r, v)
             T == {k \in Nat : k <= LEVELS - 1 => b[k] = a[k]}
  <2>1. /\ a[0] = r /\ b[0] = r
        /\ \A k \in 1..LEVELS : a[k] = IF a[k - 1] = NULL THEN NULL
                                       ELSE Held(m, a[k - 1])[Index(v, LEVELS - k)]
        /\ \A k \in 1..LEVELS : b[k] = IF b[k - 1] = NULL THEN NULL
                                       ELSE Held(m2, b[k - 1])[Index(v, LEVELS - k)]
        /\ Translation(m, r, v) = a[LEVELS] /\ Translation(m2, r, v) = b[LEVELS]
    BY <1>4, PathFacts DEF Slot
  <2>2. \A k \in 0..(LEVELS - 1) : a[k] # NULL => /\ a[k] \in Page /\ lv[a[k]] = LEVELS - 1 - k
                                                  /\ IsTable(m, a[k])
    BY <1>7, PathLevel
  <2>3. a[LEVELS - 1] = d /\ InReach(v) /\ InReach(v0) /\ Index(v, 0) = i => r = map /\ v = v0
    <3> SUFFICES ASSUME a[LEVELS - 1] = d, InReach(v), InReach(v0), Index(v, 0) = i
                 PROVE  r = map /\ v = v0
      OBVIOUS
    <3>1. r = map /\ \A k \in 1..(LEVELS - 1) : Index(v, LEVELS - k) = Index(v0, LEVELS - k)
      BY <1>0, <1>7, PathUnique
    <3>2. ASSUME NEW k \in 0..(LEVELS - 1) PROVE Index(v, k) = Index(v0, k)
      <4>1. CASE k = 0
        BY <4>1 DEF i
      <4>2. CASE k # 0
        <5>1. LEVELS - k \in 1..(LEVELS - 1) /\ LEVELS - (LEVELS - k) = k
          BY <4>2
        <5> QED BY <3>1, <5>1
      <4> QED BY <4>1, <4>2
    <3>3. v = v0
      BY <3>2, Digits DEF InReach
    <3> QED BY <3>1, <3>3
  <2>4. r = map /\ v = v0 => a[LEVELS - 1] = d /\ Index(v, 0) = i
    BY DEF i
  <2>5. Index(v, 0) \in Entry
    BY <1>0, IndexFacts
  <2> HIDE DEF a, b
  <2>6. 0 \in T
    BY <2>1
  <2>7. ASSUME NEW k \in T PROVE k + 1 \in T
    <3> SUFFICES ASSUME k + 1 <= LEVELS - 1 PROVE b[k + 1] = a[k + 1]
      OBVIOUS
    <3> DEFINE j == Index(v, LEVELS - (k + 1))
    <3>1. k + 1 \in 1..LEVELS /\ k + 1 - 1 = k /\ k \in 0..(LEVELS - 1) /\ LEVELS - (k + 1) \in 0..LEVELS
      OBVIOUS
    <3>2. j \in Entry
      BY <3>1, IndexFacts
    <3>3. /\ a[k + 1] = IF a[k] = NULL THEN NULL ELSE Held(m, a[k])[j]
          /\ b[k + 1] = IF b[k] = NULL THEN NULL ELSE Held(m2, b[k])[j]
      BY <2>1, <3>1
    <3> HIDE DEF j
    <3>4. a[k] # NULL => a[k] # d
      BY <1>1, <2>2, <3>1
    <3> QED BY <1>4, <3>1, <3>2, <3>3, <3>4
  <2>8. T = Nat
    <3>1. T \subseteq Nat
      OBVIOUS
    <3> HIDE DEF T
    <3> QED BY <2>6, <2>7, <3>1, SetInduction
  <2>9. \A k \in 0..(LEVELS - 1) : b[k] = a[k]
    <3>1. \A k \in 0..(LEVELS - 1) : k \in Nat /\ k <= LEVELS - 1
      OBVIOUS
    <3> QED BY <2>8, <3>1
  <2>10. LEVELS \in 1..LEVELS /\ LEVELS - LEVELS = 0
    OBVIOUS
  <2>11. /\ a[LEVELS] = IF a[LEVELS - 1] = NULL THEN NULL ELSE Held(m, a[LEVELS - 1])[Index(v, 0)]
         /\ b[LEVELS] = IF a[LEVELS - 1] = NULL THEN NULL ELSE Held(m2, a[LEVELS - 1])[Index(v, 0)]
    BY <2>1, <2>9, <2>10, <1>0
  <2>12. /\ a[LEVELS - 1] # d => b[LEVELS] = a[LEVELS]
         /\ a[LEVELS - 1] = d => b[LEVELS] = IF Index(v, 0) = i THEN q ELSE a[LEVELS]
    BY <1>4, <2>5, <2>11
  <2> QED BY <2>1, <2>3, <2>4, <2>9, <2>12 DEF a, b
<1> QED BY <1>4, <1>6, <1>7

(* page_map_new: an empty top table, and no walk changes. *)
LEMMA NewRoot ==
  ASSUME NEW m \in Mem, NEW lv, Shape(m, lv), NEW t \in Owner,
         NEW p, p = Next_(m, 1), NEW m2, m2 = page_map_new(m, t), ~m2.full
  PROVE  /\ p \in Page /\ m2 \in Mem /\ m2.mapped = m.mapped /\ ~m.full
         /\ m.use[p] = Free /\ m2.use[p].as = "map" /\ m2.use[p].of = t
         /\ \A q \in Page \ {p} : m2.use[q] = m.use[q]
         /\ \E lv2 : Shape(m2, lv2)
         /\ \A v \in Nat : Translation(m2, p, v) = NULL
         /\ \A r \in Page, v \in Nat : IsRoot(m, r) => Translation(m2, r, v) = Translation(m, r, v)
<1> USE Params
<1> DEFINE m1 == pmm_alloc(m, 1, "map", t)
<1>1. 1 \in Nat \ {0} /\ "map" \in Kind
  BY DEF Kind
<1>2. /\ m1 \in Mem /\ m1.mapped = m.mapped
      /\ \A q : Held(m1, q) = Held(m, q)
      /\ m.full => m1.full
      /\ ~m1.full =>
            /\ p \in Page /\ p + 1 <= Pages
            /\ \A q \in p..(p + 1 - 1) : q \in Page /\ m.use[q] = Free
            /\ m1.pmm_bitmap_index = p + 1
            /\ \A q \in Page : m1.use[q] = IF q \in p..(p + 1 - 1)
                             THEN [as |-> "map", of |-> t, at |-> p, usable |-> FALSE]
                             ELSE m.use[q]
  BY <1>1, AllocFacts
<1>3. m2 = IF m1.full THEN m1 ELSE Write(m1, p, Zero)
  BY DEF page_map_new
<1> HIDE DEF m1
<1>4. ~m1.full /\ m2 = Write(m1, p, Zero)
  BY <1>3
<1>5. Zero \in [Entry -> Slot]
  BY DEF Zero, Slot
<1>6. /\ m2 \in Mem /\ m2.use = m1.use /\ m2.mapped = m1.mapped /\ m2.full = m1.full
      /\ \A q : Held(m2, q) = IF q = p THEN Zero ELSE Held(m1, q)
  BY <1>2, <1>4, <1>5, WriteFacts
<1>7. /\ p \in Page /\ m.use[p] = Free /\ m2.use[p].as = "map" /\ m2.use[p].of = t
      /\ \A q \in Page \ {p} : m2.use[q] = m.use[q]
  <2>1. \A q \in Page : q \in Int
    BY DEF Page
  <2>2. p \in Page /\ \A q \in Page : q \in p..(p + 1 - 1) <=> q = p
    BY <1>2, <1>4, <2>1
  <2> QED BY <1>2, <1>4, <1>6, <2>2
<1>8. /\ \A j \in Entry : Held(m2, p)[j] = NULL
      /\ \A q : q # p => Held(m2, q) = Held(m, q)
  BY <1>2, <1>6 DEF Zero
<1> DEFINE lv2 == [lv EXCEPT ![p] = LEVELS - 1]
<1>9. lv2 \in Level /\ lv2[p] = LEVELS - 1 /\ \A q \in Page \ {p} : lv2[q] = lv[q]
  BY <1>7 DEF Level, Shape
<1> HIDE DEF lv2
<1>10. Shape(m2, lv2)
  <2>1. TopLevel(m2, lv2)
    BY <1>7, <1>9 DEF Shape, TopLevel
  <2>2. \A q \in Page \ {p} : IsTable(m2, q) <=> IsTable(m, q)
    BY <1>7 DEF IsTable
  <2>3. Children(m2, lv2)
    <3> SUFFICES ASSUME NEW e \in Page, NEW j \in Entry, IsTable(m2, e), Held(m2, e)[j] # NULL
                 PROVE  Child(m2, lv2, e, Held(m2, e)[j])
      BY DEF Children
    <3>1. e # p
      BY <1>8
    <3>2. IsTable(m, e) /\ lv2[e] = lv[e] /\ m2.use[e] = m.use[e] /\ Held(m2, e) = Held(m, e)
      BY <1>7, <1>8, <1>9, <2>2, <3>1
    <3> DEFINE q == Held(m, e)[j]
    <3>3. Child(m, lv, e, q) /\ q \in Page
      BY <3>2, HeldFacts DEF Shape, Children, Slot
    <3> HIDE DEF q
    <3>4. lv[e] \in 0..(LEVELS - 1)
      BY DEF Shape, Level
    <3>5. lv[e] > 0 \/ m.use[e].of # NULL => q # p
      BY <1>7, <3>3, <3>4 DEF Child, Free
    <3>6. Child(m2, lv2, e, q)
      BY <1>7, <1>9, <3>2, <3>3, <3>5 DEF Child
    <3> QED BY <3>2, <3>6 DEF q
  <2>4. OneParent(m2, lv2)
    <3> SUFFICES ASSUME NEW e \in Page, NEW f \in Page, NEW j \in Entry, NEW k \in Entry,
                        IsTable(m2, e), IsTable(m2, f), lv2[e] > 0, lv2[f] > 0,
                        Held(m2, e)[j] # NULL, Held(m2, e)[j] = Held(m2, f)[k]
                 PROVE  e = f /\ j = k
      BY DEF OneParent
    <3>1. e # p /\ f # p
      BY <1>8
    <3> QED BY <1>8, <1>9, <2>2, <3>1 DEF Shape, OneParent
  <2> QED BY <1>9, <2>1, <2>3, <2>4 DEF Shape
<1>11. ASSUME NEW v \in Nat PROVE Translation(m2, p, v) = NULL
  <2> DEFINE a == Path(m2, p, v)
             T == {k \in Nat : k + 1 <= LEVELS => a[k + 1] = NULL}
  <2>1. /\ a[0] = p
        /\ \A k \in 1..LEVELS : a[k] = IF a[k - 1] = NULL THEN NULL
                                       ELSE Held(m2, a[k - 1])[Index(v, LEVELS - k)]
        /\ Translation(m2, p, v) = a[LEVELS]
    BY <1>6, <1>7, PathFacts DEF Slot
  <2> HIDE DEF a
  <2>2. 0 \in T
    <3>1. Index(v, LEVELS - 1) \in Entry /\ 1 \in 1..LEVELS /\ 1 - 1 = 0 /\ 0 + 1 = 1
      BY IndexFacts
    <3> QED BY <1>8, <2>1, <3>1
  <2>3. ASSUME NEW k \in T PROVE k + 1 \in T
    <3>1. (k + 1) + 1 <= LEVELS => k + 1 <= LEVELS /\ (k + 1) + 1 \in 1..LEVELS /\ ((k + 1) + 1) - 1 = k + 1
      OBVIOUS
    <3> QED BY <2>1, <3>1
  <2>4. T = Nat
    <3>1. T \subseteq Nat
      OBVIOUS
    <3> HIDE DEF T
    <3> QED BY <2>2, <2>3, <3>1, SetInduction
  <2>5. LEVELS - 1 \in Nat /\ (LEVELS - 1) + 1 = LEVELS
    OBVIOUS
  <2> QED BY <2>1, <2>4, <2>5
<1>12. ASSUME NEW r \in Page, NEW v \in Nat, IsRoot(m, r)
       PROVE  Translation(m2, r, v) = Translation(m, r, v)
  <2>1. \A q \in Page : q = r \/ m.use[q].as = "table" => Held(m2, q) = Held(m, q)
    BY <1>7, <1>8, <1>12 DEF IsRoot, Free
  <2>2. Path(m2, r, v)[LEVELS] = Path(m, r, v)[LEVELS]
    BY <1>6, <1>12, <2>1, SamePaths
  <2> QED BY <1>6, <2>2, PathFacts DEF Slot
<1> QED BY <1>2, <1>4, <1>6, <1>7, <1>10, <1>11, <1>12

-----------------------------------------------------------------------------
(* vmm_map.                                                                *)

(* Where page_map_walk_entry can be: at a table, while there is memory. *)
Walker == {w \in [mem : Mem, directory : Slot] : ~w.mem.full => w.directory \in Page}

(* The types of what pmm_alloc returns. *)
LEMMA AllocType ==
  ASSUME NEW m \in Mem, NEW n \in Nat \ {0}, NEW kind \in Kind, NEW t \in Owner
  PROVE  /\ pmm_alloc(m, n, kind, t) \in Mem /\ pmm_alloc(m, n, kind, t).mapped = m.mapped
         /\ m.full => pmm_alloc(m, n, kind, t).full
         /\ ~pmm_alloc(m, n, kind, t).full => Next_(m, n) \in Page
<1> DEFINE m2 == pmm_alloc(m, n, kind, t)
           a == Next_(m, n)
<1>1. m2 = pmm_alloc(m, n, kind, t) /\ a = Next_(m, n)
  OBVIOUS
<1> HIDE DEF m2, a
<1>2. /\ m2 \in Mem /\ m2.mapped = m.mapped
      /\ m.full => m2.full
      /\ ~m2.full =>
               /\ a \in Page /\ a + n <= Pages
               /\ \A p \in a..(a + n - 1) : p \in Page /\ m.use[p] = Free
               /\ m2.pmm_bitmap_index = a + n
               /\ \A p \in Page : m2.use[p] = IF p \in a..(a + n - 1)
                                THEN [as |-> kind, of |-> t, at |-> a, usable |-> FALSE]
                                ELSE m.use[p]
  BY <1>1, AllocFacts
<1> QED BY <1>1, <1>2

(* One step down ends at a table again, and memory stays full. *)
LEMMA WalkEntryType ==
  ASSUME NEW w \in Walker, NEW i \in Entry, NEW t \in Owner,
         NEW w2, w2 = page_map_walk_entry(w, i, t)
  PROVE  w2 \in Walker /\ w2.mem.mapped = w.mem.mapped /\ (w.mem.full => w2.mem.full)
<1> USE Params
<1>1. w.mem \in Mem /\ w.directory \in Slot /\ Held(w.mem, w.directory)[i] \in Slot
  BY HeldFacts DEF Walker
<1>2. CASE w.mem.full \/ Held(w.mem, w.directory)[i] # NULL
  <2>1. w2 = [w EXCEPT !.directory = Held(w.mem, w.directory)[i]]
    BY <1>2 DEF page_map_walk_entry
  <2>2. w2 \in [mem : Mem, directory : Slot] /\ w2.mem = w.mem /\ w2.directory = Held(w.mem, w.directory)[i]
    BY <1>1, <2>1 DEF Walker
  <2> QED BY <1>1, <1>2, <2>2 DEF Walker, Slot
<1>3. CASE ~(w.mem.full \/ Held(w.mem, w.directory)[i] # NULL)
  <2> DEFINE m == pmm_alloc(w.mem, 1, "table", t)
             pml == Next_(w.mem, 1)
             s == Store(Write(m, pml, Zero), w.directory, i, pml)
  <2>1. 1 \in Nat \ {0} /\ "table" \in Kind
    BY DEF Kind
  <2>0. m = pmm_alloc(w.mem, 1, "table", t) /\ pml = Next_(w.mem, 1)
    OBVIOUS
  <2> HIDE DEF m, pml
  <2>2. m \in Mem /\ m.mapped = w.mem.mapped /\ (~m.full => pml \in Page)
    BY <1>1, <2>0, <2>1, AllocType
  <2>3. w.directory \in Page /\ Zero \in [Entry -> Slot]
    BY <1>3 DEF Walker, Zero, Slot
  <2>4. ASSUME ~m.full PROVE s \in Mem /\ s.mapped = w.mem.mapped /\ pml \in Page
    <3>1. Write(m, pml, Zero) \in Mem /\ Write(m, pml, Zero).mapped = w.mem.mapped
      BY <2>2, <2>3, <2>4, WriteFacts
    <3>2. pml \in Slot
      BY <2>2, <2>4 DEF Slot
    <3> QED BY <2>2, <2>3, <2>4, <3>1, <3>2, StoreFacts
  <2>5. w2 = IF m.full THEN [w EXCEPT !.mem = m] ELSE [mem |-> s, directory |-> pml]
    BY <1>3 DEF page_map_walk_entry, m, pml
  <2> HIDE DEF s
  <2>6. CASE m.full
    <3>1. w2 \in [mem : Mem, directory : Slot] /\ w2.mem = m
      BY <2>2, <2>5, <2>6 DEF Walker
    <3> QED BY <2>2, <2>6, <3>1 DEF Walker
  <2>7. CASE ~m.full
    <3>1. w2 = [mem |-> s, directory |-> pml] /\ s \in Mem /\ pml \in Page /\ s.mapped = w.mem.mapped
      BY <2>4, <2>5, <2>7
    <3>2. w2.mem = s /\ w2.directory = pml /\ w2 \in [mem : Mem, directory : Slot]
      BY <3>1 DEF Slot
    <3> QED BY <1>3, <3>1, <3>2 DEF Walker
  <2> QED BY <2>6, <2>7
<1> QED BY <1>2, <1>3

WalkEq(f, m, map, v, t) ==
    f = [n \in 0..(LEVELS - 1) |->
           IF n = 0 THEN [mem |-> m, directory |-> map]
           ELSE page_map_walk_entry(f[n - 1], Index(v, LEVELS - n), t)]
Walk(m, map, v, t) == CHOOSE f : WalkEq(f, m, map, v, t)

(* Where the walk of vmm_map is after n steps. *)
LEMMA WalkFacts ==
  ASSUME NEW m \in Mem, NEW map \in Page, NEW v \in Nat, NEW t \in Owner
  PROVE  /\ Walk(m, map, v, t)[0] = [mem |-> m, directory |-> map]
         /\ \A n \in 1..(LEVELS - 1) : Walk(m, map, v, t)[n] =
               page_map_walk_entry(Walk(m, map, v, t)[n - 1], Index(v, LEVELS - n), t)
         /\ \A n \in 0..(LEVELS - 1) : Walk(m, map, v, t)[n] \in Walker
         /\ \A paddr : vmm_map(m, map, paddr, v, t) =
               LET w == Walk(m, map, v, t)[LEVELS - 1]
               IN  IF w.mem.full THEN w.mem ELSE Store(w.mem, w.directory, Index(v, 0), paddr)
<1> USE Params
<1> DEFINE step(w, n) == page_map_walk_entry(w, Index(v, LEVELS - n), t)
           g == [x \in Walker \X (1..(LEVELS - 1)) |-> step(x[1], x[2])]
           s0 == [mem |-> m, directory |-> map]
           walk == Walk(m, map, v, t)
<1>0. LEVELS - 1 \in Nat
  OBVIOUS
<1>1. \A w \in Walker, n \in 1..(LEVELS - 1) : step(w, n) \in Walker
  <2> SUFFICES ASSUME NEW w \in Walker, NEW n \in 1..(LEVELS - 1) PROVE step(w, n) \in Walker
    OBVIOUS
  <2>1. LEVELS - n \in 0..LEVELS
    OBVIOUS
  <2>2. Index(v, LEVELS - n) \in Entry
    BY <2>1, IndexFacts
  <2> QED BY <2>2, WalkEntryType
<1>2. s0 \in Walker
  BY DEF Walker, Slot
<1> HIDE DEF step, s0
<1>3. g \in Steps(Walker, LEVELS - 1)
  BY <1>1 DEF Steps
<1>4. PICK f : IsRun(f, Walker, s0, LEVELS - 1, g)
  <2> HIDE DEF g
  <2> QED BY <1>0, <1>2, <1>3, Iteration
<1>5. f \in [0..(LEVELS - 1) -> Walker] /\ f[0] = s0 /\ \A n \in 1..(LEVELS - 1) : f[n] = step(f[n - 1], n)
  <2>1. f \in [0..(LEVELS - 1) -> Walker] /\ f[0] = s0
        /\ \A n \in 1..(LEVELS - 1) : f[n] = g[<< f[n - 1], n >>]
    <3> HIDE DEF g
    <3> QED BY <1>4 DEF IsRun
  <2>2. \A n \in 1..(LEVELS - 1) : << f[n - 1], n >> \in Walker \X (1..(LEVELS - 1))
    BY <2>1
  <2> QED BY <2>1, <2>2
<1> HIDE DEF g
<1>6. WalkEq(f, m, map, v, t)
  <2> DEFINE body(n) == IF n = 0 THEN s0 ELSE step(f[n - 1], n)
  <2>1. \A n \in 0..(LEVELS - 1) : f[n] = body(n)
    BY <1>5
  <2> HIDE DEF body
  <2>2. f = [n \in 0..(LEVELS - 1) |-> body(n)]
    BY <1>5, <2>1
  <2> QED BY <2>2 DEF body, step, s0, WalkEq
<1>7. WalkEq(walk, m, map, v, t)
  BY <1>6 DEF Walk
<1>8. \A paddr : vmm_map(m, map, paddr, v, t) =
         LET w == walk[LEVELS - 1]
         IN  IF w.mem.full THEN w.mem ELSE Store(w.mem, w.directory, Index(v, 0), paddr)
  BY DEF vmm_map, Walk, WalkEq
<1> HIDE DEF walk
<1>9. walk = [n \in 0..(LEVELS - 1) |-> IF n = 0 THEN s0 ELSE step(walk[n - 1], n)]
  BY <1>7 DEF WalkEq, step, s0
<1>10. walk[0] = s0 /\ \A n \in 1..(LEVELS - 1) : walk[n] = step(walk[n - 1], n)
  BY <1>9
<1>11. \A n \in 0..(LEVELS - 1) : walk[n] \in Walker
  <2> DEFINE T == {n \in Nat : n <= LEVELS - 1 => walk[n] \in Walker}
  <2>1. 0 \in T
    BY <1>2, <1>10
  <2>2. ASSUME NEW n \in T PROVE n + 1 \in T
    <3> SUFFICES ASSUME n + 1 <= LEVELS - 1 PROVE walk[n + 1] \in Walker
      OBVIOUS
    <3>1. walk[n] \in Walker /\ n + 1 \in 1..(LEVELS - 1) /\ n + 1 - 1 = n
      OBVIOUS
    <3>2. walk[n + 1] = step(walk[n], n + 1)
      BY <1>10, <3>1
    <3> QED BY <1>1, <3>1, <3>2
  <2>3. T = Nat
    <3>1. T \subseteq Nat
      OBVIOUS
    <3> HIDE DEF T
    <3> QED BY <2>1, <2>2, <3>1, SetInduction
  <2> QED BY <2>3
<1> QED BY <1>8, <1>10, <1>11 DEF walk, step, s0

(* Growing twice is growing. *)
LEMMA GrownTwice ==
  ASSUME NEW m1, NEW m2, NEW m3, NEW K, NEW L, NEW t, "free" \notin K,
         Grown(m1, m2, K, t), Grown(m2, m3, L, t)
  PROVE  Grown(m1, m3, K \cup L, t)
BY DEF Grown, Free

(* The tables that hang below a top table belong to its owner. *)
LEMMA GrownRoots ==
  ASSUME NEW m1, NEW m2, NEW K, NEW t, Grown(m1, m2, K, t), NEW r, IsRoot(m1, r)
  PROVE  IsRoot(m2, r) /\ m2.use[r] = m1.use[r]
BY DEF Grown, IsRoot, Free

(* Every page that the search has passed is taken. *)
Dense(m) == \A q \in Page : q < m.pmm_bitmap_index => m.use[q] # Free

(* What n steps of the walk have done to memory: at most new tables for    *)
(* the map's owner, so that no address leads elsewhere, and only the last  *)
(* step can make the last table of an address.                             *)
Walked(m, map, v, t, w, n) ==
    /\ \E lv : Shape(w.mem, lv)
    /\ Grown(m, w.mem, {"table"}, t)
    /\ Dense(m) => Dense(w.mem)
    /\ w.mem.pmm_bitmap_index >= m.pmm_bitmap_index
    /\ Path(w.mem, map, v)[n] = w.directory
    /\ \A r \in Page, u \in Nat : IsRoot(m, r) =>
          /\ Translation(w.mem, r, u) = Translation(m, r, u)
          /\ \/ Path(w.mem, r, u)[LEVELS - 1] = Path(m, r, u)[LEVELS - 1]
             \/ /\ n = LEVELS - 1 /\ Path(m, r, u)[LEVELS - 1] = NULL
                /\ Path(w.mem, r, u)[LEVELS - 1] = w.directory
                /\ w.mem.pmm_bitmap_index >= m.pmm_bitmap_index + 1

(* One step of the walk, from a table of the right level. *)
LEMMA WalkStep ==
  ASSUME NEW m \in Mem, NEW map, IsRoot(m, map), NEW v \in Nat, NEW t, t = m.use[map].of,
         NEW n \in 1..(LEVELS - 1), NEW w \in Walker, ~w.mem.full, Walked(m, map, v, t, w, n - 1),
         NEW w2, w2 = page_map_walk_entry(w, Index(v, LEVELS - n), t), ~w2.mem.full
  PROVE  Walked(m, map, v, t, w2, n)
<1> USE Params
<1> DEFINE b == w.mem
           d == w.directory
           i == Index(v, LEVELS - n)
<1>1. PICK lv : Shape(b, lv)
  BY DEF Walked
<1>2. b \in Mem /\ d \in Page /\ ~b.full
  BY DEF Walker
<1>3. n - 1 \in 0..(LEVELS - 1) /\ n \in 1..LEVELS /\ LEVELS - n \in 0..LEVELS
  OBVIOUS
<1>4. i \in Entry
  BY <1>3, IndexFacts
<1>5. IsRoot(b, map) /\ b.use[map].of = t /\ \A r \in Page : IsRoot(m, r) => IsRoot(b, r)
  BY GrownRoots DEF Walked
<1>6. Path(b, map, v)[n - 1] = d /\ d # NULL
  BY <1>2 DEF Walked
<1>7. IsTable(b, d) /\ b.use[d].of = t /\ lv[d] = LEVELS - n
  BY <1>1, <1>2, <1>3, <1>5, <1>6, PathLevel
<1>8. Path(b, map, v)[n] = Held(b, d)[i]
  BY <1>2, <1>3, <1>5, <1>6, PathFacts DEF IsRoot, Slot
<1>9. CASE Held(b, d)[i] # NULL
  <2>1. w2 = [w EXCEPT !.directory = Held(b, d)[i]]
    BY <1>9 DEF page_map_walk_entry
  <2>2. w2.mem = b /\ w2.directory = Held(b, d)[i]
    BY <2>1 DEF Walker
  <2>3. n - 1 # LEVELS - 1
    OBVIOUS
  <2> QED BY <1>8, <2>2, <2>3 DEF Walked
<1>10. CASE Held(b, d)[i] = NULL
  <2> DEFINE m1 == pmm_alloc(b, 1, "table", t)
             p == Next_(b, 1)
             m2 == Store(Write(m1, p, Zero), d, i, p)
  <2>1. w2 = IF m1.full THEN [w EXCEPT !.mem = m1] ELSE [mem |-> m2, directory |-> p]
    BY <1>2, <1>10 DEF page_map_walk_entry
  <2>2. m1 = pmm_alloc(b, 1, "table", b.use[d].of) /\ p = Next_(b, 1) /\ m2 = Store(Write(m1, p, Zero), d, i, p)
    BY <1>7
  <2> HIDE DEF m1, p, m2
  <2>3. ~m1.full
    <3> SUFFICES ASSUME m1.full PROVE FALSE
      OBVIOUS
    <3>1. w2.mem = m1
      BY <2>1 DEF Walker
    <3> QED BY <3>1
  <2>4. w2.mem = m2 /\ w2.directory = p
    BY <2>1, <2>3
  <2>5. lv[d] > 0
    BY <1>7
  <2> HIDE DEF b, d, i
  <2>6. /\ p \in Page /\ m2 \in Mem
        /\ m2.pmm_bitmap_index = p + 1 /\ p >= b.pmm_bitmap_index
        /\ \A q \in Page : q >= b.pmm_bitmap_index /\ q < p => b.use[q] # Free
        /\ b.use[p] = Free /\ m2.use[p].as = "table" /\ m2.use[p].of = b.use[d].of
        /\ \A q \in Page \ {p} : m2.use[q] = b.use[q]
        /\ \E lv2 : Shape(m2, lv2)
        /\ Held(m2, d)[i] = p
        /\ \A r \in Page, u \in Nat : IsRoot(b, r) =>
              \A k \in 0..LEVELS :
                 \/ Path(m2, r, u)[k] = Path(b, r, u)[k]
                 \/ /\ Path(b, r, u)[k] = NULL /\ Path(m2, r, u)[k] = p
                    /\ k > 0 /\ lv[d] = LEVELS - k
    BY <1>1, <1>2, <1>4, <1>7, <1>10, <2>2, <2>3, <2>5, NewTable
  <2>7. Grown(m, m2, {"table"}, t)
    <3>1. Grown(b, m2, {"table"}, t)
      BY <1>7, <2>6 DEF Grown
    <3> QED BY <3>1, GrownTwice DEF Walked, b
  <2>8. Dense(m) => Dense(m2)
    <3>1. \A q \in Page : q \in Int
      BY DEF Page
    <3>2. Dense(b) => Dense(m2)
      <4> SUFFICES ASSUME Dense(b), NEW q \in Page, q < p + 1 PROVE m2.use[q] # Free
        BY <2>6 DEF Dense
      <4>1. b.pmm_bitmap_index \in Int
        BY <1>2 DEF Mem
      <4>2. q < b.pmm_bitmap_index \/ (q >= b.pmm_bitmap_index /\ q < p) \/ q = p
        BY <2>6, <3>1, <4>1
      <4>3. CASE q < b.pmm_bitmap_index /\ q # p
        <5>1. b.use[q] # Free
          BY <4>3 DEF Dense
        <5> QED BY <2>6, <4>3, <5>1
      <4>4. CASE q = p
        BY <2>6, <4>4 DEF Free
      <4>5. CASE q >= b.pmm_bitmap_index /\ q < p /\ q # p
        <5>1. b.use[q] # Free
          BY <2>6, <4>5
        <5> QED BY <2>6, <4>5, <5>1
      <4> QED BY <4>2, <4>3, <4>4, <4>5
    <3> QED BY <3>2 DEF Walked, b
  <2>9. b.pmm_bitmap_index \in Int /\ m.pmm_bitmap_index \in Int /\ p \in Int
        /\ b.pmm_bitmap_index >= m.pmm_bitmap_index
    BY <1>2, <2>6 DEF Mem, Page, Walked, b
  <2>10. m2.pmm_bitmap_index >= m.pmm_bitmap_index + 1
    BY <2>6, <2>9
  <2>11. Path(m2, map, v)[n] = p
    <3>1. n - 1 \in 0..LEVELS /\ map \in Page
      BY <1>3, <1>5 DEF IsRoot
    <3>2. Path(m2, map, v)[n - 1] = d
      BY <1>5, <1>6, <2>6, <3>1 DEF b, d
    <3>3. Path(m2, map, v)[n] = IF d = NULL THEN NULL ELSE Held(m2, d)[Index(v, LEVELS - n)]
      <4>1. map \in Slot /\ m2 \in Mem
        BY <2>6, <3>1 DEF Slot
      <4>2. \A k \in 1..LEVELS :
               Path(m2, map, v)[k] = IF Path(m2, map, v)[k - 1] = NULL THEN NULL
                                     ELSE Held(m2, Path(m2, map, v)[k - 1])[Index(v, LEVELS - k)]
        BY <4>1, PathFacts
      <4> QED BY <1>3, <3>2, <4>2
    <3> QED BY <1>6, <2>6, <3>3 DEF i, d
  <2>12. ASSUME NEW r \in Page, NEW u \in Nat, IsRoot(m, r)
         PROVE  /\ Translation(m2, r, u) = Translation(m, r, u)
                /\ \/ Path(m2, r, u)[LEVELS - 1] = Path(m, r, u)[LEVELS - 1]
                   \/ /\ n = LEVELS - 1 /\ Path(m, r, u)[LEVELS - 1] = NULL
                      /\ Path(m2, r, u)[LEVELS - 1] = p
    <3>1. IsRoot(b, r) /\ LEVELS \in 0..LEVELS /\ LEVELS - 1 \in 0..LEVELS
      BY <1>5, <2>12
    <3>2. /\ Path(m2, r, u)[LEVELS] = Path(b, r, u)[LEVELS]
          /\ \/ Path(m2, r, u)[LEVELS - 1] = Path(b, r, u)[LEVELS - 1]
             \/ /\ Path(b, r, u)[LEVELS - 1] = NULL /\ Path(m2, r, u)[LEVELS - 1] = p
                /\ lv[d] = LEVELS - (LEVELS - 1)
      <4>1. LEVELS - LEVELS = 0
        OBVIOUS
      <4> QED BY <2>5, <2>6, <3>1, <4>1
    <3>3. Translation(m2, r, u) = Path(m2, r, u)[LEVELS] /\ Translation(b, r, u) = Path(b, r, u)[LEVELS]
      BY <1>2, <2>6, PathFacts DEF Slot
    <3>4. /\ Translation(b, r, u) = Translation(m, r, u)
          /\ Path(b, r, u)[LEVELS - 1] = Path(m, r, u)[LEVELS - 1]
      <4>1. n - 1 # LEVELS - 1
        OBVIOUS
      <4> QED BY <2>12, <4>1 DEF Walked, b
    <3>5. lv[d] = LEVELS - (LEVELS - 1) => n = LEVELS - 1
      BY <1>7 DEF d
    <3> QED BY <3>2, <3>3, <3>4, <3>5
  <2>13. m2.pmm_bitmap_index >= m.pmm_bitmap_index
    BY <2>9, <2>10, <2>6
  <2> QED BY <2>4, <2>6, <2>7, <2>8, <2>10, <2>11, <2>12, <2>13 DEF Walked
<1> QED BY <1>9, <1>10

(* vmm_map returns a memory, and a full one if it was given one. *)
LEMMA VmmMapType ==
  ASSUME NEW m \in Mem, NEW map \in Page, NEW q \in Slot, NEW v \in Nat, NEW t \in Owner,
         NEW m2, m2 = vmm_map(m, map, q, v, t)
  PROVE  m2 \in Mem /\ m2.mapped = m.mapped /\ (m.full => m2.full)
<1> USE Params
<1> DEFINE walk == Walk(m, map, v, t)
           T == {n \in Nat : n <= LEVELS - 1 => /\ walk[n].mem.mapped = m.mapped
                                                /\ m.full => walk[n].mem.full}
<1>1. /\ walk[0] = [mem |-> m, directory |-> map]
      /\ \A n \in 1..(LEVELS - 1) : walk[n] = page_map_walk_entry(walk[n - 1], Index(v, LEVELS - n), t)
      /\ \A n \in 0..(LEVELS - 1) : walk[n] \in Walker
      /\ m2 = LET w == walk[LEVELS - 1]
              IN  IF w.mem.full THEN w.mem ELSE Store(w.mem, w.directory, Index(v, 0), q)
  BY WalkFacts
<1> HIDE DEF walk
<1>2. 0 \in T
  BY <1>1
<1>3. ASSUME NEW n \in T PROVE n + 1 \in T
  <2> SUFFICES ASSUME n + 1 <= LEVELS - 1
               PROVE  walk[n + 1].mem.mapped = m.mapped /\ (m.full => walk[n + 1].mem.full)
    OBVIOUS
  <2>1. n + 1 \in 1..(LEVELS - 1) /\ n + 1 - 1 = n /\ n \in 0..(LEVELS - 1) /\ LEVELS - (n + 1) \in 0..LEVELS
    OBVIOUS
  <2>2. walk[n + 1] = page_map_walk_entry(walk[n], Index(v, LEVELS - (n + 1)), t) /\ walk[n] \in Walker
    BY <1>1, <2>1
  <2>3. Index(v, LEVELS - (n + 1)) \in Entry
    BY <2>1, IndexFacts
  <2>4. walk[n + 1].mem.mapped = walk[n].mem.mapped /\ (walk[n].mem.full => walk[n + 1].mem.full)
    BY <2>2, <2>3, WalkEntryType
  <2> QED BY <2>1, <2>4
<1>4. T = Nat
  <2>1. T \subseteq Nat
    OBVIOUS
  <2> HIDE DEF T
  <2> QED BY <1>2, <1>3, <2>1, SetInduction
<1> DEFINE w == walk[LEVELS - 1]
<1>5. w \in Walker /\ w.mem.mapped = m.mapped /\ (m.full => w.mem.full)
  <2>1. LEVELS - 1 \in 0..(LEVELS - 1) /\ LEVELS - 1 \in T
    BY <1>4
  <2> QED BY <1>1, <2>1
<1>6. Index(v, 0) \in Entry
  BY IndexFacts
<1>7. m2 = IF w.mem.full THEN w.mem ELSE Store(w.mem, w.directory, Index(v, 0), q)
  BY <1>1
<1> HIDE DEF w
<1>8. w.mem \in Mem /\ (~w.mem.full => w.directory \in Page)
  BY <1>5 DEF Walker
<1>9. CASE w.mem.full
  BY <1>5, <1>7, <1>8, <1>9
<1>10. CASE ~w.mem.full
  <2> DEFINE s == Store(w.mem, w.directory, Index(v, 0), q)
  <2>1. s \in Mem /\ s.mapped = w.mem.mapped
    BY <1>6, <1>8, <1>10, StoreFacts
  <2>2. m2 = s
    BY <1>7, <1>10
  <2> HIDE DEF s
  <2> QED BY <1>5, <1>10, <2>1, <2>2
<1> QED BY <1>9, <1>10

(* What vmm_map does while there is memory: new tables of the map's owner, *)
(* and one address of one map leads to the page.                           *)
LEMMA VmmMap ==
  ASSUME NEW m \in Mem, NEW lv, Shape(m, lv), NEW map, IsRoot(m, map), NEW v \in Nat,
         NEW t, t = m.use[map].of, NEW q \in Page,
         t # NULL => m.use[q].as \in {"segment", "heap"} /\ m.use[q].of = t,
         NEW m2, m2 = vmm_map(m, map, q, v, t), ~m2.full
  PROVE  /\ m2 \in Mem /\ m2.mapped = m.mapped /\ ~m.full
         /\ \E lv2 : Shape(m2, lv2)
         /\ Grown(m, m2, {"table"}, t)
         /\ Dense(m) => Dense(m2)
         /\ m2.pmm_bitmap_index >= m.pmm_bitmap_index
         /\ \A r \in Page, u \in Nat : IsRoot(m, r) /\ InReach(u) /\ InReach(v) =>
               Translation(m2, r, u) = IF r = map /\ u = v THEN q ELSE Translation(m, r, u)
         /\ \A u \in Nat : \/ Path(m2, map, u)[LEVELS - 1] = NULL
                           \/ Path(m, map, u)[LEVELS - 1] # NULL
                           \/ \A k \in 1..(LEVELS - 1) : Index(u, LEVELS - k) = Index(v, LEVELS - k)
         /\ Path(m, map, v)[LEVELS - 1] = NULL => m2.pmm_bitmap_index >= m.pmm_bitmap_index + 1
<1> USE Params
<1>0. LEVELS - 1 \in 0..(LEVELS - 1) /\ LEVELS - 1 \in Nat
  OBVIOUS
<1>1. map \in Page /\ t \in Owner /\ q \in Slot
  BY DEF IsRoot, Mem, Use, Slot
<1> DEFINE walk == Walk(m, map, v, t)
           w == walk[LEVELS - 1]
           T == {n \in Nat : n <= LEVELS - 1 =>
                    (~walk[n].mem.full => ~m.full /\ Walked(m, map, v, t, walk[n], n))}
<1>2. /\ walk[0] = [mem |-> m, directory |-> map]
      /\ \A n \in 1..(LEVELS - 1) : walk[n] = page_map_walk_entry(walk[n - 1], Index(v, LEVELS - n), t)
      /\ \A n \in 0..(LEVELS - 1) : walk[n] \in Walker
      /\ m2 = IF w.mem.full THEN w.mem ELSE Store(w.mem, w.directory, Index(v, 0), q)
  BY <1>1, WalkFacts
<1>3. m2 \in Mem /\ m2.mapped = m.mapped
  BY <1>1, VmmMapType
<1> HIDE DEF walk
<1>4. 0 \in T
  <2>1. Walked(m, map, v, t, [mem |-> m, directory |-> map], 0)
    <3>1. Path(m, map, v)[0] = map
      BY <1>1, PathFacts DEF Slot
    <3>2. m.pmm_bitmap_index >= m.pmm_bitmap_index
      BY DEF Mem
    <3> QED BY <3>1, <3>2 DEF Walked, Grown
  <2> QED BY <1>2, <2>1
<1>5. ASSUME NEW n \in T PROVE n + 1 \in T
  <2> SUFFICES ASSUME n + 1 <= LEVELS - 1, ~walk[n + 1].mem.full
               PROVE  ~m.full /\ Walked(m, map, v, t, walk[n + 1], n + 1)
    OBVIOUS
  <2>1. n + 1 \in 1..(LEVELS - 1) /\ n + 1 - 1 = n /\ n \in 0..(LEVELS - 1) /\ LEVELS - (n + 1) \in 0..LEVELS
    OBVIOUS
  <2>2. walk[n + 1] = page_map_walk_entry(walk[n], Index(v, LEVELS - (n + 1)), t) /\ walk[n] \in Walker
    BY <1>2, <2>1
  <2>3. Index(v, LEVELS - (n + 1)) \in Entry
    BY <2>1, IndexFacts
  <2>4. ~walk[n].mem.full
    BY <1>1, <2>2, <2>3, WalkEntryType
  <2>5. ~m.full /\ Walked(m, map, v, t, walk[n], n)
    BY <2>1, <2>4
  <2> HIDE DEF T
  <2>6. Walked(m, map, v, t, walk[n], (n + 1) - 1)
    BY <2>1, <2>5
  <2> QED BY <2>1, <2>2, <2>4, <2>5, <2>6, WalkStep
<1>6. T = Nat
  <2>1. T \subseteq Nat
    OBVIOUS
  <2> HIDE DEF T
  <2> QED BY <1>4, <1>5, <2>1, SetInduction
<1>7. ~w.mem.full /\ w \in Walker
  BY <1>0, <1>2
<1>8. ~m.full /\ Walked(m, map, v, t, w, LEVELS - 1)
  <2>1. LEVELS - 1 \in T
    BY <1>0, <1>6
  <2> QED BY <1>7, <2>1
<1> HIDE DEF T, w
<1> DEFINE b == w.mem
           d == w.directory
<1>9. b \in Mem /\ d \in Page /\ d = Path(b, map, v)[LEVELS - 1] /\ d # NULL
  BY <1>7, <1>8 DEF Walker, Walked
<1>10. PICK lv1 : Shape(b, lv1)
  BY <1>8 DEF Walked
<1>11. m2 = Store(b, d, Index(v, 0), q)
  BY <1>2, <1>7
<1>12. /\ Grown(m, b, {"table"}, t) /\ (Dense(m) => Dense(b))
       /\ b.pmm_bitmap_index >= m.pmm_bitmap_index
       /\ \A r \in Page, u \in Nat : IsRoot(m, r) =>
             /\ Translation(b, r, u) = Translation(m, r, u)
             /\ \/ Path(b, r, u)[LEVELS - 1] = Path(m, r, u)[LEVELS - 1]
                \/ /\ Path(m, r, u)[LEVELS - 1] = NULL /\ Path(b, r, u)[LEVELS - 1] = d
                   /\ b.pmm_bitmap_index >= m.pmm_bitmap_index + 1
  BY <1>8 DEF Walked
<1> HIDE DEF b, d
<1>13. IsRoot(b, map) /\ b.use[map].of = t /\ \A r \in Page : IsRoot(m, r) => IsRoot(b, r)
  BY <1>12, GrownRoots
<1>14. t # NULL => b.use[q].as \in {"segment", "heap"} /\ b.use[q].of = t
  BY <1>12 DEF Grown, Free
<1>15. /\ m2.use = b.use /\ m2.pmm_bitmap_index = b.pmm_bitmap_index
       /\ Shape(m2, lv1)
       /\ \A r \in Page, u \in Nat : IsRoot(b, r) =>
             \A k \in 0..(LEVELS - 1) : Path(m2, r, u)[k] = Path(b, r, u)[k]
       /\ \A r \in Page, u \in Nat : IsRoot(b, r) /\ InReach(u) /\ InReach(v) =>
             Translation(m2, r, u) = IF r = map /\ u = v THEN q ELSE Translation(b, r, u)
  BY <1>9, <1>10, <1>11, <1>13, <1>14, LeafStore
<1>16. Grown(m, m2, {"table"}, t) /\ (Dense(m) => Dense(m2))
       /\ m2.pmm_bitmap_index >= m.pmm_bitmap_index
  BY <1>12, <1>15 DEF Grown, Dense
<1>17. \A r \in Page, u \in Nat : IsRoot(m, r) /\ InReach(u) /\ InReach(v) =>
               Translation(m2, r, u) = IF r = map /\ u = v THEN q ELSE Translation(m, r, u)
  BY <1>12, <1>13, <1>15
<1>18. ASSUME NEW u \in Nat, Path(m2, map, u)[LEVELS - 1] # NULL, Path(m, map, u)[LEVELS - 1] = NULL
       PROVE  \A k \in 1..(LEVELS - 1) : Index(u, LEVELS - k) = Index(v, LEVELS - k)
  <2>1. Path(b, map, u)[LEVELS - 1] = Path(b, map, v)[LEVELS - 1] /\ Path(b, map, u)[LEVELS - 1] # NULL
    BY <1>0, <1>1, <1>9, <1>12, <1>13, <1>15, <1>18
  <2> QED BY <1>0, <1>9, <1>10, <1>13, <2>1, PathUnique
<1>19. Path(m, map, v)[LEVELS - 1] = NULL => m2.pmm_bitmap_index >= m.pmm_bitmap_index + 1
  BY <1>1, <1>9, <1>12, <1>15
<1> QED BY <1>3, <1>8, <1>15, <1>16, <1>17, <1>18, <1>19

-----------------------------------------------------------------------------
(* vmm_alloc.                                                              *)

(* The memories that vmm_alloc goes through, one for each page. *)
LEMMA MapPagesRun ==
  ASSUME NEW m \in Mem, NEW map \in Page, NEW a \in Page, NEW n \in Nat, a + n <= Pages, NEW t \in Owner
  PROVE  \E f : /\ \A i \in 0..n : f[i] \in Mem
                /\ f[0] = m
                /\ \A i \in 1..n : f[i] = MapPage(f[i - 1], map, a + i - 1, t)
                /\ MapPages(m, map, a, n, t) = f[n]
<1> USE Params
<1> DEFINE step(s, i) == MapPage(s, map, a + i - 1, t)
           g == [x \in Mem \X (1..n) |-> step(x[1], x[2])]
           Eq(f) == f = [i \in 0..n |-> IF i = 0 THEN m ELSE step(f[i - 1], i)]
           maps == CHOOSE f : Eq(f)
<1>1. \A s \in Mem, i \in 1..n : step(s, i) \in Mem
  <2> SUFFICES ASSUME NEW s \in Mem, NEW i \in 1..n PROVE step(s, i) \in Mem
    OBVIOUS
  <2> DEFINE p == a + i - 1
  <2>1. p \in Page /\ p \in Slot /\ p \in Nat
    BY DEF Page, Slot
  <2> HIDE DEF p
  <2>2. vmm_map(s, map, p, p, t) \in Mem
    BY <2>1, VmmMapType
  <2>3. MapPage(s, map, p, t) \in Mem
    BY <2>2 DEF MapPage
  <2> QED BY <2>3 DEF p
<1> HIDE DEF step
<1>2. g \in Steps(Mem, n)
  BY <1>1 DEF Steps
<1>3. PICK f : IsRun(f, Mem, m, n, g)
  <2> HIDE DEF g
  <2> QED BY <1>2, Iteration
<1>4. f \in [0..n -> Mem] /\ f[0] = m /\ \A i \in 1..n : f[i] = step(f[i - 1], i)
  <2>1. f \in [0..n -> Mem] /\ f[0] = m /\ \A i \in 1..n : f[i] = g[<< f[i - 1], i >>]
    <3> HIDE DEF g
    <3> QED BY <1>3 DEF IsRun
  <2>2. \A i \in 1..n : << f[i - 1], i >> \in Mem \X (1..n)
    BY <2>1
  <2> QED BY <2>1, <2>2
<1> HIDE DEF g
<1>5. Eq(f)
  <2> DEFINE body(i) == IF i = 0 THEN m ELSE step(f[i - 1], i)
  <2>1. \A i \in 0..n : f[i] = body(i)
    BY <1>4
  <2> HIDE DEF body
  <2>2. f = [i \in 0..n |-> body(i)]
    BY <1>4, <2>1
  <2> QED BY <2>2 DEF body
<1>6. Eq(maps)
  <2> HIDE DEF Eq
  <2> QED BY <1>5
<1>7. MapPages(m, map, a, n, t) = maps[n]
  BY DEF MapPages, step
<1> HIDE DEF maps
<1>8. maps[0] = m /\ \A i \in 1..n : maps[i] = step(maps[i - 1], i)
  BY <1>6
<1>9. \A i \in 0..n : maps[i] \in Mem
  <2> DEFINE T == {i \in Nat : i <= n => maps[i] \in Mem}
  <2> HIDE DEF Eq
  <2>1. 0 \in T
    BY <1>8
  <2>2. ASSUME NEW i \in T PROVE i + 1 \in T
    <3> SUFFICES ASSUME i + 1 <= n PROVE maps[i + 1] \in Mem
      OBVIOUS
    <3>1. maps[i] \in Mem /\ i + 1 \in 1..n /\ i + 1 - 1 = i
      OBVIOUS
    <3>2. maps[i + 1] = step(maps[i], i + 1)
      BY <1>8, <3>1
    <3> QED BY <1>1, <3>1, <3>2
  <2>3. T = Nat
    <3>1. T \subseteq Nat
      OBVIOUS
    <3> HIDE DEF T
    <3> QED BY <2>1, <2>2, <3>1, SetInduction
  <2> QED BY <2>3
<1> HIDE DEF Eq
<1>10. \A i \in 1..n : maps[i] = MapPage(maps[i - 1], map, a + i - 1, t)
  BY <1>8 DEF step
<1> QED BY <1>7, <1>8, <1>9, <1>10

(* What the loop of vmm_alloc does: it maps each page to itself. *)
LEMMA MapPagesGrow ==
  ASSUME NEW m \in Mem, NEW lv, Shape(m, lv), NEW map, IsRoot(m, map), NEW t, t = m.use[map].of,
         NEW a \in Page, NEW n \in Nat, a + n <= Pages,
         \A p \in a..(a + n - 1) :
            t # NULL => m.use[p].as \in {"segment", "heap"} /\ m.use[p].of = t,
         NEW m2, m2 = MapPages(m, map, a, n, t), ~m2.full
  PROVE  /\ m2 \in Mem /\ m2.mapped = m.mapped /\ ~m.full
         /\ \E lv2 : Shape(m2, lv2)
         /\ Grown(m, m2, {"table"}, t)
         /\ \A r \in Page, u \in Nat : IsRoot(m, r) /\ InReach(u) =>
               Translation(m2, r, u) = IF r = map /\ u \in a..(a + n - 1) THEN u ELSE Translation(m, r, u)
<1> USE Params
<1>1. map \in Page /\ t \in Owner
  BY DEF IsRoot, Mem, Use
<1>2. PICK f : /\ \A i \in 0..n : f[i] \in Mem
               /\ f[0] = m
               /\ \A i \in 1..n : f[i] = MapPage(f[i - 1], map, a + i - 1, t)
               /\ m2 = f[n]
  BY <1>1, MapPagesRun
<1> DEFINE Good(i) ==
              /\ f[i].mapped = m.mapped /\ ~m.full
              /\ \E lv2 : Shape(f[i], lv2)
              /\ Grown(m, f[i], {"table"}, t)
              /\ \A r \in Page, u \in Nat : IsRoot(m, r) /\ InReach(u) =>
                    Translation(f[i], r, u) =
                       IF r = map /\ u \in a..(a + i - 1) THEN u ELSE Translation(m, r, u)
           T == {i \in Nat : i <= n => (~f[i].full => Good(i))}
<1>3. 0 \in T
  <2>1. a..(a + 0 - 1) = {}
    BY DEF Page
  <2> SUFFICES ASSUME ~f[0].full PROVE Good(0)
    OBVIOUS
  <2>2. \A r \in Page, u \in Nat : IsRoot(m, r) /\ InReach(u) =>
                    Translation(f[0], r, u) =
                       IF r = map /\ u \in a..(a + 0 - 1) THEN u ELSE Translation(m, r, u)
    BY <1>2, <2>1
  <2> QED BY <1>2, <2>2 DEF Grown
<1>4. ASSUME NEW i \in T PROVE i + 1 \in T
  <2> SUFFICES ASSUME i + 1 <= n, ~f[i + 1].full PROVE Good(i + 1)
    OBVIOUS
  <2> DEFINE b == f[i]
             c == f[i + 1]
             p == a + i
  <2>1. /\ b \in Mem /\ c \in Mem /\ c = MapPage(b, map, p, t)
        /\ p \in Page /\ p \in Slot /\ p \in Nat /\ p \in a..(a + n - 1)
    <3>1. i + 1 \in 1..n /\ i + 1 - 1 = i /\ i \in 0..n /\ i + 1 \in 0..n /\ a + (i + 1) - 1 = p
      BY DEF Page
    <3> QED BY <1>2, <3>1 DEF Page, Slot
  <2>2. ~b.full
    BY <2>1 DEF MapPage
  <2>3. Good(i)
    BY <2>2
  <2>4. PICK lv1 : Shape(b, lv1)
    BY <2>3
  <2>5. Grown(m, b, {"table"}, t)
    BY <2>3
  <2>6. \A r \in Page, u \in Nat : IsRoot(m, r) /\ InReach(u) =>
                    Translation(b, r, u) =
                       IF r = map /\ u \in a..(a + i - 1) THEN u ELSE Translation(m, r, u)
    BY <2>3
  <2>7. b.mapped = m.mapped /\ ~m.full
    BY <2>3
  <2>8. c = vmm_map(b, map, p, p, t) /\ ~c.full
    BY <2>1, <2>2 DEF MapPage
  <2> HIDE DEF b, c, p, Good
  <2>9. IsRoot(b, map) /\ b.use[map].of = t /\ \A r \in Page : IsRoot(m, r) => IsRoot(b, r)
    BY <2>5, GrownRoots
  <2>10. t # NULL => b.use[p].as \in {"segment", "heap"} /\ b.use[p].of = t
    BY <2>1, <2>5 DEF Grown, Free
  <2>11. /\ c \in Mem /\ c.mapped = b.mapped /\ \E lv2 : Shape(c, lv2)
         /\ Grown(b, c, {"table"}, t)
         /\ \A r \in Page, u \in Nat : IsRoot(b, r) /\ InReach(u) /\ InReach(p) =>
               Translation(c, r, u) = IF r = map /\ u = p THEN p ELSE Translation(b, r, u)
    BY <2>1, <2>4, <2>8, <2>9, <2>10, VmmMap
  <2>12. InReach(p)
    BY <2>1, PagesInRange DEF InReach
  <2>13. Grown(m, c, {"table"}, t)
    BY <2>5, <2>11, GrownTwice
  <2>14. ASSUME NEW r \in Page, NEW u \in Nat, IsRoot(m, r), InReach(u)
         PROVE  Translation(c, r, u) =
                   IF r = map /\ u \in a..(a + (i + 1) - 1) THEN u ELSE Translation(m, r, u)
    <3>1. Translation(c, r, u) = IF r = map /\ u = p THEN p ELSE Translation(b, r, u)
      BY <2>9, <2>11, <2>12, <2>14
    <3>2. Translation(b, r, u) = IF r = map /\ u \in a..(a + i - 1) THEN u ELSE Translation(m, r, u)
      BY <2>6, <2>14
    <3>3. u \in a..(a + (i + 1) - 1) <=> u \in a..(a + i - 1) \/ u = p
      BY DEF Page, p
    <3> QED BY <3>1, <3>2, <3>3
  <2> QED BY <2>7, <2>11, <2>13, <2>14 DEF Good, c
<1>5. T = Nat
  <2>1. T \subseteq Nat
    OBVIOUS
  <2> HIDE DEF T
  <2> QED BY <1>3, <1>4, <2>1, SetInduction
<1>6. n \in T
  BY <1>5
<1>7. Good(n)
  BY <1>2, <1>6
<1>8. n \in 0..n
  OBVIOUS
<1> QED BY <1>2, <1>7, <1>8

(* vmm_alloc: pages that were free are taken and mapped to themselves. *)
LEMMA VmmAlloc ==
  ASSUME NEW m \in Mem, NEW lv, Shape(m, lv), NEW map, IsRoot(m, map), NEW o, o = m.use[map].of,
         NEW n \in Nat \ {0}, NEW kind \in Kind \ {"free", "map", "table"}, NEW t \in Owner,
         o # NULL => kind \in {"segment", "heap"} /\ t = o,
         NEW m2, m2 = vmm_alloc(m, map, n, kind, t, o), ~m2.full, NEW a, a = Next_(m, n)
  PROVE  /\ m2 \in Mem /\ m2.mapped = m.mapped /\ ~m.full
         /\ \E lv2 : Shape(m2, lv2)
         /\ a \in Page /\ a + n <= Pages
         /\ \A p \in a..(a + n - 1) :
               /\ p \in Page /\ m.use[p] = Free
               /\ m2.use[p] = [as |-> kind, of |-> t, at |-> a, usable |-> FALSE]
         /\ \A p \in Page : \/ p \in a..(a + n - 1)
                            \/ m2.use[p] = m.use[p]
                            \/ m.use[p] = Free /\ m2.use[p].as = "table" /\ m2.use[p].of = o
         /\ \A r \in Page, u \in Nat : IsRoot(m, r) /\ InReach(u) =>
               Translation(m2, r, u) = IF r = map /\ u \in a..(a + n - 1) THEN u ELSE Translation(m, r, u)
<1> USE Params
<1> DEFINE m1 == pmm_alloc(m, n, kind, t)
<1>1. m1 = pmm_alloc(m, n, kind, t)
  OBVIOUS
<1>2. m2 = IF m1.full THEN m1 ELSE MapPages(m1, map, a, n, o)
  BY DEF vmm_alloc
<1> HIDE DEF m1
<1>3. ~m1.full /\ m2 = MapPages(m1, map, a, n, o)
  BY <1>2
<1>4. /\ m1 \in Mem /\ m1.mapped = m.mapped
      /\ \A p : Held(m1, p) = Held(m, p)
      /\ m.full => m1.full
      /\ ~m1.full =>
            /\ a \in Page /\ a + n <= Pages
            /\ \A p \in a..(a + n - 1) : p \in Page /\ m.use[p] = Free
            /\ m1.pmm_bitmap_index = a + n
            /\ \A p \in Page : m1.use[p] = IF p \in a..(a + n - 1)
                             THEN [as |-> kind, of |-> t, at |-> a, usable |-> FALSE]
                             ELSE m.use[p]
  BY <1>1, AllocFacts
<1> DEFINE I == a..(a + n - 1)
           part == [as |-> kind, of |-> t, at |-> a, usable |-> FALSE]
<1>5. /\ a \in Page /\ a + n <= Pages /\ ~m.full
      /\ \A p \in I : p \in Page /\ m.use[p] = Free /\ m1.use[p] = part
      /\ \A p \in Page : p \notin I => m1.use[p] = m.use[p]
  BY <1>3, <1>4
<1>6. part.as = kind /\ part.of = t
  OBVIOUS
<1>7. MapPages(m1, map, a, n, o) = m2
  BY <1>3
<1> HIDE DEF I, part
<1>8. /\ \A p \in Page : IsTable(m1, p) => m.use[p].as = m1.use[p].as /\ m.use[p].of = m1.use[p].of
      /\ \A p \in Page : m.use[p].as # "free" => m1.use[p] = m.use[p]
  BY <1>5, <1>6 DEF IsTable, Free
<1>9. Shape(m1, lv)
  BY <1>4, <1>8, ShapeKept
<1>10. IsRoot(m1, map) /\ m1.use[map].of = o /\ \A r \in Page : IsRoot(m, r) => IsRoot(m1, r)
  BY <1>8 DEF IsRoot
<1>11. \A p \in a..(a + n - 1) : o # NULL => m1.use[p].as \in {"segment", "heap"} /\ m1.use[p].of = o
  BY <1>5, <1>6 DEF I
<1>12. n \in Nat
  OBVIOUS
<1>13. /\ m2 \in Mem /\ m2.mapped = m1.mapped
       /\ \E lv2 : Shape(m2, lv2)
       /\ Grown(m1, m2, {"table"}, o)
       /\ \A r \in Page, u \in Nat : IsRoot(m1, r) /\ InReach(u) =>
             Translation(m2, r, u) = IF r = map /\ u \in a..(a + n - 1) THEN u ELSE Translation(m1, r, u)
  BY <1>3, <1>4, <1>5, <1>9, <1>10, <1>11, <1>12, MapPagesGrow
<1>14. \A p \in I : m2.use[p] = part
  <2>1. \A p \in I : m1.use[p] # Free
    BY <1>5, <1>6 DEF Free
  <2> QED BY <1>5, <1>13, <2>1 DEF Grown
<1>15. \A p \in Page : \/ p \in I
                       \/ m2.use[p] = m.use[p]
                       \/ m.use[p] = Free /\ m2.use[p].as = "table" /\ m2.use[p].of = o
  BY <1>5, <1>13 DEF Grown
<1>16. \A r \in Page, u \in Nat : IsRoot(m, r) => Translation(m1, r, u) = Translation(m, r, u)
  <2> SUFFICES ASSUME NEW r \in Page, NEW u \in Nat, IsRoot(m, r)
               PROVE  Translation(m1, r, u) = Translation(m, r, u)
    OBVIOUS
  <2>1. Path(m1, r, u)[LEVELS] = Path(m, r, u)[LEVELS]
    BY <1>4, SamePaths
  <2> QED BY <1>4, <2>1, PathFacts DEF Slot
<1>17. m2.mapped = m.mapped
  BY <1>4, <1>13
<1> QED BY <1>5, <1>10, <1>13, <1>14, <1>15, <1>16, <1>17, ZenonT(30) DEF I, part

-----------------------------------------------------------------------------
(* elf_exec.                                                               *)

Elf == [mem : Mem, vaddr : Nat, linked : SUBSET [vaddr : Nat, page : Page]]

(* What elf_exec has after a segment has the same types, and memory stays  *)
(* full.                                                                   *)
LEMMA LoadSegmentType ==
  ASSUME NEW e \in Elf, NEW map \in Page, NEW size \in Nat \ {0}, NEW t \in Owner,
         NEW e2, e2 = LoadSegment(e, map, size, t)
  PROVE  /\ e2 \in Elf /\ (e.mem.full => e2.mem.full)
         /\ LET m1 == pmm_alloc(e.mem, size, "segment", t)
                seg == Next_(e.mem, size)
            IN ~e2.mem.full => /\ ~e.mem.full /\ ~m1.full
                               /\ e2.mem = vmm_map(m1, map, seg, e.vaddr, t)
                               /\ e2.vaddr = e.vaddr + size
                               /\ e2.linked = e.linked \cup {[vaddr |-> e.vaddr, page |-> seg]}
<1> DEFINE m1 == pmm_alloc(e.mem, size, "segment", t)
           seg == Next_(e.mem, size)
<1>1. e.mem \in Mem /\ e.vaddr \in Nat /\ e.linked \in SUBSET [vaddr : Nat, page : Page]
  BY DEF Elf
<1>2. m1 \in Mem /\ (~m1.full => seg \in Page)
  <2>1. "segment" \in Kind
    BY DEF Kind
  <2> QED BY <1>1, <2>1, AllocType
<1>3. e2 = IF e.mem.full \/ m1.full THEN [e EXCEPT !.mem.full = TRUE]
           ELSE [mem |-> vmm_map(m1, map, seg, e.vaddr, t), vaddr |-> e.vaddr + size,
                 linked |-> e.linked \cup {[vaddr |-> e.vaddr, page |-> seg]}]
  BY DEF LoadSegment
<1> HIDE DEF m1, seg
<1>4. CASE e.mem.full \/ m1.full
  <2>1. [e.mem EXCEPT !.full = TRUE] \in Mem /\ [e.mem EXCEPT !.full = TRUE].full = TRUE
    BY <1>1 DEF Mem
  <2>2. e2 = [e EXCEPT !.mem = [e.mem EXCEPT !.full = TRUE]]
    BY <1>3, <1>4 DEF Elf
  <2> DEFINE b == [e.mem EXCEPT !.full = TRUE]
  <2> HIDE DEF b
  <2>3. e2 = [e EXCEPT !.mem = b] /\ b \in Mem /\ b.full = TRUE
    BY <2>1, <2>2 DEF b
  <2>4. e2 \in Elf /\ e2.mem = b
    BY <2>3 DEF Elf
  <2> QED BY <2>3, <2>4
<1>5. CASE ~(e.mem.full \/ m1.full)
  <2> DEFINE b == vmm_map(m1, map, seg, e.vaddr, t)
             l == e.linked \cup {[vaddr |-> e.vaddr, page |-> seg]}
  <2>1. seg \in Page /\ seg \in Slot
    BY <1>2, <1>5 DEF Slot
  <2>2. b \in Mem
    BY <1>1, <1>2, <2>1, VmmMapType
  <2>3. l \in SUBSET [vaddr : Nat, page : Page] /\ e.vaddr + size \in Nat
    BY <1>1, <2>1
  <2>4. e2 = [mem |-> b, vaddr |-> e.vaddr + size, linked |-> l]
    BY <1>3, <1>5
  <2>5. b = vmm_map(m1, map, seg, e.vaddr, t) /\ l = e.linked \cup {[vaddr |-> e.vaddr, page |-> seg]}
    OBVIOUS
  <2> HIDE DEF b, l
  <2>6. e2 \in Elf
    BY <2>2, <2>3, <2>4 DEF Elf
  <2> QED BY <1>5, <2>4, <2>5, <2>6 DEF m1, seg
<1> QED BY <1>4, <1>5

(* Where a program that is linked from Base ends. *)
EndEq(f, segments) == f = [i \in 0..Len(segments) |-> IF i = 0 THEN Base ELSE f[i - 1] + segments[i]]
End(segments) ==
    LET end[i \in 0..Len(segments)] == IF i = 0 THEN Base ELSE end[i - 1] + segments[i]
    IN end[Len(segments)]

(* The ends of its segments. *)
LEMMA EndRun ==
  ASSUME NEW segments \in Seq(Nat \ {0})
  PROVE  \E f : /\ f[0] = Base /\ f[Len(segments)] = End(segments)
                /\ \A i \in 0..Len(segments) : f[i] \in Nat
                /\ \A i \in 1..Len(segments) : f[i] = f[i - 1] + segments[i]
<1> USE Params
<1> DEFINE n == Len(segments)
           step(s, i) == s + segments[i]
           g == [x \in Nat \X (1..n) |-> step(x[1], x[2])]
           end == CHOOSE f : EndEq(f, segments)
<1>1. n \in Nat /\ \A i \in 1..n : segments[i] \in Nat
  OBVIOUS
<1>2. End(segments) = end[n]
  BY DEF End, EndEq
<1>3. \A s \in Nat, i \in 1..n : step(s, i) \in Nat
  BY <1>1
<1> HIDE DEF step, n
<1>4. g \in Steps(Nat, n)
  BY <1>3 DEF Steps
<1>5. PICK f : IsRun(f, Nat, Base, n, g)
  <2> HIDE DEF g
  <2> QED BY <1>1, <1>4, Iteration
<1>6. f \in [0..n -> Nat] /\ f[0] = Base /\ \A i \in 1..n : f[i] = step(f[i - 1], i)
  <2>1. f \in [0..n -> Nat] /\ f[0] = Base /\ \A i \in 1..n : f[i] = g[<< f[i - 1], i >>]
    <3> HIDE DEF g
    <3> QED BY <1>5 DEF IsRun
  <2>2. \A i \in 1..n : << f[i - 1], i >> \in Nat \X (1..n)
    BY <1>1, <2>1
  <2> QED BY <2>1, <2>2
<1> HIDE DEF g
<1>7. EndEq(f, segments)
  <2> DEFINE body(i) == IF i = 0 THEN Base ELSE step(f[i - 1], i)
  <2>1. \A i \in 0..n : f[i] = body(i)
    BY <1>1, <1>6
  <2> HIDE DEF body
  <2>2. f = [i \in 0..n |-> body(i)]
    BY <1>6, <2>1
  <2> QED BY <2>2 DEF body, step, n, EndEq
<1>8. EndEq(end, segments)
  BY <1>7
<1> HIDE DEF end
<1>9. end = [i \in 0..n |-> IF i = 0 THEN Base ELSE step(end[i - 1], i)]
  BY <1>8 DEF EndEq, step, n
<1>10. end[0] = Base /\ \A i \in 1..n : end[i] = step(end[i - 1], i)
  BY <1>1, <1>9
<1>11. \A i \in 0..n : end[i] \in Nat
  <2> DEFINE T == {i \in Nat : i <= n => end[i] \in Nat}
  <2>1. 0 \in T
    BY <1>10
  <2>2. ASSUME NEW i \in T PROVE i + 1 \in T
    <3> SUFFICES ASSUME i + 1 <= n PROVE end[i + 1] \in Nat
      OBVIOUS
    <3>1. end[i] \in Nat /\ i + 1 \in 1..n /\ i + 1 - 1 = i
      BY <1>1
    <3>2. end[i + 1] = step(end[i], i + 1)
      BY <1>10, <3>1
    <3> QED BY <1>3, <3>1, <3>2
  <2>3. T = Nat
    <3>1. T \subseteq Nat
      OBVIOUS
    <3> HIDE DEF T
    <3> QED BY <2>1, <2>2, <3>1, SetInduction
  <2> QED BY <1>1, <2>3
<1> QED BY <1>2, <1>10, <1>11 DEF step, n

(* What elf_exec goes through, one segment after the other. *)
LEMMA ElfRun ==
  ASSUME NEW m \in Mem, NEW map \in Page, NEW segments \in Seq(Nat \ {0}), NEW t \in Owner
  PROVE  \E f : /\ \A i \in 0..Len(segments) : f[i] \in Elf
                /\ f[0] = [mem |-> m, vaddr |-> Base, linked |-> {}]
                /\ \A i \in 1..Len(segments) : f[i] = LoadSegment(f[i - 1], map, segments[i], t)
                /\ elf_exec(m, map, segments, t) = f[Len(segments)]
<1> USE Params
<1> DEFINE n == Len(segments)
           s0 == [mem |-> m, vaddr |-> Base, linked |-> {}]
           step(s, i) == LoadSegment(s, map, segments[i], t)
           g == [x \in Elf \X (1..n) |-> step(x[1], x[2])]
           Eq(f) == f = [i \in 0..n |-> IF i = 0 THEN s0 ELSE step(f[i - 1], i)]
           elf == CHOOSE f : Eq(f)
<1>1. n \in Nat /\ \A i \in 1..n : segments[i] \in Nat \ {0}
  OBVIOUS
<1>2. elf_exec(m, map, segments, t) = elf[n]
  BY DEF elf_exec
<1>3. \A s \in Elf, i \in 1..n : step(s, i) \in Elf
  BY <1>1, LoadSegmentType
<1>4. s0 \in Elf
  BY DEF Elf
<1> HIDE DEF step, n, s0
<1>5. g \in Steps(Elf, n)
  BY <1>3 DEF Steps
<1>6. PICK f : IsRun(f, Elf, s0, n, g)
  <2> HIDE DEF g
  <2> QED BY <1>1, <1>4, <1>5, Iteration
<1>7. f \in [0..n -> Elf] /\ f[0] = s0 /\ \A i \in 1..n : f[i] = step(f[i - 1], i)
  <2>1. f \in [0..n -> Elf] /\ f[0] = s0 /\ \A i \in 1..n : f[i] = g[<< f[i - 1], i >>]
    <3> HIDE DEF g
    <3> QED BY <1>6 DEF IsRun
  <2>2. \A i \in 1..n : << f[i - 1], i >> \in Elf \X (1..n)
    BY <1>1, <2>1
  <2> QED BY <2>1, <2>2
<1> HIDE DEF g
<1>8. Eq(f)
  <2> DEFINE body(i) == IF i = 0 THEN s0 ELSE step(f[i - 1], i)
  <2>1. \A i \in 0..n : f[i] = body(i)
    BY <1>1, <1>7
  <2> HIDE DEF body
  <2>2. f = [i \in 0..n |-> body(i)]
    BY <1>7, <2>1
  <2> QED BY <2>2 DEF body
<1>9. Eq(elf)
  <2> HIDE DEF Eq
  <2> QED BY <1>8
<1> HIDE DEF elf
<1>10. elf[0] = s0 /\ \A i \in 1..n : elf[i] = step(elf[i - 1], i)
  BY <1>1, <1>9
<1>11. \A i \in 0..n : elf[i] \in Elf
  <2> DEFINE T == {i \in Nat : i <= n => elf[i] \in Elf}
  <2> HIDE DEF Eq
  <2>1. 0 \in T
    BY <1>4, <1>10
  <2>2. ASSUME NEW i \in T PROVE i + 1 \in T
    <3> SUFFICES ASSUME i + 1 <= n PROVE elf[i + 1] \in Elf
      OBVIOUS
    <3>1. elf[i] \in Elf /\ i + 1 \in 1..n /\ i + 1 - 1 = i
      BY <1>1
    <3>2. elf[i + 1] = step(elf[i], i + 1)
      BY <1>10, <3>1
    <3> QED BY <1>3, <3>1, <3>2
  <2>3. T = Nat
    <3>1. T \subseteq Nat
      OBVIOUS
    <3> HIDE DEF T
    <3> QED BY <2>1, <2>2, <3>1, SetInduction
  <2> QED BY <1>1, <2>3
<1> HIDE DEF Eq
<1> QED BY <1>2, <1>10, <1>11 DEF step, s0, n

(* What a prefix of a program's segments has done to memory: its pages are *)
(* allocated, with tables to reach them, and where all the addresses are   *)
(* in reach each leads to its segment and no other address elsewhere.      *)
Loaded(m, map, t, e) ==
    /\ e.mem.mapped = m.mapped /\ ~m.full
    /\ \E lv : Shape(e.mem, lv)
    /\ Grown(m, e.mem, {"segment", "table"}, t)
    /\ Base <= e.vaddr
    /\ \A s \in e.linked : Base <= s.vaddr /\ s.vaddr < e.vaddr
    /\ (\A u \in Nat : u < e.vaddr => InReach(u)) =>
          /\ \A s \in e.linked : Translation(e.mem, map, s.vaddr) = s.page
          /\ \A r \in Page, u \in Nat :
                IsRoot(m, r) /\ InReach(u) /\ (r = map => \A s \in e.linked : s.vaddr # u)
                   => Translation(e.mem, r, u) = Translation(m, r, u)

(* One segment more. *)
LEMMA LoadedStep ==
  ASSUME NEW m \in Mem, NEW map, IsRoot(m, map), NEW t \in Task, t = m.use[map].of,
         NEW e \in Elf, Loaded(m, map, t, e), NEW size \in Nat \ {0},
         NEW e2, e2 = LoadSegment(e, map, size, t), ~e2.mem.full
  PROVE  Loaded(m, map, t, e2)
<1> USE Params
<1>1. t \in Owner /\ t # NULL /\ map \in Page
  BY AddrSpaceAssumption DEF Owner, Task, S!Task, AddrSpaceAssumption, S!SchedAssumption, IsRoot
<1> DEFINE b == e.mem
           v == e.vaddr
           m1 == pmm_alloc(b, size, "segment", t)
           seg == Next_(b, size)
           m2 == e2.mem
           new == [vaddr |-> v, page |-> seg]
<1>2. /\ e2 \in Elf /\ ~b.full /\ ~m1.full
      /\ m2 = vmm_map(m1, map, seg, v, t)
      /\ e2.vaddr = v + size /\ e2.linked = e.linked \cup {new}
  <2>1. e \in Elf /\ size \in Nat \ {0} /\ e2 = LoadSegment(e, map, size, t) /\ ~e2.mem.full
    OBVIOUS
  <2> QED BY ONLY <1>1, <2>1, LoadSegmentType
<1>3. b \in Mem /\ v \in Nat /\ m2 \in Mem /\ e.linked \in SUBSET [vaddr : Nat, page : Page]
  BY <1>2 DEF Elf
<1>4. /\ b.mapped = m.mapped /\ ~m.full
      /\ Grown(m, b, {"segment", "table"}, t)
      /\ \A s \in e.linked : Base <= s.vaddr /\ s.vaddr < v
      /\ (\A u \in Nat : u < v => InReach(u)) =>
            /\ \A s \in e.linked : Translation(b, map, s.vaddr) = s.page
            /\ \A r \in Page, u \in Nat :
                  IsRoot(m, r) /\ InReach(u) /\ (r = map => \A s \in e.linked : s.vaddr # u)
                     => Translation(b, r, u) = Translation(m, r, u)
  BY DEF Loaded
<1>5. PICK lv : Shape(b, lv)
  BY DEF Loaded
<1>6. Base <= v
  BY DEF Loaded
<1>7. m1 = pmm_alloc(b, size, "segment", t) /\ seg = Next_(b, size)
  OBVIOUS
<1>8. "segment" \in Kind
  BY DEF Kind
<1>9. new.vaddr = v /\ new.page = seg
  OBVIOUS
<1> HIDE DEF b, v, m1, seg, m2, new
<1>10. /\ m1 \in Mem /\ m1.mapped = b.mapped
       /\ \A p : Held(m1, p) = Held(b, p)
       /\ b.full => m1.full
       /\ ~m1.full =>
             /\ seg \in Page /\ seg + size <= Pages
             /\ \A p \in seg..(seg + size - 1) : p \in Page /\ b.use[p] = Free
             /\ m1.pmm_bitmap_index = seg + size
             /\ \A p \in Page : m1.use[p] = IF p \in seg..(seg + size - 1)
                              THEN [as |-> "segment", of |-> t, at |-> seg, usable |-> FALSE]
                              ELSE b.use[p]
  BY <1>1, <1>3, <1>7, <1>8, AllocFacts
<1>11. Grown(b, m1, {"segment"}, t)
  BY <1>2, <1>10 DEF Grown
<1>12. seg \in Page /\ m1.use[seg].as = "segment" /\ m1.use[seg].of = t
  <2>1. seg \in seg..(seg + size - 1)
    BY <1>2, <1>10 DEF Page
  <2> QED BY <1>2, <1>10, <2>1
<1>13. Shape(m1, lv)
  <2>1. \A p \in Page : IsTable(m1, p) => b.use[p] = m1.use[p]
    BY <1>11 DEF Grown, IsTable
  <2>2. \A p \in Page : b.use[p].as \in {"table", "segment", "heap"} => m1.use[p] = b.use[p]
    BY <1>11 DEF Grown, Free
  <2> QED BY <1>3, <1>5, <1>10, <2>1, <2>2, ShapeKept
<1>14. IsRoot(b, map) /\ b.use[map].of = t /\ \A r \in Page : IsRoot(m, r) => IsRoot(b, r)
  BY <1>4, GrownRoots
<1>15. IsRoot(m1, map) /\ m1.use[map].of = t /\ \A r \in Page : IsRoot(b, r) => IsRoot(m1, r)
  BY <1>11, <1>14, GrownRoots
<1>16. ~m2.full
  BY DEF m2
<1>17. /\ m2.mapped = m1.mapped /\ \E lv2 : Shape(m2, lv2)
       /\ Grown(m1, m2, {"table"}, t)
       /\ \A r \in Page, u \in Nat : IsRoot(m1, r) /\ InReach(u) /\ InReach(v) =>
             Translation(m2, r, u) = IF r = map /\ u = v THEN seg ELSE Translation(m1, r, u)
  BY <1>2, <1>3, <1>10, <1>12, <1>13, <1>15, <1>16, VmmMap
<1>18. Grown(m, m2, {"segment", "table"}, t)
  <2>1. Grown(m, m1, {"segment", "table"} \cup {"segment"}, t)
    BY <1>4, <1>11, GrownTwice
  <2>2. Grown(m, m2, ({"segment", "table"} \cup {"segment"}) \cup {"table"}, t)
    BY <1>17, <2>1, GrownTwice
  <2> QED BY <2>2 DEF Grown
<1>19. m2.mapped = m.mapped
  BY <1>4, <1>10, <1>17
<1>20. Base <= e2.vaddr /\ \A s \in e2.linked : Base <= s.vaddr /\ s.vaddr < e2.vaddr
  BY <1>2, <1>3, <1>4, <1>6, <1>9
<1>21. ASSUME \A u \in Nat : u < e2.vaddr => InReach(u)
       PROVE  /\ \A s \in e2.linked : Translation(m2, map, s.vaddr) = s.page
              /\ \A r \in Page, u \in Nat :
                    IsRoot(m, r) /\ InReach(u) /\ (r = map => \A s \in e2.linked : s.vaddr # u)
                       => Translation(m2, r, u) = Translation(m, r, u)
  <2>1. (\A u \in Nat : u < v => InReach(u)) /\ InReach(v)
    BY <1>2, <1>3, <1>21
  <2>2. /\ \A s \in e.linked : Translation(b, map, s.vaddr) = s.page
        /\ \A r \in Page, u \in Nat :
              IsRoot(m, r) /\ InReach(u) /\ (r = map => \A s \in e.linked : s.vaddr # u)
                 => Translation(b, r, u) = Translation(m, r, u)
    BY <1>4, <2>1
  <2>3. \A r \in Page, u \in Nat : IsRoot(b, r) => Translation(m1, r, u) = Translation(b, r, u)
    <3> SUFFICES ASSUME NEW r \in Page, NEW u \in Nat, IsRoot(b, r)
                 PROVE  Translation(m1, r, u) = Translation(b, r, u)
      OBVIOUS
    <3>1. Path(m1, r, u)[LEVELS] = Path(b, r, u)[LEVELS]
      BY <1>3, <1>5, <1>10, SamePaths
    <3> QED BY <1>3, <1>10, <3>1, PathFacts DEF Slot
  <2>4. ASSUME NEW s \in e2.linked PROVE Translation(m2, map, s.vaddr) = s.page
    <3>1. CASE s \in e.linked
      <4>1. s.vaddr \in Nat /\ InReach(s.vaddr) /\ s.vaddr # v
        BY <1>3, <1>4, <2>1, <3>1
      <4> QED BY <1>1, <1>14, <1>15, <1>17, <2>1, <2>2, <2>3, <3>1, <4>1
    <3>2. CASE s = new
      BY <1>1, <1>3, <1>9, <1>15, <1>17, <2>1, <3>2
    <3> QED BY <1>2, <3>1, <3>2
  <2>5. ASSUME NEW r \in Page, NEW u \in Nat, IsRoot(m, r), InReach(u),
               r = map => \A s \in e2.linked : s.vaddr # u
        PROVE  Translation(m2, r, u) = Translation(m, r, u)
    <3>1. r = map => u # v /\ \A s \in e.linked : s.vaddr # u
      BY <1>2, <1>9, <2>5
    <3> QED BY <1>14, <1>15, <1>17, <2>1, <2>2, <2>3, <2>5, <3>1
  <2> QED BY <2>4, <2>5
<1> QED BY <1>17, <1>18, <1>19, <1>20, <1>21, <1>4 DEF Loaded, m2

(* elf_exec, when it returns: the program is where it was linked to.       *)
LEMMA ElfExec ==
  ASSUME NEW m \in Mem, NEW lv, Shape(m, lv), NEW map, IsRoot(m, map), NEW t \in Task,
         t = m.use[map].of, NEW segments \in Seq(Nat \ {0}),
         NEW e, e = elf_exec(m, map, segments, t), ~e.mem.full
  PROVE  e \in Elf /\ Loaded(m, map, t, e) /\ e.vaddr = End(segments)
<1> USE Params
<1> DEFINE n == Len(segments)
<1>1. n \in Nat /\ \A i \in 1..n : segments[i] \in Nat \ {0}
  OBVIOUS
<1>2. map \in Page /\ t \in Owner
  BY DEF IsRoot, Owner
<1>3. PICK f : /\ \A i \in 0..n : f[i] \in Elf
               /\ f[0] = [mem |-> m, vaddr |-> Base, linked |-> {}]
               /\ \A i \in 1..n : f[i] = LoadSegment(f[i - 1], map, segments[i], t)
               /\ e = f[n]
  BY <1>2, ElfRun
<1>4. PICK end : /\ end[0] = Base /\ end[n] = End(segments)
                 /\ \A i \in 0..n : end[i] \in Nat
                 /\ \A i \in 1..n : end[i] = end[i - 1] + segments[i]
  BY EndRun
<1> HIDE DEF n
<1> DEFINE T == {i \in Nat : i <= n => (~f[i].mem.full => Loaded(m, map, t, f[i]) /\ f[i].vaddr = end[i])}
<1>5. 0 \in T
  <2> SUFFICES ASSUME ~m.full
               PROVE  Loaded(m, map, t, [mem |-> m, vaddr |-> Base, linked |-> {}])
    BY <1>3, <1>4
  <2> QED BY DEF Loaded, Grown
<1>6. ASSUME NEW i \in T PROVE i + 1 \in T
  <2> SUFFICES ASSUME i + 1 <= n, ~f[i + 1].mem.full
               PROVE  Loaded(m, map, t, f[i + 1]) /\ f[i + 1].vaddr = end[i + 1]
    OBVIOUS
  <2>1. i + 1 \in 1..n /\ i + 1 - 1 = i /\ i \in 0..n
    BY <1>1
  <2>2. f[i + 1] = LoadSegment(f[i], map, segments[i + 1], t) /\ f[i] \in Elf
        /\ end[i + 1] = end[i] + segments[i + 1] /\ segments[i + 1] \in Nat \ {0}
    BY <1>1, <1>3, <1>4, <2>1
  <2>3. ~f[i].mem.full /\ f[i + 1].vaddr = f[i].vaddr + segments[i + 1]
    BY <1>2, <2>2, LoadSegmentType
  <2>4. Loaded(m, map, t, f[i]) /\ f[i].vaddr = end[i]
    BY <2>1, <2>3
  <2> HIDE DEF T
  <2>5. Loaded(m, map, t, f[i + 1])
    BY <2>2, <2>4, LoadedStep
  <2> QED BY <2>2, <2>3, <2>4, <2>5
<1>7. T = Nat
  <2>1. T \subseteq Nat
    OBVIOUS
  <2> HIDE DEF T
  <2> QED BY <1>5, <1>6, <2>1, SetInduction
<1>8. n \in T /\ n \in 0..n
  BY <1>1, <1>7
<1> QED BY <1>3, <1>4, <1>8

-----------------------------------------------------------------------------
(* The other operations on memory.                                         *)

(* An allocation that is neither a map nor a table changes no walk. *)
LEMMA PlainAlloc ==
  ASSUME NEW m \in Mem, NEW lv, Shape(m, lv), NEW n \in Nat \ {0},
         NEW kind \in Kind \ {"free", "map", "table"}, NEW t \in Owner,
         NEW m2, m2 = pmm_alloc(m, n, kind, t), ~m2.full
  PROVE  /\ m2 \in Mem /\ m2.mapped = m.mapped /\ ~m.full
         /\ Shape(m2, lv)
         /\ \A p \in Page : \/ m2.use[p] = m.use[p]
                            \/ m.use[p] = Free /\ m2.use[p].as = kind /\ m2.use[p].of = t
         /\ \A r \in Page, u \in Nat : IsRoot(m, r) => Translation(m2, r, u) = Translation(m, r, u)
<1> USE Params
<1> DEFINE a == Next_(m, n)
<1>1. a = Next_(m, n)
  OBVIOUS
<1> HIDE DEF a
<1>2. /\ m2 \in Mem /\ m2.mapped = m.mapped
      /\ \A p : Held(m2, p) = Held(m, p)
      /\ m.full => m2.full
      /\ ~m2.full =>
            /\ a \in Page /\ a + n <= Pages
            /\ \A p \in a..(a + n - 1) : p \in Page /\ m.use[p] = Free
            /\ m2.pmm_bitmap_index = a + n
            /\ \A p \in Page : m2.use[p] = IF p \in a..(a + n - 1)
                             THEN [as |-> kind, of |-> t, at |-> a, usable |-> FALSE]
                             ELSE m.use[p]
  BY <1>1, AllocFacts
<1>3. \A p \in Page : \/ m2.use[p] = m.use[p]
                      \/ m.use[p] = Free /\ m2.use[p].as = kind /\ m2.use[p].of = t
  BY <1>2
<1>4. Shape(m2, lv)
  <2>1. \A p \in Page : IsTable(m2, p) => m.use[p] = m2.use[p]
    BY <1>3 DEF IsTable
  <2>2. \A p \in Page : m.use[p].as \in {"table", "segment", "heap"} => m2.use[p] = m.use[p]
    BY <1>3 DEF Free
  <2> QED BY <1>2, <2>1, <2>2, ShapeKept
<1>5. ASSUME NEW r \in Page, NEW u \in Nat, IsRoot(m, r)
      PROVE  Translation(m2, r, u) = Translation(m, r, u)
  <2>1. Path(m2, r, u)[LEVELS] = Path(m, r, u)[LEVELS]
    BY <1>2, <1>5, SamePaths
  <2> QED BY <1>2, <2>1, PathFacts DEF Slot
<1> QED BY <1>2, <1>3, <1>4, <1>5

(* SetUsable marks pages and changes nothing else. *)
LEMMA SetUsableFacts ==
  ASSUME NEW m \in Mem, NEW b, NEW m2, m2 = SetUsable(m, b)
  PROVE  /\ m2 \in Mem /\ m2.mapped = m.mapped /\ m2.full = m.full
         /\ \A p : Held(m2, p) = Held(m, p)
         /\ \A p \in Page : m2.use[p].as = m.use[p].as /\ m2.use[p].of = m.use[p].of
<1> DEFINE U == [p \in Page |-> IF m.use[p] # Free /\ m.use[p].at = b
                                THEN [m.use[p] EXCEPT !.usable = TRUE] ELSE m.use[p]]
<1>1. m.use \in [Page -> Use]
  BY DEF Mem
<1>2. \A p \in Page : U[p] \in Use /\ U[p].as = m.use[p].as /\ U[p].of = m.use[p].of
  <2> SUFFICES ASSUME NEW p \in Page
               PROVE  U[p] \in Use /\ U[p].as = m.use[p].as /\ U[p].of = m.use[p].of
    OBVIOUS
  <2> DEFINE x == m.use[p]
  <2>1. x \in Use
    BY <1>1
  <2>2. [x EXCEPT !.usable = TRUE] \in Use /\ [x EXCEPT !.usable = TRUE].as = x.as
        /\ [x EXCEPT !.usable = TRUE].of = x.of
    BY <2>1 DEF Use
  <2>3. U[p] = x \/ U[p] = [x EXCEPT !.usable = TRUE]
    OBVIOUS
  <2> HIDE DEF U, x
  <2>4. U[p] \in Use /\ U[p].as = x.as /\ U[p].of = x.of
    BY <2>1, <2>2, <2>3
  <2> QED BY <2>4 DEF x
<1>3. U \in [Page -> Use]
  BY <1>2
<1>4. m2 = [m EXCEPT !.use = U]
  BY DEF SetUsable
<1> HIDE DEF U
<1>5. m2 \in Mem /\ m2.use = U /\ m2.table = m.table /\ m2.mapped = m.mapped /\ m2.full = m.full
  BY <1>3, <1>4 DEF Mem
<1> QED BY <1>2, <1>5 DEF Held

(* Removing a task gives the top table of its map back and leaves every    *)
(* other map as it was.                                                    *)
LEMMA DeleteFacts ==
  ASSUME NEW m \in Mem, NEW lv, Shape(m, lv), NEW map, IsRoot(m, map), NEW b,
         NEW m2, m2 = SetUsable(page_map_delete(m, map), b)
  PROVE  /\ m2 \in Mem /\ m2.mapped = m.mapped /\ m2.full = m.full
         /\ Shape(m2, lv)
         /\ m2.use[map].as = "free" /\ m2.use[map].of = NULL
         /\ \A p \in Page \ {map} : m2.use[p].as = m.use[p].as /\ m2.use[p].of = m.use[p].of
         /\ \A r \in Page, u \in Nat : IsRoot(m, r) /\ r # map =>
               Translation(m2, r, u) = Translation(m, r, u)
<1> USE Params
<1> DEFINE w == Write(m, map, Zero)
           c == page_map_delete(m, map)
<1>1. map \in Page /\ Zero \in [Entry -> Slot] /\ Free \in Use
  BY DEF IsRoot, Zero, Slot, Free, Use, Kind, Owner, Page
<1>2. /\ w \in Mem /\ w.use = m.use /\ w.mapped = m.mapped /\ w.full = m.full
      /\ \A q : Held(w, q) = IF q = map THEN Zero ELSE Held(m, q)
  BY <1>1, WriteFacts
<1>3. c = [w EXCEPT !.use = [@ EXCEPT ![map] = Free], !.pmm_bitmap_index = map]
  BY DEF page_map_delete
<1> HIDE DEF w, c
<1>4. /\ c \in Mem /\ c.table = w.table /\ c.mapped = w.mapped /\ c.full = w.full
      /\ c.use = [w.use EXCEPT ![map] = Free]
  <2> DEFINE U == [w.use EXCEPT ![map] = Free]
  <2>1. U \in [Page -> Use] /\ map \in 0..Pages
    BY <1>1, <1>2 DEF Mem, Page
  <2>2. c = [w EXCEPT !.use = U, !.pmm_bitmap_index = map]
    BY <1>3
  <2>3. U = [w.use EXCEPT ![map] = Free]
    OBVIOUS
  <2> HIDE DEF U
  <2> QED BY <1>2, <2>1, <2>2, <2>3 DEF Mem
<1>5. /\ \A q : q # map => Held(c, q) = Held(m, q)
      /\ c.use[map] = Free /\ \A p \in Page \ {map} : c.use[p] = m.use[p]
  <2>1. \A q : Held(c, q) = Held(w, q)
    BY <1>4 DEF Held
  <2>2. w.use \in [Page -> Use]
    BY <1>2 DEF Mem
  <2> QED BY <1>1, <1>2, <1>4, <2>1, <2>2
<1>6. m2 = SetUsable(c, b)
  BY DEF c
<1>7. /\ m2 \in Mem /\ m2.mapped = c.mapped /\ m2.full = c.full
      /\ \A p : Held(m2, p) = Held(c, p)
      /\ \A p \in Page : m2.use[p].as = c.use[p].as /\ m2.use[p].of = c.use[p].of
  <2>1. c \in Mem
    BY <1>4
  <2> QED BY <1>6, <2>1, SetUsableFacts
<1>8. /\ m2.use[map].as = "free" /\ m2.use[map].of = NULL
      /\ \A p \in Page \ {map} : m2.use[p].as = m.use[p].as /\ m2.use[p].of = m.use[p].of
  BY <1>1, <1>5, <1>7 DEF Free
<1>9. Shape(m2, lv)
  <2>1. \A p \in Page : IsTable(m2, p) => p # map
    BY <1>8 DEF IsTable
  <2>2. \A p \in Page : m.use[p].as \in {"table", "segment", "heap"} => p # map
    BY DEF IsRoot
  <2>3. \A p \in Page : IsTable(m2, p) => /\ m.use[p].as = m2.use[p].as
                                          /\ m.use[p].of = m2.use[p].of
                                          /\ Held(m2, p) = Held(m, p)
    BY <1>5, <1>7, <1>8, <2>1
  <2>4. \A p \in Page : m.use[p].as \in {"table", "segment", "heap"}
                            => m2.use[p].as = m.use[p].as /\ m2.use[p].of = m.use[p].of
    BY <1>8, <2>2
  <2> QED BY <1>7, <2>3, <2>4, ShapeKept
<1>10. ASSUME NEW r \in Page, NEW u \in Nat, IsRoot(m, r), r # map
       PROVE  Translation(m2, r, u) = Translation(m, r, u)
  <2>1. \A q \in Page : q = r \/ m.use[q].as = "table" => Held(m2, q) = Held(m, q)
    BY <1>5, <1>7, <1>10 DEF IsRoot
  <2>2. Path(m2, r, u)[LEVELS] = Path(m, r, u)[LEVELS]
    BY <1>7, <1>10, <2>1, SamePaths
  <2> QED BY <1>7, <2>2, PathFacts DEF Slot
<1> QED BY <1>2, <1>4, <1>7, <1>8, <1>9, <1>10

(* What sched_create_new_task does to memory: a map for the task, its      *)
(* program in it, and no other user map is touched.                        *)
LEMMA Created ==
  ASSUME NEW m \in Mem, NEW lv, Shape(m, lv), NEW root, IsRoot(m, root), m.use[root].of = NULL,
         NEW t \in Task, NEW segments \in Seq(Nat \ {0}),
         NEW m1, m1 = vmm_alloc(m, root, BLOCK, "struct", t, NULL), ~m1.full,
         NEW m2, m2 = page_map_new(m1, t), ~m2.full, NEW map, map = Next_(m1, 1),
         NEW e, e = elf_exec(m2, map, segments, t), ~e.mem.full,
         NEW m3, m3 = pmm_alloc(e.mem, 1, "stack", t), ~m3.full
  PROVE  /\ m3 \in Mem /\ m3.mapped = m.mapped /\ ~m.full
         /\ \E lv2 : Shape(m3, lv2)
         /\ map \in Page /\ m.use[map] = Free /\ m3.use[map].as = "map" /\ m3.use[map].of = t
         /\ \A p \in Page \ {map} :
               \/ m3.use[p] = m.use[p]
               \/ /\ m.use[p] = Free
                  /\ m3.use[p].as \in {"struct", "table", "segment", "stack"} /\ m3.use[p].of \in {t, NULL}
         /\ e.linked \in SUBSET [vaddr : Nat, page : Page]
         /\ \A s \in e.linked : s.vaddr < End(segments)
         /\ (\A u \in Nat : u < End(segments) => InReach(u)) =>
               /\ \A s \in e.linked : Translation(m3, map, s.vaddr) = s.page
               /\ \A u \in Nat : InReach(u) /\ (\A s \in e.linked : s.vaddr # u)
                                    => Translation(m3, map, u) = NULL
         /\ \A r \in Page, u \in Nat :
               /\ IsRoot(m, r) /\ r # root /\ InReach(u) /\ (\A v \in Nat : v < End(segments) => InReach(v))
               => Translation(m3, r, u) = Translation(m, r, u)
<1> USE Params
<1>1. t \in Owner /\ NULL \in Owner /\ t # NULL /\ BLOCK \in Nat \ {0} /\ 1 \in Nat \ {0}
      /\ "struct" \in Kind \ {"free", "map", "table"} /\ "stack" \in Kind \ {"free", "map", "table"}
  BY AddrSpaceAssumption DEF Owner, Task, S!Task, AddrSpaceAssumption, S!SchedAssumption, Kind
<1>2. /\ m1 \in Mem /\ m1.mapped = m.mapped /\ ~m.full
      /\ \E lv2 : Shape(m1, lv2)
      /\ \A p \in Page : \/ m1.use[p] = m.use[p]
                         \/ m.use[p] = Free /\ m1.use[p].as \in {"struct", "table"}
                                            /\ m1.use[p].of \in {t, NULL}
      /\ \A r \in Page, u \in Nat : IsRoot(m, r) /\ r # root /\ InReach(u) =>
            Translation(m1, r, u) = Translation(m, r, u)
  <2> DEFINE a == Next_(m, BLOCK)
  <2>1. a = Next_(m, BLOCK) /\ m1 = vmm_alloc(m, root, BLOCK, "struct", t, m.use[root].of)
    OBVIOUS
  <2> HIDE DEF a
  <2>2. /\ m1 \in Mem /\ m1.mapped = m.mapped /\ ~m.full
        /\ \E lv2 : Shape(m1, lv2)
        /\ a \in Page /\ a + BLOCK <= Pages
        /\ \A p \in a..(a + BLOCK - 1) :
              /\ p \in Page /\ m.use[p] = Free
              /\ m1.use[p] = [as |-> "struct", of |-> t, at |-> a, usable |-> FALSE]
        /\ \A p \in Page : \/ p \in a..(a + BLOCK - 1)
                           \/ m1.use[p] = m.use[p]
                           \/ m.use[p] = Free /\ m1.use[p].as = "table" /\ m1.use[p].of = NULL
        /\ \A r \in Page, u \in Nat : IsRoot(m, r) /\ InReach(u) =>
              Translation(m1, r, u) = IF r = root /\ u \in a..(a + BLOCK - 1) THEN u ELSE Translation(m, r, u)
    BY ONLY <1>1, <2>1, VmmAlloc, m \in Mem, Shape(m, lv), IsRoot(m, root), m.use[root].of = NULL, ~m1.full, t \in Task
  <2> QED BY <2>2
<1>3. PICK lv1 : Shape(m1, lv1)
  BY <1>2
<1>4. \A r \in Page : IsRoot(m, r) => IsRoot(m1, r)
  BY <1>2 DEF IsRoot, Free
<1>5. /\ map \in Page /\ m2 \in Mem /\ m2.mapped = m1.mapped
      /\ m1.use[map] = Free /\ m2.use[map].as = "map" /\ m2.use[map].of = t
      /\ \A q \in Page \ {map} : m2.use[q] = m1.use[q]
      /\ \E lv2 : Shape(m2, lv2)
      /\ \A v \in Nat : Translation(m2, map, v) = NULL
      /\ \A r \in Page, v \in Nat : IsRoot(m1, r) => Translation(m2, r, v) = Translation(m1, r, v)
  BY <1>1, <1>2, <1>3, NewRoot
<1>6. PICK lv2 : Shape(m2, lv2)
  BY <1>5
<1>7. IsRoot(m2, map) /\ t = m2.use[map].of /\ \A r \in Page : IsRoot(m1, r) => IsRoot(m2, r) /\ r # map
  BY <1>5 DEF IsRoot, Free
<1>8. e \in Elf /\ Loaded(m2, map, t, e) /\ e.vaddr = End(segments)
  BY <1>5, <1>6, <1>7, ElfExec
<1>9. /\ e.mem \in Mem /\ e.linked \in SUBSET [vaddr : Nat, page : Page]
      /\ e.mem.mapped = m2.mapped
      /\ Grown(m2, e.mem, {"segment", "table"}, t)
      /\ \A s \in e.linked : s.vaddr < End(segments)
      /\ (\A u \in Nat : u < End(segments) => InReach(u)) =>
            /\ \A s \in e.linked : Translation(e.mem, map, s.vaddr) = s.page
            /\ \A r \in Page, u \in Nat :
                  IsRoot(m2, r) /\ InReach(u) /\ (r = map => \A s \in e.linked : s.vaddr # u)
                     => Translation(e.mem, r, u) = Translation(m2, r, u)
  BY <1>8 DEF Loaded, Elf
<1>10. PICK lv3 : Shape(e.mem, lv3)
  BY <1>8 DEF Loaded
<1> DEFINE b == e.mem
<1>11. IsRoot(b, map) /\ \A r \in Page : IsRoot(m2, r) => IsRoot(b, r)
  BY ONLY <1>7, <1>9, GrownRoots DEF b
<1>12. m3 = pmm_alloc(b, 1, "stack", t) /\ b \in Mem /\ Shape(b, lv3)
  BY <1>9, <1>10
<1> HIDE DEF b
<1>13. /\ m3 \in Mem /\ m3.mapped = b.mapped
       /\ Shape(m3, lv3) /\ Grown(b, m3, {"stack"}, t)
       /\ \A r \in Page, u \in Nat : IsRoot(b, r) => Translation(m3, r, u) = Translation(b, r, u)
  <2> DEFINE k == "stack"
             one == 1
  <2>1. k \in Kind \ {"free", "map", "table"} /\ m3 = pmm_alloc(b, one, k, t) /\ one \in Nat \ {0}
    BY <1>1, <1>12
  <2> HIDE DEF k, one
  <2>2. /\ m3 \in Mem /\ m3.mapped = b.mapped
        /\ Shape(m3, lv3)
        /\ \A p \in Page : \/ m3.use[p] = b.use[p]
                           \/ b.use[p] = Free /\ m3.use[p].as = k /\ m3.use[p].of = t
        /\ \A r \in Page, u \in Nat : IsRoot(b, r) => Translation(m3, r, u) = Translation(b, r, u)
    BY ONLY <1>1, <1>12, <2>1, PlainAlloc, ~m3.full
  <2> QED BY <2>2 DEF k, Grown
<1>14. Grown(m2, m3, {"segment", "table", "stack"}, t)
  <2>1. Grown(m2, m3, {"segment", "table"} \cup {"stack"}, t)
    BY <1>9, <1>13, GrownTwice DEF b
  <2> QED BY <2>1 DEF Grown
<1>15. m.use[map] = Free /\ m3.use[map].as = "map" /\ m3.use[map].of = t
  <2>1. m3.use[map] = m2.use[map]
    BY <1>5, <1>14 DEF Grown, Free
  <2>2. m.use[map] = Free
    BY <1>2, <1>5 DEF Free
  <2> QED BY <1>5, <2>1, <2>2
<1>16. ASSUME NEW p \in Page \ {map}
       PROVE  \/ m3.use[p] = m.use[p]
              \/ /\ m.use[p] = Free
                 /\ m3.use[p].as \in {"struct", "table", "segment", "stack"} /\ m3.use[p].of \in {t, NULL}
  <2>1. m2.use[p] = m1.use[p]
    BY <1>5
  <2>2. CASE m3.use[p] = m2.use[p]
    BY <1>2, <2>1, <2>2
  <2>3. CASE m2.use[p] = Free /\ m3.use[p].as \in {"segment", "table", "stack"} /\ m3.use[p].of = t
    <3>1. m.use[p] = Free
      BY <1>2, <2>1, <2>3 DEF Free
    <3> QED BY <2>3, <3>1
  <2> QED BY <1>14, <2>2, <2>3 DEF Grown
<1>17. ASSUME \A u \in Nat : u < End(segments) => InReach(u)
       PROVE  /\ \A s \in e.linked : Translation(m3, map, s.vaddr) = s.page
              /\ \A u \in Nat : InReach(u) /\ (\A s \in e.linked : s.vaddr # u)
                                   => Translation(m3, map, u) = NULL
  <2>1. /\ \A s \in e.linked : Translation(b, map, s.vaddr) = s.page /\ s.vaddr \in Nat
        /\ \A u \in Nat : InReach(u) /\ (\A s \in e.linked : s.vaddr # u)
                             => Translation(b, map, u) = Translation(m2, map, u)
    BY <1>5, <1>7, <1>9, <1>17 DEF b
  <2> QED BY <1>5, <1>11, <1>13, <2>1
<1>18. ASSUME NEW r \in Page, NEW u \in Nat, IsRoot(m, r), r # root, InReach(u),
              \A v \in Nat : v < End(segments) => InReach(v)
       PROVE  Translation(m3, r, u) = Translation(m, r, u)
  <2>1. IsRoot(m1, r) /\ IsRoot(m2, r) /\ IsRoot(b, r) /\ r # map
    BY <1>4, <1>7, <1>11, <1>18
  <2>2. Translation(b, r, u) = Translation(m2, r, u)
    BY <1>9, <1>18, <2>1 DEF b
  <2> QED BY <1>2, <1>5, <1>13, <1>18, <2>1, <2>2
<1>19. m3.mapped = m.mapped
  BY <1>2, <1>5, <1>9, <1>13 DEF b
<1> QED BY <1>2, <1>5, <1>9, <1>13, <1>15, <1>16, <1>17, <1>18, <1>19

-----------------------------------------------------------------------------
(* The tables of vmm_init.                                                 *)

(* Pages that pmm never gets back: all but the maps of tasks. *)
Kept(m, p) == m.use[p].as # "free" /\ (m.use[p].as = "map" => m.use[p].of = NULL)

(* While vmm_init's loop runs, the pages taken are the kernel's and lie    *)
(* together at the start of memory, one of them for the top table and at   *)
(* least one for the last tables of every ENTRIES addresses mapped.        *)
Counted(m, root) ==
    /\ Dense(m)
    /\ \A p \in Page : m.use[p] = Free \/ Kept(m, p)
    /\ m.pmm_bitmap_index >= 1
    /\ \A p \in Nat : p < m.mapped => Shift(p, 1) + 2 <= m.pmm_bitmap_index
    /\ \A u \in Nat : InReach(u) /\ Path(m, root, u)[LEVELS - 1] # NULL
                         => \E p \in Nat : p < m.mapped /\ Shift(p, 1) = Shift(u, 1)

(* The loop of vmm_init keeps count. *)
LEMMA CountedStep ==
  ASSUME LEVELS >= 2, NEW m \in Mem, NEW lv, Shape(m, lv), NEW root, IsRoot(m, root), m.use[root].of = NULL,
         Counted(m, root), m.mapped < Pages,
         NEW m1, m1 = vmm_map(m, root, m.mapped, m.mapped, NULL), ~m1.full,
         NEW m2, m2 = [m1 EXCEPT !.mapped = @ + 1]
  PROVE  /\ m2 \in Mem /\ m2.mapped = m.mapped + 1 /\ ~m2.full /\ ~m.full
         /\ Counted(m2, root)
<1> USE Params
<1> DEFINE v == m.mapped
<1>1. v \in Page /\ v \in Nat /\ InReach(v)
  <2>1. v \in Page /\ v \in Nat
    BY DEF Mem, Page
  <2> QED BY <2>1, PagesInRange DEF InReach
<1>2. m1 = vmm_map(m, root, v, v, m.use[root].of)
  OBVIOUS
<1> HIDE DEF v
<1>3. /\ m1 \in Mem /\ m1.mapped = m.mapped /\ ~m.full
      /\ \E lv2 : Shape(m1, lv2)
      /\ Grown(m, m1, {"table"}, NULL)
      /\ Dense(m) => Dense(m1)
      /\ m1.pmm_bitmap_index >= m.pmm_bitmap_index
      /\ \A u \in Nat : \/ Path(m1, root, u)[LEVELS - 1] = NULL
                        \/ Path(m, root, u)[LEVELS - 1] # NULL
                        \/ \A k \in 1..(LEVELS - 1) : Index(u, LEVELS - k) = Index(v, LEVELS - k)
      /\ Path(m, root, v)[LEVELS - 1] = NULL => m1.pmm_bitmap_index >= m.pmm_bitmap_index + 1
  BY <1>1, <1>2, VmmMap
<1>4. /\ m2 \in Mem /\ m2.use = m1.use /\ m2.table = m1.table /\ m2.mapped = v + 1
      /\ m2.full = m1.full /\ m2.pmm_bitmap_index = m1.pmm_bitmap_index
  <2>1. v + 1 \in 0..Pages /\ m1.mapped = v
    BY <1>1, <1>3 DEF Page, v
  <2>2. m2 = [m1 EXCEPT !.mapped = v + 1]
    BY <2>1
  <2> DEFINE x == v + 1
  <2>3. x = v + 1 /\ x \in 0..Pages /\ m2 = [m1 EXCEPT !.mapped = x]
    BY <2>1, <2>2
  <2> HIDE DEF x
  <2> QED BY <1>3, <2>3 DEF Mem
<1>5. \A u \in Nat : Path(m2, root, u)[LEVELS - 1] = Path(m1, root, u)[LEVELS - 1]
  <2> SUFFICES ASSUME NEW u \in Nat PROVE Path(m2, root, u)[LEVELS - 1] = Path(m1, root, u)[LEVELS - 1]
    OBVIOUS
  <2>1. \A q : Held(m2, q) = Held(m1, q)
    BY <1>4 DEF Held
  <2>2. IsRoot(m1, root)
    BY <1>3, GrownRoots
  <2>3. LEVELS - 1 \in 0..LEVELS
    OBVIOUS
  <2> QED BY <1>3, <1>4, <2>1, <2>2, <2>3, SamePaths
<1>6. Dense(m2) /\ \A p \in Page : m2.use[p] = Free \/ Kept(m2, p)
  <2>1. Dense(m2)
    BY <1>3, <1>4 DEF Dense, Counted
  <2>2. \A p \in Page : m2.use[p] = Free \/ Kept(m2, p)
    BY <1>3, <1>4 DEF Counted, Kept, Grown
  <2> QED BY <2>1, <2>2
<1>7. m.pmm_bitmap_index \in Int /\ m1.pmm_bitmap_index \in Int
  BY <1>3 DEF Mem
<1>8. m2.pmm_bitmap_index >= 1
  BY <1>3, <1>4, <1>7 DEF Counted
<1>9. ASSUME NEW u \in Nat, InReach(u), \A k \in 1..(LEVELS - 1) : Index(u, LEVELS - k) = Index(v, LEVELS - k)
      PROVE  Shift(u, 1) = Shift(v, 1)
  <2>1. \A k \in 1..(LEVELS - 1) : Index(u, k) = Index(v, k)
    <3> SUFFICES ASSUME NEW k \in 1..(LEVELS - 1) PROVE Index(u, k) = Index(v, k)
      OBVIOUS
    <3>1. LEVELS - k \in 1..(LEVELS - 1) /\ LEVELS - (LEVELS - k) = k
      OBVIOUS
    <3> QED BY <1>9, <3>1
  <2>2. 1 \in 0..LEVELS
    OBVIOUS
  <2> QED BY <1>1, <1>9, <2>1, <2>2, DigitsFrom DEF InReach
<1>10. \A u \in Nat : InReach(u) /\ Path(m2, root, u)[LEVELS - 1] # NULL
                         => \E p \in Nat : p < m2.mapped /\ Shift(p, 1) = Shift(u, 1)
  <2> SUFFICES ASSUME NEW u \in Nat, InReach(u), Path(m1, root, u)[LEVELS - 1] # NULL
               PROVE  \E p \in Nat : p < v + 1 /\ Shift(p, 1) = Shift(u, 1)
    BY <1>4, <1>5
  <2>1. CASE Path(m, root, u)[LEVELS - 1] # NULL
    <3>1. PICK p \in Nat : p < v /\ Shift(p, 1) = Shift(u, 1)
      BY <2>1 DEF Counted, v
    <3> QED BY <1>1, <3>1
  <2>2. CASE Path(m, root, u)[LEVELS - 1] = NULL
    <3>1. Shift(u, 1) = Shift(v, 1)
      BY <1>3, <1>9, <2>2
    <3> QED BY <1>1, <3>1
  <2> QED BY <2>1, <2>2
<1>11. Shift(v, 1) + 2 <= m1.pmm_bitmap_index
  <2>1. 1 \in 0..LEVELS /\ 1 \in 1..LEVELS /\ 1 - 1 = 0
    OBVIOUS
  <2>2. \A x \in Nat : Shift(x, 1) = x \div ENTRIES /\ Shift(x, 1) \in Nat
    BY <2>1, ShiftFacts
  <2>3. CASE \E p \in Nat : p < v /\ Shift(p, 1) = Shift(v, 1)
    <3>1. Shift(v, 1) + 2 <= m.pmm_bitmap_index
      BY <2>3 DEF Counted, v
    <3> QED BY <1>1, <1>3, <1>7, <2>2, <3>1
  <2>4. CASE ~\E p \in Nat : p < v /\ Shift(p, 1) = Shift(v, 1)
    <3>1. Path(m, root, v)[LEVELS - 1] = NULL
      BY <1>1, <2>4 DEF Counted, v
    <3>2. m1.pmm_bitmap_index >= m.pmm_bitmap_index + 1
      BY <1>3, <3>1
    <3>3. CASE v = 0
      <4>1. Shift(0, 1) = 0
        BY <2>2
      <4> QED BY <1>7, <3>2, <3>3, <4>1 DEF Counted
    <3>4. CASE v # 0
      <4>1. v - 1 \in Nat /\ v - 1 < v
        BY <1>1, <3>4
      <4>2. Shift(v - 1, 1) + 2 <= m.pmm_bitmap_index /\ Shift(v - 1, 1) \in Nat
        BY <2>2, <4>1 DEF Counted, v
      <4>3. Shift(v, 1) <= Shift(v - 1, 1) + 1
        <5>1. v \div ENTRIES <= ((v - 1) \div ENTRIES) + 1
          BY <1>1, <4>1
        <5> QED BY <1>1, <2>2, <4>1, <5>1
      <4> QED BY <1>1, <1>7, <2>2, <3>2, <4>2, <4>3
    <3> QED BY <3>3, <3>4
  <2> QED BY <2>3, <2>4
<1>12. \A p \in Nat : p < m2.mapped => Shift(p, 1) + 2 <= m2.pmm_bitmap_index
  <2> SUFFICES ASSUME NEW p \in Nat, p < v + 1 PROVE Shift(p, 1) + 2 <= m1.pmm_bitmap_index
    BY <1>4
  <2>1. CASE p = v
    BY <1>11, <2>1
  <2>2. CASE p # v
    <3>1. p < v
      BY <1>1, <2>2
    <3>2. Shift(p, 1) + 2 <= m.pmm_bitmap_index
      BY <3>1 DEF Counted, v
    <3>3. Shift(p, 1) \in Nat
      <4>1. 1 \in 0..LEVELS
        OBVIOUS
      <4> QED BY <4>1, ShiftFacts
    <3> QED BY <1>3, <1>7, <3>2, <3>3
  <2> QED BY <2>1, <2>2
<1> QED BY <1>3, <1>4, <1>6, <1>8, <1>10, <1>12 DEF Counted, v

-----------------------------------------------------------------------------
(* The scheduler below the memory.  CPU 1 overwrites the scheduler's       *)
(* vmm_current_page_map, so that SchedInv holds of what CPU 0 has loaded.  *)
SP == INSTANCE SchedProofs WITH vmm_current_page_map <- sched_current_task

Live == {t \in Task : S!Listed(t)}
SInv == /\ SP!SchedInv
        /\ cr3 = sched_current_task
        /\ vmm_current_page_map \in {sched_current_task, NULL}

(* What a step means for the tasks in the table. *)
NewTask == created + 1 \in Task /\ created + 1 \notin Live /\ Live' = Live \cup {created + 1}
           /\ created' = created + 1 /\ halted' = halted
OneLess == /\ Live' = Live /\ UNCHANGED mem
           \/ \E t \in Live : /\ Live' = Live \ {t}
                              /\ mem' = SetUsable(page_map_delete(mem, page_map[t]), StructOf(t))
SameTasks == Live' = Live /\ created' = created

(* The names of the tasks, as the scheduler's proofs have them. *)
LEMMA Names ==
  /\ Task = 1..MaxCreated /\ SP!Task = Task /\ S!Task = Task /\ NULL \notin Task
  /\ S!Idle = 1 /\ SP!Idle = 1
  /\ \A t : SP!Listed(t) <=> S!Listed(t)
  /\ S!SchedAssumption
BY AddrSpaceAssumption
   DEF Task, S!Task, SP!Task, S!Idle, SP!Idle, SP!Listed, S!Listed, AddrSpaceAssumption, S!SchedAssumption

(* The boot state. *)
LEMMA SchedInit == S!Init /\ cr3 = NULL => SInv /\ Live = {}
<1> SUFFICES ASSUME S!Init, cr3 = NULL PROVE SInv /\ Live = {}
  OBVIOUS
<1>1. SP!Init
  BY DEF S!Init, SP!Init, S!Task, SP!Task
<1>2. SP!SchedInv
  BY <1>1, SP!InitInv, AddrSpaceAssumption DEF AddrSpaceAssumption, S!SchedAssumption
<1> QED BY <1>2 DEF SInv, Live, S!Listed, S!Init

(* A step of the scheduler is one of its own with CPU 1 left out. *)
LEMMA SchedNext ==
  ASSUME SInv, S!Next \/ UNCHANGED schedVars
  PROVE  SP!SchedInv'
<1>1. S!Next => SP!Next
  BY DEF S!Next, SP!Next, S!BootCreate, SP!BootCreate, S!pit_init, SP!pit_init,
     S!SysCreate, SP!SysCreate, S!Kill, SP!Kill, S!sched_switch, SP!sched_switch,
     S!IsrHalt, SP!IsrHalt, S!FaultInSyscall, SP!FaultInSyscall, S!LiveTaskRuns,
     SP!LiveTaskRuns, S!sched_create_new_task, SP!sched_create_new_task, S!NewStruct,
     SP!NewStruct, S!sched_kill, SP!sched_kill, S!sched_remove_task,
     SP!sched_remove_task, S!ShiftDown, SP!ShiftDown, S!NextCursor, SP!NextCursor,
     S!SavedRegs, SP!SavedRegs, S!Reap, SP!Reap, S!Advance, SP!Advance, S!Task,
     SP!Task, S!Idle, SP!Idle
<1>2. SP!SchedInv /\ [SP!Next]_SP!schedVars => SP!SchedInv'
  BY SP!NextInv, AddrSpaceAssumption DEF AddrSpaceAssumption, S!SchedAssumption
<1>3. UNCHANGED schedVars => UNCHANGED SP!schedVars
  BY DEF schedVars, SP!schedVars
<1> QED BY <1>1, <1>2, <1>3 DEF SInv

(* What the invariant says of the task that runs. *)
LEMMA RunFacts ==
  ASSUME SInv
  PROVE  /\ sched_current_task \in Live \cup {NULL}
         /\ created \in Nat
         /\ \A t \in Live : t <= created
         /\ S!LiveTaskRuns => cpu \in Live /\ cpu = cr3
         /\ created = 0 => Live = {} /\ cr3 = NULL
<1>1. SP!TypeOK /\ SP!ContextInv /\ SP!FreedInv
  BY DEF SInv, SP!SchedInv
<1>2. sched_current_task \in Live \cup {NULL}
  BY <1>1, Names DEF SP!TypeOK, SP!ContextInv, Live
<1>3. \A t \in Live : t <= created
  BY <1>1, Names DEF SP!FreedInv, Live
<1>4. created \in Nat
  BY <1>1, Names DEF SP!TypeOK, S!SchedAssumption
<1>5. S!LiveTaskRuns => cpu \in Live /\ cpu = cr3
  BY <1>1, <1>2, Names DEF SP!ContextInv, S!LiveTaskRuns, SInv
<1>6. created = 0 => Live = {}
  BY <1>3, Names DEF Live
<1> QED BY <1>2, <1>3, <1>4, <1>5, <1>6 DEF SInv

(* sched_create_new_task adds a task that never was in the table. *)
LEMMA CreateLive ==
  ASSUME SInv, S!BootCreate \/ S!SysCreate
  PROVE  NewTask
<1>1. SP!TypeOK /\ SP!ListInv /\ SP!FreedInv /\ SP!BootInv
  BY DEF SInv, SP!SchedInv
<1>2. /\ created < MaxCreated /\ created' = created + 1 /\ halted' = halted
      /\ sched_list' = [sched_list EXCEPT ![sched_tid] = created + 1]
      /\ sched_tid' = sched_tid + 1
  BY DEF S!BootCreate, S!SysCreate, S!sched_create_new_task
<1>3. /\ sched_tid \in 0..MaxCreated /\ sched_tid <= created /\ created \in 0..MaxCreated
      /\ sched_list \in [0..MaxCreated -> Task \cup {NULL}] /\ MaxCreated \in Nat
  BY <1>1, Names DEF SP!TypeOK, SP!BootInv, S!SchedAssumption
<1>4. created + 1 \in Task /\ created + 1 \notin Live
  BY <1>2, <1>3, RunFacts, Names
<1>5. \A t \in Task : S!Listed(t)' <=> S!Listed(t) \/ t = created + 1
  <2>1. \A i \in 0..(sched_tid - 1) : i \in 0..MaxCreated /\ i # sched_tid
    BY <1>3
  <2>2. sched_tid \in 0..MaxCreated /\ sched_list'[sched_tid] = created + 1
    BY <1>2, <1>3
  <2>3. \A i \in 0..(sched_tid - 1) : sched_list'[i] = sched_list[i]
    BY <1>2, <1>3, <2>1
  <2>4. 0..(sched_tid' - 1) = (0..(sched_tid - 1)) \cup {sched_tid}
    BY <1>2, <1>3
  <2> QED BY <2>2, <2>3, <2>4 DEF S!Listed
<1> QED BY <1>2, <1>4, <1>5 DEF NewTask, Live

(* sched_switch removes at most one task, and no task if memory stays. *)
LEMMA SwitchLive ==
  ASSUME SInv, sched_switch
  PROVE  OneLess /\ created' = created /\ halted' = halted /\ ~halted
<1>1. SP!TypeOK /\ SP!ListInv
  BY DEF SInv, SP!SchedInv
<1>2. S!sched_switch /\ tasking /\ created' = created /\ halted' = halted /\ ~halted
  BY DEF sched_switch, S!sched_switch
<1>3. Removed = Live \ Live'
  BY DEF Removed, Live
<1>4. CASE S!Advance
  <2>1. Live' = Live
    BY <1>4 DEF S!Advance, Live, S!Listed
  <2> QED BY <1>2, <1>3, <2>1 DEF OneLess, sched_switch
<1>5. CASE S!Reap
  <2>1. SP!NextCursor \in 0..(sched_tid - 1)
    BY <1>2, SP!CursorFacts, AddrSpaceAssumption DEF SInv, AddrSpaceAssumption, S!SchedAssumption
  <2>2. SP!sched_remove_task(SP!NextCursor)
    BY <1>5 DEF S!Reap, S!sched_remove_task, SP!sched_remove_task, S!ShiftDown, SP!ShiftDown,
       S!NextCursor, SP!NextCursor
  <2>3. \A t \in SP!Task : SP!Listed(t)' <=> SP!Listed(t) /\ t # sched_list[SP!NextCursor]
    BY <1>1, <2>1, <2>2, SP!ShiftFacts, AddrSpaceAssumption DEF AddrSpaceAssumption, S!SchedAssumption
  <2>4. \A t \in Task : S!Listed(t)' <=> S!Listed(t) /\ t # sched_list[SP!NextCursor]
    BY <2>3, Names DEF SP!Listed, S!Listed
  <2>5. Live' = Live \ {sched_list[SP!NextCursor]}
    BY <2>4 DEF Live
  <2> QED BY <1>2, <1>3, <2>5 DEF OneLess, sched_switch
<1> QED BY <1>2, <1>4, <1>5 DEF S!sched_switch

(* The other steps leave the table alone. *)
LEMMA OtherLive ==
  ASSUME SInv, \/ UNCHANGED << sched_list, sched_tid, created >>
               \/ S!FaultInSyscall \/ S!pit_init \/ S!Kill \/ S!IsrHalt
  PROVE  SameTasks
BY DEF SameTasks, Live, S!Listed, S!FaultInSyscall, S!pit_init, S!Kill, S!IsrHalt, S!sched_kill

(* Every step keeps the invariant of the scheduler and what CPU 0 loaded. *)
LEMMA SchedStep == SInv /\ [Next]_vars => SInv'
<1> SUFFICES ASSUME SInv, [Next]_vars PROVE SInv'
  OBVIOUS
<1>1. CASE sched_switch
  <2>1. S!Next /\ cr3' = vmm_current_page_map' /\ vmm_current_page_map' = sched_current_task'
    BY <1>1 DEF sched_switch, page_map_load, S!sched_switch, S!Next
  <2> QED BY <2>1, SchedNext DEF SInv
<1>2. CASE smp_init_core
  <2>1. SP!SchedInv' /\ sched_current_task' = sched_current_task /\ cr3' = cr3
    <3>1. UNCHANGED SP!schedVars
      BY <1>2 DEF smp_init_core, SP!schedVars
    <3>2. SP!SchedInv /\ [SP!Next]_SP!schedVars => SP!SchedInv'
      BY SP!NextInv, AddrSpaceAssumption DEF AddrSpaceAssumption, S!SchedAssumption
    <3> QED BY <1>2, <3>1, <3>2 DEF SInv, smp_init_core
  <2> QED BY <1>2, <2>1 DEF SInv, smp_init_core
<1>3. CASE BootCreate \/ SysCreate \/ MallocFaults \/ SchedOnly
  <2>1. S!Next /\ cr3' = cr3 /\ sched_current_task' = sched_current_task
        /\ vmm_current_page_map' = vmm_current_page_map
    BY <1>3 DEF BootCreate, SysCreate, MallocFaults, SchedOnly, S!Next, S!BootCreate, S!SysCreate,
       S!sched_create_new_task, S!FaultInSyscall, S!sched_kill, S!pit_init, S!Kill, S!IsrHalt, memVars
  <2> QED BY <2>1, SchedNext DEF SInv
<1>4. CASE vmm_init \/ kmalloc \/ (\E b \in Page : kfree(b)) \/ MallocReturns \/ UNCHANGED vars
  <2>1. UNCHANGED schedVars /\ cr3' = cr3
    BY <1>4 DEF vmm_init, kmalloc, kfree, MallocReturns, vars, memVars
  <2>2. sched_current_task' = sched_current_task /\ vmm_current_page_map' = vmm_current_page_map
    BY <2>1 DEF schedVars
  <2> QED BY <2>1, <2>2, SchedNext DEF SInv
<1> QED BY <1>1, <1>2, <1>3, <1>4 DEF Next

-----------------------------------------------------------------------------
(* The memory invariant: tables have the shape of trees, one for each task *)
(* in the table and one for the kernel, whose top tables page_map names.   *)
Rooted ==
    /\ \A o \in Live \cup {NULL} : page_map[o] \in Page
    /\ \A o \in Owner, p \in Page :
          IsMapOf(p, o) <=> o \in Live \cup {NULL} /\ page_map[o] = p
Links == [Task -> SUBSET [vaddr : Nat, page : Page]]
MemTypes == /\ mem \in Mem /\ mem.full = FALSE
            /\ page_map \in [Owner -> Slot] /\ linked \in Links
            /\ ap_pending \in BOOLEAN
MemInv == MemTypes /\ Rooted /\ \E lv : Shape(mem, lv)

(* A step that allocates, for the kernel or for a task in the table.       *)
Allocates ==
    \A p \in Page :
       \/ mem'.use[p].as = mem.use[p].as /\ mem'.use[p].of = mem.use[p].of
       \/ mem.use[p] = Free /\ mem'.use[p].as \notin {"free", "map"} /\ mem'.use[p].of \in Live \cup {NULL}
Steady == /\ mem' \in Mem /\ mem'.full = FALSE /\ (\E lv : Shape(mem', lv)) /\ Allocates
          /\ page_map' = page_map /\ linked' = linked
          /\ Live' = Live /\ created' = created

(* The top tables of the maps. *)
LEMMA RootFacts ==
  ASSUME MemInv, NEW o \in Live \cup {NULL}
  PROVE  /\ IsRoot(mem, page_map[o]) /\ mem.use[page_map[o]].of = o
         /\ \A r \in Live \cup {NULL} : page_map[r] = page_map[o] => r = o
<1>1. \A r \in Live \cup {NULL} : r \in Owner /\ page_map[r] \in Page
  BY DEF MemInv, Rooted, Live, Owner
<1>2. \A r \in Live \cup {NULL} : IsMapOf(page_map[r], r)
  BY <1>1 DEF MemInv, Rooted
<1> QED BY <1>1, <1>2 DEF IsRoot, IsMapOf

(* Such a step keeps the memory invariant. *)
LEMMA SteadyKeeps ==
  ASSUME MemInv, Steady, ap_pending' \in BOOLEAN
  PROVE  MemInv'
<1>1. MemTypes'
  BY DEF MemInv, MemTypes, Steady
<1>2. \A o \in Owner, p \in Page : IsMapOf(p, o)' <=> IsMapOf(p, o)
  <2> SUFFICES ASSUME NEW o \in Owner, NEW p \in Page PROVE IsMapOf(p, o)' <=> IsMapOf(p, o)
    OBVIOUS
  <2>1. CASE mem'.use[p].as = mem.use[p].as /\ mem'.use[p].of = mem.use[p].of
    BY <2>1 DEF IsMapOf
  <2>2. CASE mem.use[p] = Free /\ mem'.use[p].as \notin {"free", "map"}
    BY <2>2 DEF IsMapOf, Free
  <2> QED BY <2>1, <2>2 DEF Steady, Allocates
<1>3. Rooted'
  BY <1>2 DEF MemInv, Rooted, Steady
<1>4. (\E lv : Shape(mem, lv))'
  BY DEF Steady
<1> QED BY <1>1, <1>3, <1>4 DEF MemInv

(* The boot memory: page 0 is the kernel's top table, and is empty. *)
LEMMA InitMem ==
  ASSUME Init
  PROVE  /\ MemInv /\ Live = {} /\ mem.mapped = 0 /\ mem.pmm_bitmap_index = 1
         /\ page_map[NULL] = 0 /\ Held(mem, 0) = Zero
         /\ \A p \in Page : (p = 0 /\ mem.use[p].as = "map" /\ mem.use[p].of = NULL) \/ mem.use[p] = Free
<1> DEFINE use == [p \in Page |-> Free]
           boot == [use |-> use, pmm_bitmap_index |-> 0, table |-> << >>, mapped |-> 0, full |-> FALSE]
<1>1. /\ mem = Write(pmm_alloc(boot, 1, "map", NULL), 0, Zero)
      /\ page_map = [o \in Owner |-> IF o = NULL THEN 0 ELSE NULL]
      /\ linked = [t \in Task |-> {}] /\ ap_pending \in BOOLEAN
  BY DEF Init
<1>2. Live = {}
  BY SchedInit DEF Init
<1>3. 0 \in Page /\ NULL \in Owner /\ "map" \in Kind /\ "free" \in Kind
  BY Params DEF Page, Owner, Kind
<1>4. Free \in Use
  BY <1>3 DEF Free, Use
<1>5. use \in [Page -> Use] /\ \A p \in Page : use[p] = Free
  BY <1>4
<1>6. << >> \in Tables
  <2>1. << >> \in [{} -> [Entry -> Slot]]
    OBVIOUS
  <2> QED BY <2>1 DEF Tables
<1> HIDE DEF use
<1>7. boot \in Mem /\ boot.use = use /\ boot.pmm_bitmap_index = 0 /\ boot.table = << >> /\ boot.mapped = 0
      /\ boot.full = FALSE
  BY <1>3, <1>5, <1>6, Params DEF Mem, Page
<1> HIDE DEF boot
<1>8. 0 \in Fits(boot, 1)
  BY <1>3, <1>5, <1>7, Params DEF Fits, Page
<1>9. Next_(boot, 1) = 0
  <2>1. Next_(boot, 1) \in Fits(boot, 1) /\ Next_(boot, 1) <= 0
    BY <1>8, NextFits
  <2>2. Next_(boot, 1) \in Nat
    BY <2>1, Params DEF Fits, Page
  <2> QED BY <2>1, <2>2
<1> DEFINE m1 == pmm_alloc(boot, 1, "map", NULL)
<1>10. ~m1.full
  <2>1. m1 = [boot EXCEPT !.use = [p \in Page |->
                 IF p \in Next_(boot, 1)..(Next_(boot, 1) + 1 - 1)
                 THEN [as |-> "map", of |-> NULL, at |-> Next_(boot, 1), usable |-> FALSE] ELSE boot.use[p]],
                            !.pmm_bitmap_index = Next_(boot, 1) + 1]
    BY <1>8, <1>7 DEF pmm_alloc
  <2>2. m1.full = boot.full
    BY <2>1, <1>7 DEF Mem
  <2> QED BY <2>2, <1>7
<1>11. m1.pmm_bitmap_index = 1 /\ m1 \in Mem
  <2> DEFINE a == Next_(boot, 1)
  <2>1. 1 \in Nat \ {0}
    OBVIOUS
  <2>2. /\ m1 \in Mem /\ m1.mapped = boot.mapped
        /\ \A q : Held(m1, q) = Held(boot, q)
        /\ boot.full => m1.full
        /\ ~m1.full =>
              /\ a \in Page /\ a + 1 <= Pages
              /\ \A q \in a..(a + 1 - 1) : q \in Page /\ boot.use[q] = Free
              /\ m1.pmm_bitmap_index = a + 1
              /\ \A q \in Page : m1.use[q] = IF q \in a..(a + 1 - 1)
                               THEN [as |-> "map", of |-> NULL, at |-> a, usable |-> FALSE]
                               ELSE boot.use[q]
    BY <1>3, <1>7, <2>1, AllocFacts
  <2> HIDE DEF m1
  <2> QED BY <2>2, <1>9, <1>10
<1>12. mem = page_map_new(boot, NULL)
  BY <1>1, <1>9, <1>10 DEF page_map_new
<1>13. mem = Write(m1, 0, Zero)
  BY <1>1
<1> HIDE DEF m1
<1>14. Zero \in [Entry -> Slot] /\ 0 \in Entry
  BY Params DEF Zero, Entry, Slot
<1>15. mem.full = FALSE /\ mem.pmm_bitmap_index = 1 /\ Held(mem, 0) = Zero
  <2>1. mem.full = m1.full /\ mem.pmm_bitmap_index = m1.pmm_bitmap_index /\ Held(mem, 0) = Zero
    BY <1>3, <1>11, <1>13, <1>14, WriteFacts
  <2>2. m1.full \in BOOLEAN
    BY <1>11 DEF Mem
  <2> QED BY <2>1, <2>2, <1>10, <1>11
<1>16. \E lv : Shape(boot, lv)
  <2> DEFINE lv == [p \in Page |-> 0]
  <2>1. lv \in Level
    BY Params DEF Level
  <2>2. \A p \in Page : boot.use[p].as = "free"
    BY <1>5, <1>7 DEF Free
  <2>3. \A p \in Page : ~IsTable(boot, p)
    BY <2>2 DEF IsTable
  <2> HIDE DEF lv
  <2>4. Shape(boot, lv)
    BY <2>1, <2>2, <2>3 DEF Shape, TopLevel, Children, OneParent
  <2> QED BY <2>4
<1>17. /\ mem \in Mem /\ mem.mapped = boot.mapped
       /\ mem.use[0].as = "map" /\ mem.use[0].of = NULL
       /\ \A q \in Page \ {0} : mem.use[q] = boot.use[q]
       /\ \E lv2 : Shape(mem, lv2)
  <2>1. ~mem.full
    BY <1>15
  <2> QED BY <2>1, <1>3, <1>7, <1>9, <1>12, <1>16, NewRoot
<1>18. \A p \in Page : (p = 0 /\ mem.use[p].as = "map" /\ mem.use[p].of = NULL) \/ mem.use[p] = Free
  BY <1>17, <1>7, <1>5
<1>19. page_map[NULL] = 0 /\ \A o \in Owner : page_map[o] \in Slot
  BY <1>1, <1>3 DEF Slot
<1>20. Rooted
  <2>1. \A p \in Page : p # 0 => mem.use[p].as # "map"
    BY <1>18 DEF Free
  <2>2. \A o \in Owner, p \in Page : IsMapOf(p, o) <=> o \in Live \cup {NULL} /\ page_map[o] = p
    BY <1>2, <1>17, <1>19, <2>1 DEF IsMapOf
  <2> QED BY <1>2, <1>3, <1>19, <2>2 DEF Rooted
<1>21. MemTypes
  BY <1>1, <1>15, <1>17, <1>19 DEF MemTypes, Links
<1> QED BY <1>2, <1>7, <1>15, <1>17, <1>18, <1>19, <1>20, <1>21 DEF MemInv

(* The loop of vmm_init. *)
LEMMA VmmInitSteady ==
  ASSUME SInv, MemInv, vmm_init
  PROVE  /\ Steady /\ ap_pending' = ap_pending
         /\ mem'.mapped = mem.mapped + 1 /\ mem.mapped < Pages
<1> DEFINE root == page_map[NULL]
           v == mem.mapped
           m1 == vmm_map(mem, root, v, v, NULL)
<1>1. /\ v < Pages /\ mem' = [m1 EXCEPT !.mapped = v + 1] /\ ~mem'.full
      /\ UNCHANGED << schedVars, page_map, linked, cr3, ap_pending >>
  <2>1. mem' = [m1 EXCEPT !.mapped = m1.mapped + 1]
    BY DEF vmm_init
  <2>2. m1.mapped = v
    <3>1. mem \in Mem /\ v \in 0..Pages /\ v < Pages
      BY DEF MemInv, MemTypes, Mem, vmm_init
    <3>2. root \in Page /\ NULL \in Owner
      BY RootFacts DEF IsRoot, Owner
    <3>3. v \in Page /\ v \in Nat
      BY <3>1, Params DEF Page
    <3> QED BY <3>1, <3>2, <3>3, VmmMapType DEF Slot
  <2> QED BY <2>1, <2>2 DEF vmm_init
<1>2. mem \in Mem /\ IsRoot(mem, root) /\ NULL = mem.use[root].of
  BY RootFacts DEF MemInv, MemTypes
<1>3. v \in Page /\ v \in Nat /\ NULL \in Owner /\ root \in Page
  BY <1>1, <1>2, Params DEF Mem, Page, Owner, IsRoot
<1>4. PICK lv : Shape(mem, lv)
  BY DEF MemInv
<1>5. m1 \in Mem
  BY <1>2, <1>3, VmmMapType DEF Slot
<1> HIDE DEF v, root
<1>6. m1 = vmm_map(mem, root, v, v, NULL)
  OBVIOUS
<1> HIDE DEF m1
<1>7. /\ mem' \in Mem /\ mem'.full = m1.full /\ mem'.use = m1.use /\ mem'.table = m1.table
      /\ mem'.mapped = v + 1
  <2>1. v + 1 \in 0..Pages
    BY <1>1, <1>3, Params DEF Page
  <2> QED BY <1>1, <1>5, <2>1 DEF Mem
<1>8. ~m1.full
  BY <1>1, <1>7
<1>9. (\E lv2 : Shape(m1, lv2)) /\ Grown(mem, m1, {"table"}, NULL)
  BY ONLY <1>2, <1>3, <1>4, <1>6, <1>8, VmmMap
<1>10. \E lv2 : Shape(mem', lv2)
  <2>1. PICK lv2 : Shape(m1, lv2)
    BY <1>9
  <2>2. \A p : Held(mem', p) = Held(m1, p)
    BY <1>7 DEF Held
  <2>3. Shape(mem', lv2)
    BY <1>5, <1>7, <2>1, <2>2, ShapeKept
  <2> QED BY <2>3
<1>11. Allocates
  BY <1>7, <1>9 DEF Allocates, Grown
<1>12. Live' = Live /\ created' = created
  <2>1. UNCHANGED << sched_list, sched_tid, created >>
    BY <1>1 DEF schedVars
  <2> QED BY <2>1, OtherLive DEF SameTasks
<1>13. mem'.full = FALSE
  <2>1. mem'.full \in BOOLEAN
    BY <1>7 DEF Mem
  <2> QED BY <1>1, <2>1
<1> QED BY <1>1, <1>7, <1>10, <1>11, <1>12, <1>13 DEF Steady, v

(* vmm_alloc of a block, for kmalloc and for malloc. *)
BlockTaken(o, kind) ==
    LET a == Next_(mem, BLOCK)
    IN  /\ a \in Page /\ a + BLOCK <= Pages
        /\ \A p \in a..(a + BLOCK - 1) :
              p \in Page /\ mem.use[p] = Free /\ mem'.use[p].as = kind /\ mem'.use[p].of = cpu
        /\ \A p \in Page : p \notin a..(a + BLOCK - 1) =>
              \/ mem'.use[p] = mem.use[p]
              \/ mem.use[p] = Free /\ mem'.use[p].as = "table"
        /\ mem'.mapped = mem.mapped
        /\ \A r \in Page, u \in Nat : IsRoot(mem, r) /\ InReach(u) =>
              Translation(mem', r, u) = IF r = page_map[o] /\ u \in a..(a + BLOCK - 1) THEN u
                                        ELSE Translation(mem, r, u)

(* What kmalloc and malloc do to memory, where the map belongs to o. *)
LEMMA BlockSteady ==
  ASSUME SInv, MemInv, S!LiveTaskRuns, NEW o \in Live \cup {NULL},
         NEW kind \in {"kheap", "heap"}, o # NULL => kind = "heap" /\ o = cpu,
         mem' = vmm_alloc(mem, page_map[o], BLOCK, kind, cpu, o), ~mem'.full,
         UNCHANGED << page_map, linked >>, SameTasks
  PROVE  Steady /\ BlockTaken(o, kind)
<1> DEFINE root == page_map[o]
           a == Next_(mem, BLOCK)
<1>1. mem \in Mem /\ IsRoot(mem, root) /\ o = mem.use[root].of
  BY RootFacts DEF MemInv, MemTypes
<1>2. PICK lv : Shape(mem, lv)
  BY DEF MemInv
<1>3. cpu \in Live /\ cpu \in Owner
  BY RunFacts DEF Live, Owner
<1>4. /\ BLOCK \in Nat \ {0} /\ kind \in Kind \ {"free", "map", "table"}
      /\ o # NULL => kind \in {"segment", "heap"} /\ cpu = o
  BY Params DEF Kind
<1>5. a = Next_(mem, BLOCK)
  OBVIOUS
<1>6. mem' = vmm_alloc(mem, root, BLOCK, kind, cpu, o) /\ ~mem'.full
  OBVIOUS
<1> HIDE DEF a
<1>7. /\ mem' \in Mem /\ mem'.mapped = mem.mapped
      /\ \E lv2 : Shape(mem', lv2)
      /\ a \in Page /\ a + BLOCK <= Pages
      /\ \A p \in a..(a + BLOCK - 1) :
            /\ p \in Page /\ mem.use[p] = Free
            /\ mem'.use[p] = [as |-> kind, of |-> cpu, at |-> a, usable |-> FALSE]
      /\ \A p \in Page : \/ p \in a..(a + BLOCK - 1)
                         \/ mem'.use[p] = mem.use[p]
                         \/ mem.use[p] = Free /\ mem'.use[p].as = "table" /\ mem'.use[p].of = o
      /\ \A r \in Page, u \in Nat : IsRoot(mem, r) /\ InReach(u) =>
            Translation(mem', r, u) = IF r = root /\ u \in a..(a + BLOCK - 1) THEN u ELSE Translation(mem, r, u)
  <2> HIDE DEF root
  <2> QED BY ONLY <1>1, <1>2, <1>3, <1>4, <1>5, <1>6, VmmAlloc
<1>8. \A p \in a..(a + BLOCK - 1) : mem'.use[p].as = kind /\ mem'.use[p].of = cpu
  BY <1>7
<1>9. Allocates
  BY <1>3, <1>7, <1>8 DEF Allocates
<1>10. BlockTaken(o, kind)
  BY <1>5, <1>7, <1>8 DEF BlockTaken
<1>11. mem'.full = FALSE
  <2>1. mem'.full \in BOOLEAN
    BY <1>7 DEF Mem
  <2> QED BY <2>1
<1> QED BY <1>7, <1>9, <1>10, <1>11 DEF Steady, SameTasks

(* kfree and free. *)
LEMMA FreeSteady ==
  ASSUME SInv, MemInv, NEW b \in Page, kfree(b)
  PROVE  /\ Steady /\ ap_pending' = ap_pending /\ mem'.mapped = mem.mapped
         /\ \A p : Held(mem', p) = Held(mem, p)
         /\ \A p \in Page : mem'.use[p].as = mem.use[p].as /\ mem'.use[p].of = mem.use[p].of
<1>1. mem' = SetUsable(mem, b) /\ UNCHANGED << schedVars, page_map, linked, cr3, ap_pending >>
  BY DEF kfree
<1>2. mem \in Mem /\ mem.full = FALSE
  BY DEF MemInv, MemTypes
<1>3. /\ mem' \in Mem /\ mem'.mapped = mem.mapped /\ mem'.full = mem.full
      /\ \A p : Held(mem', p) = Held(mem, p)
      /\ \A p \in Page : mem'.use[p].as = mem.use[p].as /\ mem'.use[p].of = mem.use[p].of
  BY <1>1, <1>2, SetUsableFacts
<1>4. \E lv : Shape(mem', lv)
  <2>1. PICK lv : Shape(mem, lv)
    BY DEF MemInv
  <2>2. Shape(mem', lv)
    BY <1>2, <1>3, <2>1, ShapeKept
  <2> QED BY <2>2
<1>5. Live' = Live /\ created' = created
  <2>1. UNCHANGED << sched_list, sched_tid, created >>
    BY <1>1 DEF schedVars
  <2> QED BY <2>1, OtherLive DEF SameTasks
<1> QED BY <1>1, <1>2, <1>3, <1>4, <1>5 DEF Steady, Allocates

(* What the creation of task t, with these segments, leaves: its top table *)
(* is map and its segments are linked where L says.                        *)
TaskMade(t, segments, map, L) ==
    /\ mem' \in Mem /\ mem'.full = FALSE /\ mem'.mapped = mem.mapped
    /\ \E lv : Shape(mem', lv)
    /\ map \in Page /\ mem.use[map] = Free /\ mem'.use[map].as = "map" /\ mem'.use[map].of = t
    /\ \A p \in Page \ {map} :
          \/ mem'.use[p] = mem.use[p]
          \/ /\ mem.use[p] = Free
             /\ mem'.use[p].as \in {"struct", "table", "segment", "stack"} /\ mem'.use[p].of \in {t, NULL}
    /\ L \in SUBSET [vaddr : Nat, page : Page]
    /\ \A s \in L : s.vaddr < End(segments)
    /\ (\A u \in Nat : u < End(segments) => InReach(u)) =>
          /\ \A s \in L : Translation(mem', map, s.vaddr) = s.page
          /\ \A u \in Nat : InReach(u) /\ (\A s \in L : s.vaddr # u) => Translation(mem', map, u) = NULL
    /\ \A r \in Page, u \in Nat :
          /\ IsRoot(mem, r) /\ r # page_map[NULL] /\ InReach(u)
          /\ \A v \in Nat : v < End(segments) => InReach(v)
          => Translation(mem', r, u) = Translation(mem, r, u)
    /\ page_map' = [page_map EXCEPT ![t] = map]
    /\ linked' = [linked EXCEPT ![t] = L]

(* sched_create_new_task, when memory lasts. *)
LEMMA TaskMadeFacts ==
  ASSUME MemInv, NEW t \in Task, NEW segments \in Seq(Nat \ {0}), sched_create_new_task(t, segments)
  PROVE  \E map, L : TaskMade(t, segments, map, L)
<1> DEFINE root == page_map[NULL]
           m1 == vmm_alloc(mem, root, BLOCK, "struct", t, NULL)
           m2 == page_map_new(m1, t)
           map == Next_(m1, 1)
           e == elf_exec(m2, map, segments, t)
           m3 == pmm_alloc(e.mem, 1, "stack", t)
<1>1. /\ mem' = m3 /\ ~m1.full /\ ~m2.full /\ ~e.mem.full /\ ~m3.full
      /\ page_map' = [page_map EXCEPT ![t] = map] /\ linked' = [linked EXCEPT ![t] = e.linked]
  BY DEF sched_create_new_task
<1>2. mem \in Mem /\ IsRoot(mem, root) /\ mem.use[root].of = NULL
  BY RootFacts DEF MemInv, MemTypes
<1>3. PICK lv : Shape(mem, lv)
  BY DEF MemInv
<1>4. /\ m1 = vmm_alloc(mem, root, BLOCK, "struct", t, NULL) /\ m2 = page_map_new(m1, t)
      /\ map = Next_(m1, 1) /\ e = elf_exec(m2, map, segments, t) /\ m3 = pmm_alloc(e.mem, 1, "stack", t)
  OBVIOUS
<1> HIDE DEF root, m1, m2, map, e, m3
<1>5. /\ m3 \in Mem /\ m3.mapped = mem.mapped /\ ~mem.full
      /\ \E lv2 : Shape(m3, lv2)
      /\ map \in Page /\ mem.use[map] = Free /\ m3.use[map].as = "map" /\ m3.use[map].of = t
      /\ \A p \in Page \ {map} :
            \/ m3.use[p] = mem.use[p]
            \/ /\ mem.use[p] = Free
               /\ m3.use[p].as \in {"struct", "table", "segment", "stack"} /\ m3.use[p].of \in {t, NULL}
      /\ e.linked \in SUBSET [vaddr : Nat, page : Page]
      /\ \A s \in e.linked : s.vaddr < End(segments)
      /\ (\A u \in Nat : u < End(segments) => InReach(u)) =>
            /\ \A s \in e.linked : Translation(m3, map, s.vaddr) = s.page
            /\ \A u \in Nat : InReach(u) /\ (\A s \in e.linked : s.vaddr # u) => Translation(m3, map, u) = NULL
      /\ \A r \in Page, u \in Nat :
            /\ IsRoot(mem, r) /\ r # root /\ InReach(u) /\ (\A v \in Nat : v < End(segments) => InReach(v))
            => Translation(m3, r, u) = Translation(mem, r, u)
  BY ONLY <1>1, <1>2, <1>3, <1>4, Created, t \in Task, segments \in Seq(Nat \ {0})
<1>6. m3.full = FALSE
  <2>1. m3.full \in BOOLEAN
    BY <1>5 DEF Mem
  <2> QED BY <1>1, <2>1
<1>7. TaskMade(t, segments, map, e.linked)
  BY <1>1, <1>5, <1>6 DEF TaskMade, root
<1> QED BY <1>7

(* BootCreate and SysCreate. *)
LEMMA CreateFacts ==
  ASSUME SInv, MemInv, BootCreate \/ SysCreate
  PROVE  /\ NewTask /\ ap_pending' = ap_pending
         /\ BootCreate => Initialised
         /\ SysCreate => cpu \in Live
         /\ \E segments \in Programs \cup {Shell, << >>} : \E map, L : TaskMade(created + 1, segments, map, L)
<1>1. NewTask /\ ap_pending' = ap_pending
  <2>1. (S!BootCreate \/ S!SysCreate) /\ ap_pending' = ap_pending
    BY DEF BootCreate, SysCreate
  <2> QED BY <2>1, CreateLive
<1>2. \E segments \in Programs \cup {Shell, << >>} : sched_create_new_task(created + 1, segments)
  <2>1. CASE SysCreate
    BY <2>1 DEF SysCreate
  <2>2. CASE BootCreate
    <3>1. created < 2 /\ created \in Nat
      BY <2>2, RunFacts DEF BootCreate, S!BootCreate
    <3>2. CASE created = 0
      BY <2>2, <3>2 DEF BootCreate
    <3>3. CASE created = 1
      BY <2>2, <3>3 DEF BootCreate
    <3> QED BY <3>1, <3>2, <3>3
  <2> QED BY <2>1, <2>2
<1>3. PICK segments \in Programs \cup {Shell, << >>} : sched_create_new_task(created + 1, segments)
  BY <1>2
<1>4. segments \in Seq(Nat \ {0})
  <2>1. << >> \in Seq(Nat \ {0})
    OBVIOUS
  <2>2. \A s \in Programs \cup {Shell} : s \in Seq(Nat \ {0})
    BY AddrSpaceAssumption DEF AddrSpaceAssumption
  <2> QED BY <2>1, <2>2
<1>5. \E map, L : TaskMade(created + 1, segments, map, L)
  BY <1>1, <1>3, <1>4, TaskMadeFacts DEF NewTask
<1>6. SysCreate => cpu \in Live
  BY RunFacts DEF SysCreate, S!SysCreate
<1>7. BootCreate => Initialised
  BY DEF BootCreate
<1> QED BY <1>1, <1>5, <1>6, <1>7

(* A new task has the map it was given, and the others have theirs. *)
LEMMA CreateKeeps ==
  ASSUME MemInv, NewTask, ap_pending' = ap_pending,
         NEW segments, NEW map, NEW L, TaskMade(created + 1, segments, map, L)
  PROVE  /\ MemInv'
         /\ page_map'[created + 1] = map /\ linked'[created + 1] = L
         /\ \A o \in Live \cup {NULL} : page_map'[o] = page_map[o] /\ page_map[o] # map
         /\ \A o \in Live : linked'[o] = linked[o]
<1> DEFINE t == created + 1
<1>1. t \in Task /\ t \notin Live /\ Live' = Live \cup {t} /\ NULL \notin Task /\ t # NULL
  BY Names DEF NewTask
<1>2. /\ page_map \in [Owner -> Slot] /\ linked \in Links
      /\ page_map' = [page_map EXCEPT ![t] = map] /\ linked' = [linked EXCEPT ![t] = L]
      /\ map \in Page /\ L \in SUBSET [vaddr : Nat, page : Page]
      /\ mem.use[map] = Free /\ mem'.use[map].as = "map" /\ mem'.use[map].of = t
  BY DEF TaskMade, MemInv, MemTypes
<1>3. \A p \in Page \ {map} :
         \/ mem'.use[p] = mem.use[p]
         \/ mem.use[p] = Free /\ mem'.use[p].as \in {"struct", "table", "segment", "stack"}
  BY DEF TaskMade
<1> HIDE DEF t
<1>4. /\ page_map' \in [Owner -> Slot] /\ page_map'[t] = map
      /\ \A o \in Owner : o # t => page_map'[o] = page_map[o]
  BY <1>1, <1>2 DEF Owner, Slot
<1>5. linked' \in Links /\ linked'[t] = L /\ \A o \in Task : o # t => linked'[o] = linked[o]
  BY <1>1, <1>2 DEF Links
<1>6. \A o \in Live \cup {NULL} : o \in Owner /\ o # t
  BY <1>1 DEF Live, Owner
<1>7. \A o \in Live \cup {NULL} : page_map[o] # map
  BY <1>2, <1>6, RootFacts DEF IsRoot, Free
<1>8. Rooted'
  <2>1. \A o \in (Live \cup {NULL})' : page_map'[o] \in Page
    BY <1>1, <1>2, <1>4, <1>6 DEF MemInv, Rooted
  <2>2. \A o \in Owner, p \in Page : IsMapOf(p, o)' <=> o \in (Live \cup {NULL})' /\ page_map'[o] = p
    <3> SUFFICES ASSUME NEW o \in Owner, NEW p \in Page
                 PROVE  IsMapOf(p, o)' <=> o \in (Live \cup {NULL})' /\ page_map'[o] = p
      OBVIOUS
    <3>1. CASE p = map
      <4>1. IsMapOf(p, o)' <=> o = t
        BY <1>2, <3>1 DEF IsMapOf
      <4> QED BY <1>1, <1>4, <1>6, <1>7, <3>1, <4>1
    <3>2. CASE p # map
      <4>1. IsMapOf(p, o)' <=> IsMapOf(p, o)
        <5>1. CASE mem'.use[p] = mem.use[p]
          BY <5>1 DEF IsMapOf
        <5>2. CASE mem.use[p] = Free /\ mem'.use[p].as \in {"struct", "table", "segment", "stack"}
          BY <5>2 DEF IsMapOf, Free
        <5> QED BY <1>3, <3>2, <5>1, <5>2
      <4>2. IsMapOf(p, o) <=> o \in Live \cup {NULL} /\ page_map[o] = p
        BY DEF MemInv, Rooted
      <4>3. o = t => o \notin Live \cup {NULL} /\ page_map'[o] = map
        BY <1>1, <1>4
      <4> QED BY <1>1, <1>4, <3>2, <4>1, <4>2, <4>3
    <3> QED BY <3>1, <3>2
  <2> QED BY <2>1, <2>2 DEF Rooted
<1>9. MemTypes' /\ (\E lv : Shape(mem, lv))'
  BY <1>4, <1>5 DEF MemTypes, TaskMade, MemInv
<1> QED BY <1>4, <1>5, <1>6, <1>7, <1>8, <1>9 DEF MemInv, t, Live

(* What the removal of task t leaves. *)
TaskGone(t) ==
    /\ Live' = Live \ {t}
    /\ mem' \in Mem /\ mem'.full = FALSE /\ mem'.mapped = mem.mapped
    /\ \E lv : Shape(mem', lv)
    /\ mem'.use[page_map[t]].as = "free" /\ mem'.use[page_map[t]].of = NULL
    /\ \A p \in Page \ {page_map[t]} : mem'.use[p].as = mem.use[p].as /\ mem'.use[p].of = mem.use[p].of
    /\ \A r \in Page, u \in Nat : IsRoot(mem, r) /\ r # page_map[t] =>
          Translation(mem', r, u) = Translation(mem, r, u)

(* sched_switch removes one task at most, and keeps the memory invariant. *)
LEMMA SwitchKeeps ==
  ASSUME SInv, MemInv, sched_switch
  PROVE  /\ MemInv' /\ UNCHANGED << page_map, linked, created, halted >> /\ ~halted
         /\ \/ Live' = Live /\ mem' = mem
            \/ \E t \in Live : TaskGone(t)
<1>1. UNCHANGED << page_map, linked, created, halted, ap_pending >> /\ ~halted
  BY SwitchLive DEF sched_switch
<1>2. CASE Live' = Live /\ mem' = mem
  BY <1>1, <1>2 DEF MemInv, MemTypes, Rooted, IsMapOf
<1>3. ASSUME NEW t \in Live, Live' = Live \ {t},
             mem' = SetUsable(page_map_delete(mem, page_map[t]), StructOf(t))
      PROVE  MemInv' /\ TaskGone(t)
  <2> DEFINE map == page_map[t]
             b == StructOf(t)
  <2>1. mem \in Mem /\ mem.full = FALSE /\ IsRoot(mem, map) /\ map \in Page
    BY RootFacts DEF MemInv, MemTypes, IsRoot
  <2>2. PICK lv : Shape(mem, lv)
    BY DEF MemInv
  <2>3. mem' = SetUsable(page_map_delete(mem, map), b)
    BY <1>3
  <2> HIDE DEF b, map
  <2>4. /\ mem' \in Mem /\ mem'.mapped = mem.mapped /\ mem'.full = mem.full
        /\ Shape(mem', lv)
        /\ mem'.use[map].as = "free" /\ mem'.use[map].of = NULL
        /\ \A p \in Page \ {map} : mem'.use[p].as = mem.use[p].as /\ mem'.use[p].of = mem.use[p].of
        /\ \A r \in Page, u \in Nat : IsRoot(mem, r) /\ r # map =>
              Translation(mem', r, u) = Translation(mem, r, u)
    BY ONLY <2>1, <2>2, <2>3, DeleteFacts
  <2>5. TaskGone(t)
    BY <1>3, <2>1, <2>4 DEF TaskGone, map
  <2>6. t \in Live \cup {NULL} /\ t # NULL /\ Live \subseteq Task /\ NULL \notin Task
    BY Names DEF Live
  <2>7. Rooted'
    <3>1. \A o \in (Live \cup {NULL})' : o \in Live \cup {NULL} /\ o # t /\ page_map[o] # map
      BY <1>3, <2>6, RootFacts DEF map
    <3>2. \A o \in Owner, p \in Page : IsMapOf(p, o)' <=> IsMapOf(p, o) /\ p # map
      BY <2>4 DEF IsMapOf
    <3>3. \A o \in Owner, p \in Page : IsMapOf(p, o) <=> o \in Live \cup {NULL} /\ page_map[o] = p
      BY DEF MemInv, Rooted
    <3>4. \A o \in Live \cup {NULL} : page_map[o] \in Page /\ (o # t => o \in (Live \cup {NULL})')
      BY <1>3 DEF MemInv, Rooted
    <3>5. \A o \in Owner, p \in Page : IsMapOf(p, o)' <=> o \in (Live \cup {NULL})' /\ page_map[o] = p
      BY <3>1, <3>2, <3>3, <3>4 DEF map
    <3> QED BY <1>1, <3>1, <3>4, <3>5 DEF Rooted
  <2>8. MemTypes'
    BY <1>1, <2>1, <2>4 DEF MemTypes, MemInv
  <2>9. (\E lv2 : Shape(mem, lv2))'
    BY <2>4
  <2> QED BY <2>5, <2>7, <2>8, <2>9 DEF MemInv
<1>4. OneLess
  BY SwitchLive
<1> QED BY <1>1, <1>2, <1>3, <1>4 DEF OneLess

(* kmalloc. *)
LEMMA KmallocFacts ==
  ASSUME SInv, MemInv, kmalloc
  PROVE  Steady /\ BlockTaken(NULL, "kheap") /\ cpu \in Live /\ UNCHANGED << halted, ap_pending >>
<1>1. /\ S!LiveTaskRuns /\ mem' = vmm_alloc(mem, page_map[NULL], BLOCK, "kheap", cpu, NULL) /\ ~mem'.full
      /\ UNCHANGED << schedVars, page_map, linked, ap_pending >>
  BY DEF kmalloc
<1>2. SameTasks
  BY <1>1, OtherLive DEF schedVars
<1>3. Steady /\ BlockTaken(NULL, "kheap")
  BY <1>1, <1>2, BlockSteady
<1> QED BY <1>1, <1>3, RunFacts DEF schedVars

(* malloc: the block is mapped for the task that runs, or for the kernel. *)
LEMMA MallocFacts ==
  ASSUME SInv, MemInv, MallocReturns \/ MallocFaults
  PROVE  /\ Steady /\ BlockTaken(vmm_current_page_map, "heap") /\ cpu \in Live /\ cpu = cr3
         /\ vmm_current_page_map \in {cpu, NULL} /\ ap_pending' = ap_pending
         /\ MallocReturns => HeaderMapped /\ halted' = halted
         /\ MallocFaults => halted'
<1>1. /\ S!LiveTaskRuns
      /\ mem' = vmm_alloc(mem, page_map[vmm_current_page_map], BLOCK, "heap", cpu, vmm_current_page_map)
      /\ ~mem'.full
      /\ UNCHANGED << page_map, linked, ap_pending >>
      /\ MallocReturns => HeaderMapped /\ UNCHANGED schedVars
      /\ MallocFaults => S!FaultInSyscall
  BY DEF MallocReturns, MallocFaults, malloc, S!FaultInSyscall
<1>2. SameTasks
  BY <1>1, OtherLive DEF schedVars
<1>3. cpu \in Live /\ cpu = cr3 /\ vmm_current_page_map \in {cpu, NULL}
  BY <1>1, RunFacts DEF SInv
<1>4. Steady /\ BlockTaken(vmm_current_page_map, "heap")
  BY <1>1, <1>2, <1>3, BlockSteady
<1>5. (MallocReturns => halted' = halted) /\ (MallocFaults => halted')
  BY <1>1 DEF schedVars, S!FaultInSyscall
<1> QED BY <1>1, <1>3, <1>4, <1>5

(* The steps that leave memory alone. *)
LEMMA IdleFacts ==
  ASSUME SInv, smp_init_core \/ SchedOnly \/ UNCHANGED vars
  PROVE  /\ UNCHANGED << mem, page_map, linked >> /\ Live' = Live /\ created' = created
         /\ ap_pending' \in {ap_pending, FALSE} /\ (halted' = halted \/ halted')
<1>1. UNCHANGED << mem, page_map, linked >> /\ ap_pending' \in {ap_pending, FALSE}
  BY DEF smp_init_core, SchedOnly, vars, memVars
<1>2. SameTasks
  BY OtherLive DEF smp_init_core, SchedOnly, vars, schedVars
<1>3. halted' = halted \/ halted'
  BY DEF smp_init_core, SchedOnly, vars, schedVars, S!pit_init, S!Kill, S!IsrHalt, S!FaultInSyscall
<1> QED BY <1>1, <1>2, <1>3 DEF SameTasks

(* Every step keeps the memory invariant. *)
LEMMA MemStep == SInv /\ MemInv /\ [Next]_vars => MemInv'
<1> SUFFICES ASSUME SInv, MemInv, [Next]_vars PROVE MemInv'
  OBVIOUS
<1>1. ap_pending \in BOOLEAN
  BY DEF MemInv, MemTypes
<1>2. CASE vmm_init
  BY <1>1, <1>2, VmmInitSteady, SteadyKeeps
<1>3. CASE BootCreate \/ SysCreate
  <2>1. /\ NewTask /\ ap_pending' = ap_pending
        /\ \E segments \in Programs \cup {Shell, << >>} : \E map, L : TaskMade(created + 1, segments, map, L)
    BY <1>3, CreateFacts
  <2> QED BY <2>1, CreateKeeps
<1>4. CASE sched_switch
  BY <1>4, SwitchKeeps
<1>5. CASE kmalloc
  BY <1>1, <1>5, KmallocFacts, SteadyKeeps
<1>6. ASSUME NEW b \in Page, kfree(b) PROVE MemInv'
  BY <1>1, <1>6, FreeSteady, SteadyKeeps
<1>7. CASE MallocReturns \/ MallocFaults
  BY <1>1, <1>7, MallocFacts, SteadyKeeps
<1>8. CASE smp_init_core \/ SchedOnly \/ UNCHANGED vars
  <2>1. UNCHANGED << mem, page_map, linked, Live >> /\ ap_pending' \in {ap_pending, FALSE}
    BY <1>8, IdleFacts
  <2>2. MemTypes' /\ Rooted'
    BY <1>1, <2>1 DEF MemInv, MemTypes, Rooted, IsMapOf
  <2>3. (\E lv : Shape(mem, lv))'
    BY <2>1 DEF MemInv
  <2> QED BY <2>2, <2>3 DEF MemInv
<1> QED BY <1>2, <1>3, <1>4, <1>5, <1>6, <1>7, <1>8 DEF Next

(* The scheduler's and the memory's invariants hold in every state.        *)
THEOREM MemoryInvariance == Spec => [](SInv /\ MemInv)
<1>1. Init => SInv /\ MemInv
  BY SchedInit, InitMem DEF Init
<1>2. SInv /\ MemInv /\ [Next]_vars => (SInv /\ MemInv)'
  BY SchedStep, MemStep
<1> QED BY <1>1, <1>2, PTL DEF Spec

(* The memory's variables have their types: no allocation or mapping ever  *)
(* stores a table entry or an index outside of memory, and the page map    *)
(* that is loaded is that of a task or of the kernel.                      *)
THEOREM TypeCorrect == Spec => []TypeOK
<1>1. SInv /\ MemInv => TypeOK
  <2> SUFFICES ASSUME SInv, MemInv PROVE TypeOK
    OBVIOUS
  <2>1. /\ mem.use \in [Page -> [as : Kind, of : Owner, at : Page, usable : BOOLEAN]]
        /\ mem.pmm_bitmap_index \in 0..Pages /\ mem.mapped \in 0..Pages /\ mem.table \in Tables
    BY DEF MemInv, MemTypes, Mem, Use
  <2>2. DOMAIN mem.table \subseteq Page /\ \A p \in DOMAIN mem.table : mem.table[p] \in [Entry -> Slot]
    BY <2>1 DEF Tables
  <2>3. cr3 \in Owner
    BY RunFacts DEF SInv, Live, Owner
  <2> QED BY <2>1, <2>2, <2>3 DEF TypeOK, MemInv, MemTypes, Slot
<1> QED BY <1>1, MemoryInvariance, PTL

(* CPU 0 always translates through the page map of a task in the table, or *)
(* of the kernel: page_map_delete never frees the map that is loaded,      *)
(* whatever CPU 1 stored in vmm_current_page_map.                          *)
THEOREM LoadedMapAlive == Spec => []LoadedAlive
<1>1. SInv /\ MemInv => LoadedAlive
  <2> SUFFICES ASSUME SInv, MemInv PROVE LoadedAlive
    OBVIOUS
  <2>1. cr3 \in Live \cup {NULL}
    BY RunFacts DEF SInv
  <2> QED BY <2>1, RootFacts DEF LoadedAlive, IsMapOf, IsRoot
<1> QED BY <1>1, MemoryInvariance, PTL

(* A task in the table has exactly one page for its page map and a removed *)
(* one has none: page_map_delete frees each map once and forgets none.     *)
THEOREM OneMapPerTask == Spec => []OneMapEach
<1>1. MemInv => OneMapEach
  <2> SUFFICES ASSUME MemInv, NEW t \in Task
               PROVE  {p \in Page : IsMapOf(p, t)} = IF S!Listed(t) THEN {page_map[t]} ELSE {}
    BY DEF OneMapEach
  <2>1. t \in Owner /\ (t \in Live <=> S!Listed(t)) /\ t # NULL
    BY Names DEF Live, Owner
  <2>2. \A p \in Page : IsMapOf(p, t) <=> S!Listed(t) /\ page_map[t] = p
    BY <2>1 DEF MemInv, Rooted
  <2>3. S!Listed(t) => page_map[t] \in Page
    BY <2>1 DEF MemInv, Rooted
  <2> QED BY <2>2, <2>3
<1> QED BY <1>1, MemoryInvariance, PTL

(* The pages that a page map leads to, one level of tables after the other. *)
BelowEq(f, map) == f = [n \in 0..LEVELS |-> IF n = 0 THEN {map} ELSE Reached(f[n - 1])]
Below(map) == CHOOSE f : BelowEq(f, map)

(* There is such a function, and its sets are sets of pages. *)
LEMMA BelowFacts ==
  ASSUME mem \in Mem, NEW map \in Page
  PROVE  /\ Below(map)[0] = {map}
         /\ \A n \in 1..LEVELS : Below(map)[n] = Reached(Below(map)[n - 1])
<1> USE Params
<1> DEFINE step(s) == Reached(s)
           g == [x \in (SUBSET Page) \X (1..LEVELS) |-> step(x[1])]
           below == Below(map)
<1>1. \A s \in SUBSET Page : step(s) \in SUBSET Page
  <2> SUFFICES ASSUME NEW s \in SUBSET Page, NEW p \in Reached(s) PROVE p \in Page
    OBVIOUS
  <2>1. PICK d \in s, i \in Entry : p = Held(mem, d)[i] /\ p # NULL
    BY DEF Reached
  <2> QED BY <2>1, HeldFacts DEF Slot
<1>2. {map} \in SUBSET Page
  OBVIOUS
<1> HIDE DEF step
<1>3. g \in Steps(SUBSET Page, LEVELS)
  BY <1>1 DEF Steps
<1>4. PICK f : IsRun(f, SUBSET Page, {map}, LEVELS, g)
  <2> HIDE DEF g
  <2>1. LEVELS \in Nat
    OBVIOUS
  <2> QED BY <1>2, <1>3, <2>1, Iteration
<1>5. f \in [0..LEVELS -> SUBSET Page] /\ f[0] = {map} /\ \A n \in 1..LEVELS : f[n] = step(f[n - 1])
  <2>1. f \in [0..LEVELS -> SUBSET Page] /\ f[0] = {map} /\ \A n \in 1..LEVELS : f[n] = g[<< f[n - 1], n >>]
    <3> HIDE DEF g
    <3> QED BY <1>4 DEF IsRun
  <2>2. \A n \in 1..LEVELS : n - 1 \in 0..LEVELS
    OBVIOUS
  <2>3. \A n \in 1..LEVELS : << f[n - 1], n >> \in (SUBSET Page) \X (1..LEVELS)
    BY <2>1, <2>2
  <2> QED BY <2>1, <2>3
<1> HIDE DEF g
<1>6. BelowEq(f, map)
  <2> DEFINE body(n) == IF n = 0 THEN {map} ELSE step(f[n - 1])
  <2>1. \A n \in 0..LEVELS : f[n] = body(n)
    BY <1>5
  <2> HIDE DEF body
  <2>2. f = [n \in 0..LEVELS |-> body(n)]
    BY <1>5, <2>1
  <2> QED BY <2>2 DEF body, step, BelowEq
<1>7. BelowEq(below, map)
  BY <1>6 DEF Below
<1> HIDE DEF below
<1>8. below = [n \in 0..LEVELS |-> IF n = 0 THEN {map} ELSE step(below[n - 1])]
  BY <1>7 DEF BelowEq, step
<1>9. below[0] = {map} /\ \A n \in 1..LEVELS : below[n] = step(below[n - 1])
  <2> DEFINE body(n) == IF n = 0 THEN {map} ELSE step(below[n - 1])
  <2>1. below = [n \in 0..LEVELS |-> body(n)]
    BY <1>8
  <2> HIDE DEF body
  <2>2. \A n \in 0..LEVELS : below[n] = body(n)
    BY <2>1
  <2>3. 0 \in 0..LEVELS /\ \A n \in 1..LEVELS : n \in 0..LEVELS /\ n # 0
    OBVIOUS
  <2> QED BY <2>2, <2>3 DEF body
<1> QED BY <1>9 DEF step, below

(* Down to level 0 a task's map leads to tables of its own, and from there *)
(* to its own segments and heap.                                           *)
LEMMA BelowOwned ==
  ASSUME MemInv, NEW t \in Live, NEW n \in Nat, n <= LEVELS, NEW p \in Below(page_map[t])[n]
  PROVE  /\ p \in Page /\ mem.use[p].of = t
         /\ n > 0 => mem.use[p].as \in IF n < LEVELS THEN {"table"} ELSE {"segment", "heap"}
<1> USE Params
<1> DEFINE map == page_map[t]
           below == Below(map)
<1>1. mem \in Mem /\ map \in Page /\ mem.use[map].as = "map" /\ mem.use[map].of = t /\ t # NULL
  BY RootFacts, Names DEF MemInv, MemTypes, IsRoot, Live
<1>2. PICK lv : Shape(mem, lv)
  BY DEF MemInv
<1>3. below[0] = {map} /\ \A k \in 1..LEVELS : below[k] = Reached(below[k - 1])
  BY <1>1, BelowFacts
<1> DEFINE Table(k, q) == q \in Page /\ IsTable(mem, q) /\ mem.use[q].of = t /\ lv[q] = LEVELS - 1 - k
                          /\ (k > 0 => mem.use[q].as = "table")
           Leaf(q) == q \in Page /\ mem.use[q].of = t /\ mem.use[q].as \in {"segment", "heap"}
           T == {k \in Nat : k < LEVELS => \A q \in below[k] : Table(k, q)}
<1> HIDE DEF below, map
<1>4. ASSUME NEW d \in Page, NEW k \in Nat, k < LEVELS, Table(k, d), NEW q \in Reached({d})
      PROVE  IF k + 1 < LEVELS THEN Table(k + 1, q) ELSE Leaf(q)
  <2>1. PICK i \in Entry : q = Held(mem, d)[i] /\ q # NULL
    BY DEF Reached
  <2>2. q \in Page
    BY <1>1, <2>1, HeldFacts DEF Slot
  <2>3. Child(mem, lv, d, q)
    BY <1>2, <1>4, <2>1 DEF Shape, Children
  <2>4. lv[d] = LEVELS - 1 - k
    BY <1>4
  <2>5. CASE k + 1 < LEVELS
    <3>1. lv[d] > 0 /\ LEVELS - 1 - (k + 1) = LEVELS - 1 - k - 1
      BY <2>4, <2>5
    <3>2. mem.use[q].as = "table" /\ mem.use[q].of = mem.use[d].of /\ lv[q] = lv[d] - 1
      BY <2>3, <3>1 DEF Child
    <3> QED BY <1>4, <2>2, <2>4, <2>5, <3>1, <3>2 DEF IsTable
  <2>6. CASE ~(k + 1 < LEVELS)
    <3>1. lv[d] = 0 /\ mem.use[d].of # NULL
      BY <1>1, <1>4, <2>4, <2>6
    <3> QED BY <1>4, <2>2, <2>3, <2>6, <3>1 DEF Child
  <2> QED BY <2>5, <2>6
<1>5. ASSUME NEW k \in Nat, k < LEVELS, \A d \in below[k] : Table(k, d), NEW q \in below[k + 1]
      PROVE  IF k + 1 < LEVELS THEN Table(k + 1, q) ELSE Leaf(q)
  <2>1. k + 1 \in 1..LEVELS /\ k + 1 - 1 = k
    BY <1>5
  <2>2. q \in Reached(below[k])
    <3>1. below[k + 1] = Reached(below[k + 1 - 1])
      BY <1>3, <2>1
    <3>2. q \in below[k + 1]
      BY <1>5
    <3> QED BY <2>1, <3>1, <3>2
  <2>3. PICK d \in below[k] : q \in Reached({d})
    BY <2>2 DEF Reached
  <2>4. d \in Page /\ Table(k, d)
    BY <1>5
  <2> QED BY <1>4, <1>5, <2>3, <2>4
<1>6. T = Nat
  <2>1. 0 \in T
    <3>1. lv[map] = LEVELS - 1 /\ IsTable(mem, map)
      BY <1>1, <1>2 DEF Shape, TopLevel, IsTable
    <3>2. Table(0, map)
      BY <1>1, <3>1
    <3> QED BY <1>3, <3>2
  <2>2. ASSUME NEW k \in T PROVE k + 1 \in T
    <3> SUFFICES ASSUME k + 1 < LEVELS, NEW q \in below[k + 1] PROVE Table(k + 1, q)
      OBVIOUS
    <3>1. k \in Nat /\ k < LEVELS /\ \A d \in below[k] : Table(k, d)
      OBVIOUS
    <3> HIDE DEF Table, Leaf, T
    <3> QED BY <1>5, <3>1
  <2>3. T \subseteq Nat
    OBVIOUS
  <2> HIDE DEF T
  <2> QED BY <2>1, <2>2, <2>3, SetInduction
<1>7. CASE n < LEVELS
  <2>1. Table(n, p)
    BY <1>6, <1>7 DEF below, map
  <2> QED BY <1>7, <2>1
<1>8. CASE n = LEVELS
  <2>1. LEVELS - 1 \in T /\ LEVELS - 1 \in Nat /\ LEVELS - 1 + 1 = LEVELS
    BY <1>6
  <2>2. \A d \in below[LEVELS - 1] : Table(LEVELS - 1, d)
    BY <2>1
  <2>3. p \in below[LEVELS - 1 + 1]
    BY <1>8, <2>1 DEF below, map
  <2> HIDE DEF Table, T
  <2>4. Leaf(p)
    BY <1>5, <2>1, <2>2, <2>3
  <2> QED BY <1>8, <2>4
<1> QED BY <1>7, <1>8

(* What a task reaches through its lower half is its own, through tables   *)
(* of its own: vmm_map and page_map_walk_entry never link a page of        *)
(* another task, a freed page or one of the kernel into it.                *)
THEOREM ReachesOnlyItsOwn == Spec => []MappedOwned
<1>1. MemInv => MappedOwned
  <2> SUFFICES ASSUME MemInv, NEW t \in Task, S!Listed(t)
      PROVE LET below[n \in 0..LEVELS] == IF n = 0 THEN {page_map[t]} ELSE Reached(below[n - 1])
            IN \A n \in 1..LEVELS : \A p \in below[n] :
                  /\ mem.use[p].of = t
                  /\ mem.use[p].as \in IF n < LEVELS THEN {"table"} ELSE {"segment", "heap"}
    BY DEF MappedOwned
  <2>1. t \in Live
    BY DEF Live
  <2>2. \A n \in 1..LEVELS : n \in Nat /\ n <= LEVELS /\ n > 0
    BY Params
  <2>3. \A n \in 1..LEVELS : \A p \in Below(page_map[t])[n] :
           /\ mem.use[p].of = t
           /\ mem.use[p].as \in IF n < LEVELS THEN {"table"} ELSE {"segment", "heap"}
    BY <2>1, <2>2, BelowOwned
  <2> QED BY <2>3 DEF Below, BelowEq
<1> QED BY <1>1, MemoryInvariance, PTL

-----------------------------------------------------------------------------
(* Where programs stay and what malloc returns.                            *)

(* Programs are linked to pages that vmm_init's tables take: then nothing  *)
(* that malloc returns has an address a program has.  Run addr_space keeps *)
(* to it; where a program is longer, malloc can return one of its pages.   *)
ProgramsBelowTables ==
    /\ LEVELS >= 2
    /\ \A s \in Programs \cup {Shell, << >>} : End(s) <= ((Pages - 1) \div ENTRIES) + 2

(* Once vmm_init has mapped all of memory, no page that a program is       *)
(* linked to is free again, and no task is created before that.            *)
BootTables ==
    /\ created > 0 => Initialised
    /\ ~Initialised => Counted(mem, page_map[NULL])
    /\ Initialised => \A s \in Programs \cup {Shell, << >>}, u \in Nat :
                         u < End(s) => u \in Page /\ Kept(mem, u)

(* A task's map has entries for pages that pmm never gets back only; its   *)
(* program is where it was linked to, its heap is mapped to itself, and no *)
(* page is a future task's.                                                *)
MapsKept == \A t \in Live, u \in Page : Translation(mem, page_map[t], u) # NULL => Kept(mem, u)
Placed == \A t \in Live : \A s \in linked[t] :
             /\ s.vaddr \in Page /\ Kept(mem, s.vaddr)
             /\ Translation(mem, page_map[t], s.vaddr) = s.page
HeapMapped == ~halted => \A p \in Page :
                 mem.use[p].as = "heap" /\ mem.use[p].of \in Live
                    => Translation(mem, page_map[mem.use[p].of], p) = p
OfCreated == \A p \in Page : mem.use[p].of \in Task => mem.use[p].of <= created
SpaceInv == BootTables /\ MapsKept /\ Placed /\ HeapMapped /\ OfCreated

(* No such page is ever free again. *)
LEMMA StillKept ==
  ASSUME MemInv, NEW p \in Page, Kept(mem, p),
         \/ Steady
         \/ \E t, segments, map, L : TaskMade(t, segments, map, L)
         \/ \E t \in Live : TaskGone(t)
         \/ mem' = mem
  PROVE  Kept(mem', p)
<1>1. CASE Steady
  BY <1>1 DEF Steady, Allocates, Kept, Free
<1>2. ASSUME NEW t, NEW segments, NEW map, NEW L, TaskMade(t, segments, map, L) PROVE Kept(mem', p)
  BY <1>2 DEF TaskMade, Kept, Free
<1>3. ASSUME NEW t \in Live, TaskGone(t) PROVE Kept(mem', p)
  <2>1. mem.use[page_map[t]].as = "map" /\ mem.use[page_map[t]].of = t /\ t # NULL
    BY RootFacts, Names DEF IsRoot, Live
  <2>2. p # page_map[t]
    BY <2>1 DEF Kept
  <2> QED BY <1>3, <2>2 DEF TaskGone, Kept
<1> QED BY <1>1, <1>2, <1>3

(* Tasks run and are switched after vmm_init. *)
LEMMA AfterBoot ==
  ASSUME SInv, BootTables,
         \/ BootCreate \/ SysCreate \/ sched_switch \/ kmalloc
         \/ (\E b \in Page : kfree(b)) \/ MallocReturns \/ MallocFaults
  PROVE  Initialised
<1>1. created \in Nat /\ (created = 0 => ~S!LiveTaskRuns) /\ (tasking => created > 0)
  <2>1. SP!BootInv
    BY DEF SInv, SP!SchedInv
  <2> QED BY <2>1, RunFacts DEF SP!BootInv
<1>2. created > 0 \/ Initialised
  BY <1>1 DEF BootCreate, SysCreate, S!SysCreate, sched_switch, S!sched_switch, kmalloc, kfree,
     MallocReturns, MallocFaults, S!FaultInSyscall
<1> QED BY <1>2 DEF BootTables

(* What was true of the boot tables when they were complete stays true. *)
LEMMA BootKept ==
  ASSUME MemInv, BootTables, Initialised, mem'.mapped = mem.mapped,
         \/ Steady
         \/ \E t, segments, map, L : TaskMade(t, segments, map, L)
         \/ \E t \in Live : TaskGone(t)
         \/ mem' = mem
  PROVE  BootTables'
<1>1. Initialised'
  BY DEF Initialised
<1>2. \A p \in Page : Kept(mem, p) => Kept(mem', p)
  BY StillKept
<1>3. \A s \in Programs \cup {Shell, << >>}, u \in Nat : u < End(s) => u \in Page /\ Kept(mem', u)
  BY <1>2 DEF BootTables
<1> QED BY <1>1, <1>3 DEF BootTables

(* What vmm_init's loop keeps. *)
LEMMA BootSpace ==
  ASSUME ProgramsBelowTables, SInv, MemInv, SpaceInv, vmm_init
  PROVE  SpaceInv'
<1> DEFINE root == page_map[NULL]
           v == mem.mapped
           m1 == vmm_map(mem, root, v, v, NULL)
<1>1. ~Initialised /\ created = 0 /\ Live = {} /\ Counted(mem, root)
  <2>1. ~Initialised /\ created = 0
    <3>1. mem.mapped < Pages /\ mem.mapped \in 0..Pages /\ Pages \in Nat
      BY VmmInitSteady, Params DEF MemInv, MemTypes, Mem
    <3>2. created \in Nat
      BY RunFacts
    <3> QED BY <3>1, <3>2 DEF Initialised, SpaceInv, BootTables
  <2> QED BY <2>1, RunFacts DEF SpaceInv, BootTables
<1>2. Steady /\ mem'.mapped = v + 1 /\ v < Pages
  BY VmmInitSteady
<1>3. mem' = [m1 EXCEPT !.mapped = @ + 1]
  BY DEF vmm_init
<1>4. ~m1.full
  <2>1. m1 \in Mem
    <3>1. mem \in Mem /\ v \in 0..Pages
      BY DEF MemInv, MemTypes, Mem
    <3>2. root \in Page /\ NULL \in Owner
      BY RootFacts DEF IsRoot, Owner
    <3>3. v \in Page /\ v \in Nat
      BY <1>2, <3>1, Params DEF Page
    <3> QED BY <3>1, <3>2, <3>3, VmmMapType DEF Slot
  <2> HIDE DEF m1
  <2>2. mem'.full = m1.full
    BY <1>3, <2>1 DEF Mem
  <2> QED BY <1>2, <2>2 DEF Steady
<1>5. LEVELS >= 2 /\ mem \in Mem /\ IsRoot(mem, root) /\ mem.use[root].of = NULL /\ v < Pages
  BY <1>2, RootFacts DEF ProgramsBelowTables, MemInv, MemTypes
<1>6. PICK lv : Shape(mem, lv)
  BY DEF MemInv
<1>7. m1 = vmm_map(mem, root, mem.mapped, mem.mapped, NULL)
  OBVIOUS
<1> HIDE DEF m1, root
<1>8. mem' \in Mem /\ Counted(mem', root)
  BY ONLY <1>1, <1>3, <1>4, <1>5, <1>6, <1>7, CountedStep DEF v
<1>9. Initialised' => \A s \in Programs \cup {Shell, << >>}, u \in Nat : u < End(s) => u \in Page /\ Kept(mem', u)
  <2> SUFFICES ASSUME mem'.mapped = Pages, NEW s \in Programs \cup {Shell, << >>}, NEW u \in Nat, u < End(s)
               PROVE  u \in Page /\ Kept(mem', u)
    BY DEF Initialised
  <2>1. Pages - 1 \in Nat /\ Pages - 1 < mem'.mapped /\ Pages \in Nat
    BY Params
  <2>2. Shift(Pages - 1, 1) + 2 <= mem'.pmm_bitmap_index
    BY <1>8, <2>1 DEF Counted
  <2>3. Shift(Pages - 1, 1) = (Pages - 1) \div ENTRIES /\ Shift(Pages - 1, 1) \in Nat
    <3>1. 1 \in 1..LEVELS /\ 1 \in 0..LEVELS /\ 1 - 1 = 0
      BY <1>5, Params
    <3> QED BY <2>1, <3>1, ShiftFacts
  <2>4. End(s) <= Shift(Pages - 1, 1) + 2
    BY <2>3 DEF ProgramsBelowTables
  <2>5. End(s) \in Nat
    <3>1. << >> \in Seq(Nat \ {0})
      OBVIOUS
    <3>2. \A z \in Programs \cup {Shell} : z \in Seq(Nat \ {0})
      BY AddrSpaceAssumption DEF AddrSpaceAssumption
    <3>3. s \in Seq(Nat \ {0})
      BY <3>1, <3>2
    <3>4. Len(s) \in Nat
      BY <3>3
    <3> QED BY <3>3, <3>4, EndRun
  <2>6. mem'.pmm_bitmap_index \in 0..Pages
    BY <1>8 DEF Mem
  <2>7. u < mem'.pmm_bitmap_index /\ u \in Page
    BY <2>1, <2>2, <2>3, <2>4, <2>5, <2>6 DEF Page
  <2>8. mem'.use[u] # Free
    BY <1>8, <2>7 DEF Counted, Dense
  <2> QED BY <1>8, <2>7, <2>8 DEF Counted
<1>10. Live' = {} /\ created' = 0 /\ page_map' = page_map
  BY <1>1, <1>2 DEF Steady
<1>11. BootTables'
  BY <1>8, <1>9, <1>10 DEF BootTables, root
<1>12. OfCreated'
  <2>1. NULL \notin Task
    BY Names
  <2> QED BY <1>1, <1>2, <1>10, <2>1 DEF Steady, Allocates, OfCreated, SpaceInv
<1>13. MapsKept' /\ Placed' /\ HeapMapped'
  BY <1>10 DEF MapsKept, Placed, HeapMapped
<1> QED BY <1>11, <1>12, <1>13 DEF SpaceInv

(* Addresses in memory are in reach of the tables. *)
LEMMA InMemory == \A u \in Page : u \in Nat /\ InReach(u)
<1>1. \A u \in Page : u \in Nat
  BY Params DEF Page
<1> QED BY <1>1, PagesInRange DEF InReach

(* A block for the kernel or for a task takes free pages, and so neither a *)
(* program's place nor a page of another block.                            *)
LEMMA BlockSpace ==
  ASSUME SInv, MemInv, SpaceInv, Steady, Initialised, NEW o \in Live \cup {NULL}, NEW kind \in {"kheap", "heap"},
         BlockTaken(o, kind), cpu \in Live, halted' = halted \/ halted',
         ~halted' => kind = "kheap" \/ o = cpu
  PROVE  SpaceInv'
<1> DEFINE a == Next_(mem, BLOCK)
           block == a..(a + BLOCK - 1)
<1>1. Live' = Live /\ created' = created /\ page_map' = page_map /\ linked' = linked
  BY DEF Steady
<1>2. /\ mem'.mapped = mem.mapped
      /\ \A p \in block : p \in Page /\ mem.use[p] = Free /\ mem'.use[p].as = kind /\ mem'.use[p].of = cpu
      /\ \A r \in Page, u \in Nat : IsRoot(mem, r) /\ InReach(u) =>
            Translation(mem', r, u) = IF r = page_map[o] /\ u \in block THEN u ELSE Translation(mem, r, u)
  BY DEF BlockTaken
<1> HIDE DEF a, block
<1>3. \A p \in Page : Kept(mem, p) => Kept(mem', p) /\ p \notin block
  BY <1>2, StillKept DEF Kept, Free
<1>4. \A t \in Live : /\ page_map[t] \in Page /\ IsRoot(mem, page_map[t])
                      /\ page_map[t] = page_map[o] <=> t = o
  BY RootFacts DEF IsRoot
<1>5. \A t \in Live, u \in Page :
         Translation(mem', page_map[t], u) = IF t = o /\ u \in block THEN u ELSE Translation(mem, page_map[t], u)
  BY <1>2, <1>4, InMemory
<1>6. BootTables'
  BY <1>2, BootKept DEF SpaceInv
<1>7. MapsKept'
  <2> SUFFICES ASSUME NEW t \in Live, NEW u \in Page, Translation(mem', page_map[t], u) # NULL
               PROVE  Kept(mem', u)
    BY <1>1 DEF MapsKept
  <2>1. CASE u \in block
    BY <1>2, <2>1 DEF Kept
  <2>2. CASE u \notin block
    BY <1>3, <1>5, <2>2 DEF SpaceInv, MapsKept
  <2> QED BY <2>1, <2>2
<1>8. Placed'
  <2> SUFFICES ASSUME NEW t \in Live, NEW s \in linked[t]
               PROVE  /\ s.vaddr \in Page /\ Kept(mem', s.vaddr)
                      /\ Translation(mem', page_map[t], s.vaddr) = s.page
    BY <1>1 DEF Placed
  <2>1. /\ s.vaddr \in Page /\ Kept(mem, s.vaddr)
        /\ Translation(mem, page_map[t], s.vaddr) = s.page
    BY DEF SpaceInv, Placed
  <2> QED BY <1>3, <1>5, <2>1
<1>9. HeapMapped'
  <2> SUFFICES ASSUME ~halted', NEW p \in Page, mem'.use[p].as = "heap", mem'.use[p].of \in Live
               PROVE  Translation(mem', page_map[mem'.use[p].of], p) = p
    BY <1>1 DEF HeapMapped
  <2>1. CASE p \in block
    <3>1. kind = "heap" /\ mem'.use[p].of = cpu
      BY <1>2, <2>1
    <3> QED BY <1>5, <2>1, <3>1
  <2>2. CASE p \notin block
    <3>1. mem'.use[p] = mem.use[p]
      BY <2>2 DEF BlockTaken, block, a
    <3>2. ~halted
      OBVIOUS
    <3>3. Translation(mem, page_map[mem.use[p].of], p) = p
      BY <3>1, <3>2 DEF SpaceInv, HeapMapped
    <3> QED BY <1>5, <2>2, <3>1, <3>3
  <2> QED BY <2>1, <2>2
<1>10. OfCreated'
  <2> SUFFICES ASSUME NEW p \in Page, mem'.use[p].of \in Task PROVE mem'.use[p].of <= created
    BY <1>1 DEF OfCreated
  <2>1. CASE mem'.use[p].of = mem.use[p].of
    BY <2>1 DEF SpaceInv, OfCreated
  <2>2. CASE mem'.use[p].of \in Live
    BY <2>2, RunFacts
  <2>3. NULL \notin Task
    BY Names
  <2> QED BY <2>1, <2>2, <2>3 DEF Steady, Allocates
<1> QED BY <1>6, <1>7, <1>8, <1>9, <1>10 DEF SpaceInv

(* While CPU 1 has overwritten vmm_current_page_map, malloc does not       *)
(* return: the block's header is not mapped in the task's own map.         *)
LEMMA HeaderOfOwn ==
  ASSUME SInv, MemInv, SpaceInv, MallocReturns
  PROVE  vmm_current_page_map = cpu
<1> SUFFICES ASSUME vmm_current_page_map # cpu PROVE FALSE
  OBVIOUS
<1> DEFINE a == Next_(mem, BLOCK)
           own == page_map[cpu]
<1>1. /\ BlockTaken(vmm_current_page_map, "heap") /\ cpu \in Live /\ cpu = cr3 /\ HeaderMapped
      /\ vmm_current_page_map = NULL
  BY MallocFacts
<1>2. own \in Page /\ IsRoot(mem, own) /\ own # page_map[NULL]
  <2>1. cpu # NULL
    BY <1>1, Names DEF Live
  <2>2. NULL \in Live \cup {NULL} /\ cpu \in Live \cup {NULL}
    BY <1>1
  <2> QED BY <2>1, <2>2, RootFacts DEF IsRoot
<1>3. a \in Page /\ mem.use[a] = Free
  <2>1. a \in Page /\ a \in Nat
    BY <1>1, InMemory DEF BlockTaken
  <2>2. a \in a..(a + BLOCK - 1)
    BY <2>1, Params
  <2> QED BY <1>1, <2>1, <2>2 DEF BlockTaken
<1>4. Translation(mem', own, a) = Translation(mem, own, a)
  <2>1. \A r \in Page, u \in Nat : IsRoot(mem, r) /\ InReach(u) /\ r # page_map[NULL] =>
           Translation(mem', r, u) = Translation(mem, r, u)
    BY <1>1 DEF BlockTaken
  <2> QED BY <1>2, <1>3, <2>1, InMemory
<1>5. Translation(mem', own, a) # NULL
  BY <1>1 DEF HeaderMapped
<1>6. Kept(mem, a)
  BY <1>1, <1>3, <1>4, <1>5 DEF SpaceInv, MapsKept
<1> QED BY <1>3, <1>6 DEF Kept, Free

(* A task that is created. *)
LEMMA CreateSpace ==
  ASSUME ProgramsBelowTables, SInv, MemInv, SpaceInv, Initialised, BootCreate \/ SysCreate
  PROVE  SpaceInv'
<1> DEFINE t == created + 1
<1>1. NewTask /\ ap_pending' = ap_pending
  BY CreateFacts
<1>0. PICK segments \in Programs \cup {Shell, << >>} : \E map, L : TaskMade(t, segments, map, L)
  BY CreateFacts
<1>2. PICK map, L : TaskMade(t, segments, map, L)
  BY <1>0
<1>3. /\ page_map'[t] = map /\ linked'[t] = L
      /\ \A o \in Live \cup {NULL} : page_map'[o] = page_map[o] /\ page_map[o] # map
      /\ \A o \in Live : linked'[o] = linked[o]
  BY <1>1, <1>2, CreateKeeps
<1>4. /\ t \in Task /\ t \notin Live /\ Live' = Live \cup {t} /\ created' = t /\ halted' = halted
      /\ t # NULL /\ created \in Nat
  BY <1>1, Names, RunFacts DEF NewTask
<1>5. \A u \in Nat : u < End(segments) => u \in Page /\ Kept(mem, u)
  BY DEF SpaceInv, BootTables
<1>6. \A u \in Nat : u < End(segments) => InReach(u)
  BY <1>5, InMemory
<1>7. \A p \in Page : Kept(mem, p) => Kept(mem', p)
  BY <1>2, StillKept
<1>8. /\ \A s \in L : s.vaddr < End(segments) /\ s.vaddr \in Nat /\ Translation(mem', map, s.vaddr) = s.page
      /\ \A u \in Nat : InReach(u) /\ (\A s \in L : s.vaddr # u) => Translation(mem', map, u) = NULL
  BY <1>2, <1>6 DEF TaskMade
<1>9. \A o \in Live, u \in Page : Translation(mem', page_map[o], u) = Translation(mem, page_map[o], u)
  <2>1. \A r \in Page, u \in Nat : IsRoot(mem, r) /\ r # page_map[NULL] /\ InReach(u) =>
           Translation(mem', r, u) = Translation(mem, r, u)
    BY <1>2, <1>6 DEF TaskMade
  <2>2. \A o \in Live : page_map[o] \in Page /\ IsRoot(mem, page_map[o]) /\ page_map[o] # page_map[NULL]
    <3>1. \A o \in Live : o # NULL /\ o \in Live \cup {NULL}
      BY Names DEF Live
    <3>2. NULL \in Live \cup {NULL}
      OBVIOUS
    <3> QED BY <3>1, <3>2, RootFacts DEF IsRoot
  <2> QED BY <2>1, <2>2, InMemory
<1> HIDE DEF t
<1>10. BootTables'
  <2>1. mem'.mapped = mem.mapped
    BY <1>2 DEF TaskMade
  <2> QED BY <1>2, <2>1, BootKept DEF SpaceInv
<1>11. MapsKept'
  <2> SUFFICES ASSUME NEW o \in Live', NEW u \in Page, Translation(mem', page_map'[o], u) # NULL
               PROVE  Kept(mem', u)
    BY DEF MapsKept
  <2>1. CASE o = t
    <3>1. PICK s \in L : s.vaddr = u
      BY <1>3, <1>8, <2>1, InMemory
    <3>2. u < End(segments) /\ u \in Nat
      BY <1>8, <3>1
    <3> QED BY <1>5, <1>7, <3>2
  <2>2. CASE o \in Live
    BY <1>3, <1>7, <1>9, <2>2 DEF SpaceInv, MapsKept
  <2> QED BY <1>4, <2>1, <2>2
<1>12. Placed'
  <2> SUFFICES ASSUME NEW o \in Live', NEW s \in linked'[o]
               PROVE  /\ s.vaddr \in Page /\ Kept(mem', s.vaddr)
                      /\ Translation(mem', page_map'[o], s.vaddr) = s.page
    BY DEF Placed
  <2>1. CASE o = t
    BY <1>3, <1>5, <1>7, <1>8, <2>1
  <2>2. CASE o \in Live
    <3>1. s \in linked[o] /\ page_map'[o] = page_map[o]
      BY <1>3, <2>2
    <3>2. /\ s.vaddr \in Page /\ Kept(mem, s.vaddr)
          /\ Translation(mem, page_map[o], s.vaddr) = s.page
      BY <2>2, <3>1 DEF SpaceInv, Placed
    <3> QED BY <1>7, <1>9, <2>2, <3>1, <3>2
  <2> QED BY <1>4, <2>1, <2>2
<1>13. \A p \in Page : \/ mem'.use[p] = mem.use[p]
                       \/ mem'.use[p].as # "heap" /\ mem'.use[p].of \in {t, NULL}
  BY <1>2 DEF TaskMade
<1>14. HeapMapped'
  <2> SUFFICES ASSUME ~halted', NEW p \in Page, mem'.use[p].as = "heap", mem'.use[p].of \in Live'
               PROVE  Translation(mem', page_map'[mem'.use[p].of], p) = p
    BY DEF HeapMapped
  <2> DEFINE o == mem.use[p].of
  <2>1. mem'.use[p] = mem.use[p]
    BY <1>13
  <2>2. o \in Live
    <3>1. o # t
      BY <1>4, <2>1 DEF SpaceInv, OfCreated, t
    <3> QED BY <1>4, <2>1, <3>1
  <2>3. Translation(mem, page_map[o], p) = p
    BY <1>4, <2>1, <2>2 DEF SpaceInv, HeapMapped
  <2> QED BY <1>3, <1>9, <2>1, <2>2, <2>3
<1>15. OfCreated'
  <2> SUFFICES ASSUME NEW p \in Page, mem'.use[p].of \in Task PROVE mem'.use[p].of <= created'
    BY DEF OfCreated
  <2>1. CASE mem'.use[p] = mem.use[p]
    <3>1. mem'.use[p].of <= created /\ mem'.use[p].of \in Nat
      BY <2>1, Names DEF SpaceInv, OfCreated
    <3> QED BY <1>4, <3>1 DEF t
  <2>2. CASE mem'.use[p].of = t
    BY <1>4, <2>2 DEF t
  <2>3. NULL \notin Task
    BY Names
  <2> QED BY <1>13, <2>1, <2>2, <2>3
<1> QED BY <1>10, <1>11, <1>12, <1>14, <1>15 DEF SpaceInv

(* A step that takes nothing away from the tasks that remain. *)
LEMMA LessSpace ==
  ASSUME MemInv, SpaceInv, MemInv', Initialised, mem'.mapped = mem.mapped,
         Steady \/ (\E t \in Live : TaskGone(t)) \/ mem' = mem,
         Live' \subseteq Live, UNCHANGED << page_map, linked, created >>, halted' = halted \/ halted',
         \A t \in Live', u \in Page : Translation(mem', page_map[t], u) = Translation(mem, page_map[t], u),
         \A p \in Page : \/ mem'.use[p].as = "free" /\ mem'.use[p].of = NULL
                         \/ mem'.use[p].as = mem.use[p].as /\ mem'.use[p].of = mem.use[p].of
  PROVE  SpaceInv'
<1>1. \A p \in Page : Kept(mem, p) => Kept(mem', p)
  BY StillKept
<1>2. BootTables'
  BY BootKept DEF SpaceInv
<1>3. MapsKept'
  BY <1>1 DEF SpaceInv, MapsKept
<1>4. Placed'
  <2> SUFFICES ASSUME NEW t \in Live', NEW s \in linked[t]
               PROVE  /\ s.vaddr \in Page /\ Kept(mem', s.vaddr)
                      /\ Translation(mem', page_map[t], s.vaddr) = s.page
    BY DEF Placed
  <2>1. /\ s.vaddr \in Page /\ Kept(mem, s.vaddr)
        /\ Translation(mem, page_map[t], s.vaddr) = s.page
    BY DEF SpaceInv, Placed
  <2> QED BY <1>1, <2>1
<1>5. HeapMapped'
  <2> SUFFICES ASSUME ~halted', NEW p \in Page, mem'.use[p].as = "heap", mem'.use[p].of \in Live'
               PROVE  Translation(mem', page_map[mem'.use[p].of], p) = p
    BY DEF HeapMapped
  <2>1. mem.use[p].as = "heap" /\ mem'.use[p].of = mem.use[p].of /\ mem.use[p].of \in Live /\ ~halted
    OBVIOUS
  <2> QED BY <2>1 DEF SpaceInv, HeapMapped
<1>6. OfCreated'
  <2>1. NULL \notin Task
    BY Names
  <2> QED BY <2>1 DEF SpaceInv, OfCreated
<1> QED BY <1>2, <1>3, <1>4, <1>5, <1>6 DEF SpaceInv

(* sched_switch. *)
LEMMA SwitchSpace ==
  ASSUME SInv, MemInv, SpaceInv, Initialised, sched_switch
  PROVE  SpaceInv'
<1>1. /\ MemInv' /\ UNCHANGED << page_map, linked, created, halted >>
      /\ (Live' = Live /\ mem' = mem) \/ \E t \in Live : TaskGone(t)
  BY SwitchKeeps
<1>2. CASE Live' = Live /\ mem' = mem
  BY <1>1, <1>2, LessSpace
<1>3. ASSUME NEW t \in Live, TaskGone(t) PROVE SpaceInv'
  <2>1. Live' \subseteq Live /\ mem'.mapped = mem.mapped
    BY <1>3 DEF TaskGone
  <2>2. \A o \in Live' : page_map[o] \in Page /\ IsRoot(mem, page_map[o]) /\ page_map[o] # page_map[t]
    BY <1>3, RootFacts DEF TaskGone, IsRoot
  <2>3. \A o \in Live', u \in Page : Translation(mem', page_map[o], u) = Translation(mem, page_map[o], u)
    BY <1>3, <2>2, InMemory DEF TaskGone
  <2>4. \A p \in Page : \/ mem'.use[p].as = "free" /\ mem'.use[p].of = NULL
                        \/ mem'.use[p].as = mem.use[p].as /\ mem'.use[p].of = mem.use[p].of
    BY <1>3 DEF TaskGone
  <2> QED BY <1>1, <1>3, <2>1, <2>3, <2>4, LessSpace
<1> QED BY <1>1, <1>2, <1>3

(* kfree and free. *)
LEMMA FreeSpace ==
  ASSUME SInv, MemInv, SpaceInv, Initialised, NEW b \in Page, kfree(b)
  PROVE  SpaceInv'
<1>1. /\ Steady /\ ap_pending' = ap_pending /\ mem'.mapped = mem.mapped
      /\ \A p : Held(mem', p) = Held(mem, p)
      /\ \A p \in Page : mem'.use[p].as = mem.use[p].as /\ mem'.use[p].of = mem.use[p].of
  BY FreeSteady
<1>2. MemInv'
  BY <1>1, SteadyKeeps DEF MemInv, MemTypes
<1>3. Live' \subseteq Live /\ UNCHANGED << page_map, linked, created, halted >>
  BY <1>1 DEF Steady, kfree, schedVars
<1>4. \A t \in Live', u \in Page : Translation(mem', page_map[t], u) = Translation(mem, page_map[t], u)
  <2> SUFFICES ASSUME NEW t \in Live, NEW u \in Page
               PROVE  Translation(mem', page_map[t], u) = Translation(mem, page_map[t], u)
    BY <1>3
  <2> DEFINE r == page_map[t]
  <2>1. mem \in Mem /\ mem' \in Mem /\ r \in Page /\ r \in Slot /\ IsRoot(mem, r) /\ u \in Nat
    BY <1>1, InMemory, RootFacts DEF MemInv, MemTypes, Steady, IsRoot, Slot
  <2>2. PICK lv : Shape(mem, lv)
    BY DEF MemInv
  <2> HIDE DEF r
  <2>3. \A k \in 0..LEVELS : Path(mem', r, u)[k] = Path(mem, r, u)[k]
    BY <1>1, <2>1, <2>2, SamePaths
  <2>4. Translation(mem', r, u) = Path(mem', r, u)[LEVELS] /\ Translation(mem, r, u) = Path(mem, r, u)[LEVELS]
    BY <2>1, PathFacts
  <2>5. LEVELS \in 0..LEVELS
    BY Params
  <2> QED BY <2>3, <2>4, <2>5 DEF r
<1> QED BY <1>1, <1>2, <1>3, <1>4, LessSpace

(* Every step keeps programs and blocks where they are. *)
LEMMA SpaceStep ==
  ASSUME ProgramsBelowTables, SInv, MemInv, SpaceInv, [Next]_vars
  PROVE  SpaceInv'
<1>1. CASE vmm_init
  BY <1>1, BootSpace
<1>2. CASE BootCreate \/ SysCreate
  BY <1>2, AfterBoot, CreateSpace DEF SpaceInv
<1>3. CASE sched_switch
  BY <1>3, AfterBoot, SwitchSpace DEF SpaceInv
<1>4. CASE kmalloc
  <2>1. Steady /\ BlockTaken(NULL, "kheap") /\ cpu \in Live /\ halted' = halted
    BY <1>4, KmallocFacts
  <2>2. Initialised
    BY <1>4, AfterBoot DEF SpaceInv
  <2> QED BY <2>1, <2>2, BlockSpace
<1>5. ASSUME NEW b \in Page, kfree(b) PROVE SpaceInv'
  BY <1>5, AfterBoot, FreeSpace DEF SpaceInv
<1>6. CASE MallocReturns \/ MallocFaults
  <2>1. /\ Steady /\ BlockTaken(vmm_current_page_map, "heap") /\ cpu \in Live
        /\ vmm_current_page_map \in Live \cup {NULL}
        /\ MallocReturns => halted' = halted
        /\ MallocFaults => halted'
    BY <1>6, MallocFacts
  <2>2. Initialised
    BY <1>6, AfterBoot DEF SpaceInv
  <2>3. ~halted' => vmm_current_page_map = cpu
    BY <1>6, <2>1, HeaderOfOwn
  <2>4. halted' = halted \/ halted'
    BY <1>6, <2>1
  <2> QED BY <2>1, <2>2, <2>3, <2>4, BlockSpace
<1>7. CASE smp_init_core \/ SchedOnly \/ UNCHANGED vars
  <2>1. UNCHANGED << mem, page_map, linked >> /\ Live' = Live /\ created' = created
        /\ (halted' = halted \/ halted')
    BY <1>7, IdleFacts
  <2>2. BootTables'
    BY <2>1 DEF SpaceInv, BootTables, Initialised
  <2>3. MapsKept' /\ Placed' /\ HeapMapped' /\ OfCreated'
    BY <2>1 DEF SpaceInv, MapsKept, Placed, HeapMapped, OfCreated
  <2> QED BY <2>2, <2>3 DEF SpaceInv
<1> QED BY <1>1, <1>2, <1>3, <1>4, <1>5, <1>6, <1>7 DEF Next

(* The boot memory has counted nothing yet. *)
LEMMA SpaceInit ==
  ASSUME ProgramsBelowTables, Init
  PROVE  SpaceInv
<1> DEFINE root == page_map[NULL]
<1>1. /\ MemInv /\ Live = {} /\ mem.mapped = 0 /\ mem.pmm_bitmap_index = 1
      /\ root = 0 /\ Held(mem, root) = Zero
      /\ \A p \in Page : (p = 0 /\ mem.use[p].as = "map" /\ mem.use[p].of = NULL) \/ mem.use[p] = Free
  BY InitMem
<1>2. created = 0 /\ SInv
  BY SchedInit DEF Init, S!Init
<1>3. ~Initialised
  BY <1>1, Params DEF Initialised
<1>4. \A u \in Nat : Path(mem, root, u)[LEVELS - 1] = NULL
  <2> SUFFICES ASSUME NEW u \in Nat PROVE Path(mem, root, u)[LEVELS - 1] = NULL
    OBVIOUS
  <2> DEFINE path == Path(mem, root, u)
             T == {n \in Nat : n + 1 <= LEVELS => path[n + 1] = NULL}
  <2>1. mem \in Mem /\ root \in Slot
    BY <1>1, Params DEF MemInv, MemTypes, Slot, Page
  <2>2. /\ path[0] = root
        /\ \A n \in 1..LEVELS : path[n] = IF path[n - 1] = NULL THEN NULL
                                          ELSE Held(mem, path[n - 1])[Index(u, LEVELS - n)]
    BY <2>1, PathFacts
  <2> HIDE DEF path
  <2>3. path[1] = NULL
    <3>1. 1 \in 1..LEVELS /\ 1 - 1 = 0 /\ LEVELS - 1 \in 0..LEVELS
      BY Params
    <3>2. path[1] = IF path[0] = NULL THEN NULL ELSE Held(mem, path[0])[Index(u, LEVELS - 1)]
      BY <2>2, <3>1
    <3>3. Index(u, LEVELS - 1) \in Entry
      BY <3>1, IndexFacts
    <3> QED BY <1>1, <2>2, <3>2, <3>3 DEF Zero
  <2>4. T = Nat
    <3>1. 0 \in T
      BY <2>3
    <3>2. ASSUME NEW n \in T PROVE n + 1 \in T
      <4> SUFFICES ASSUME n + 1 + 1 <= LEVELS PROVE path[n + 1 + 1] = NULL
        OBVIOUS
      <4>1. n \in Nat /\ path[n + 1] = NULL /\ n + 1 + 1 \in 1..LEVELS /\ n + 1 + 1 - 1 = n + 1
        BY Params
      <4> QED BY <2>2, <4>1
    <3>3. T \subseteq Nat
      OBVIOUS
    <3> HIDE DEF T
    <3> QED BY <3>1, <3>2, <3>3, SetInduction
  <2>5. LEVELS - 2 \in Nat /\ LEVELS - 2 + 1 = LEVELS - 1 /\ LEVELS - 1 <= LEVELS
    <3>1. LEVELS >= 2 /\ LEVELS \in Nat
      BY Params DEF ProgramsBelowTables
    <3> QED BY <3>1
  <2>6. LEVELS - 2 \in T
    BY <2>4, <2>5
  <2> QED BY <2>5, <2>6 DEF path
<1>5. Counted(mem, root)
  <2>1. Dense(mem)
    <3>1. \A q \in Page : q < 1 => q = 0
      BY Params DEF Page
    <3>2. 0 \in Page
      BY Params DEF Page
    <3>3. mem.use[0] # Free
      BY <1>1, <3>2, RootFacts DEF IsRoot, Free
    <3> QED BY <1>1, <3>1, <3>3 DEF Dense
  <2>2. \A p \in Page : mem.use[p] = Free \/ Kept(mem, p)
    BY <1>1 DEF Kept
  <2>3. \A p \in Nat : p < mem.mapped => Shift(p, 1) + 2 <= mem.pmm_bitmap_index
    BY <1>1
  <2> HIDE DEF root
  <2> QED BY <1>1, <1>4, <2>1, <2>2, <2>3 DEF Counted
<1>6. MapsKept /\ Placed /\ HeapMapped
  BY <1>1 DEF MapsKept, Placed, HeapMapped
<1>7. OfCreated
  <2>1. \A p \in Page : mem.use[p].of = NULL
    BY <1>1 DEF Free
  <2> QED BY <2>1, Names DEF OfCreated
<1> QED BY <1>2, <1>3, <1>5, <1>6, <1>7 DEF SpaceInv, BootTables

(* The invariants hold in every state, where programs lie below vmm_init's *)
(* tables.                                                                 *)
THEOREM SpaceInvariance ==
  ASSUME ProgramsBelowTables
  PROVE  Spec => [](SInv /\ MemInv /\ SpaceInv)
<1>1. Init => SInv /\ MemInv /\ SpaceInv
  BY SchedInit, InitMem, SpaceInit DEF Init
<1>2. SInv /\ MemInv /\ SpaceInv /\ [Next]_vars => (SInv /\ MemInv /\ SpaceInv)'
  BY SchedStep, MemStep, SpaceStep
<1> QED BY <1>1, <1>2, PTL DEF Spec

(* No mapping that elf_exec, malloc, kmalloc or the creation or removal of *)
(* another task makes ever takes a program's segment from the address that *)
(* it was linked to.                                                       *)
THEOREM ProgramsStay ==
  ASSUME ProgramsBelowTables
  PROVE  Spec => []ProgramStays
<1>1. SpaceInv => ProgramStays
  BY DEF SpaceInv, Placed, ProgramStays, Live
<1> QED BY <1>1, SpaceInvariance, PTL

(* What malloc returned to a task is mapped in that task's address space   *)
(* for as long as CPU 0 runs, whenever CPU 1 overwrites                    *)
(* vmm_current_page_map: where it misleads vmm_alloc, malloc faults.       *)
THEOREM MallocIsMapped ==
  ASSUME ProgramsBelowTables
  PROVE  Spec => []MallocMapped
<1>1. SInv /\ SpaceInv => MallocMapped
  <2> SUFFICES ASSUME SInv, SpaceInv, ~halted, NEW p \in Page,
                      mem.use[p].as = "heap", S!Listed(mem.use[p].of)
               PROVE  Translation(mem, page_map[mem.use[p].of], p) = p
    BY DEF MallocMapped, MallocInSpace
  <2>1. mem.use[p].of \in Task
    <3>1. SP!TypeOK /\ SP!ListInv
      BY DEF SInv, SP!SchedInv
    <3>2. sched_tid \in 0..MaxCreated /\ MaxCreated \in Nat
      BY <3>1, Names DEF SP!TypeOK, S!SchedAssumption
    <3>3. \A i \in 0..(sched_tid - 1) : i \in 0..MaxCreated /\ i < sched_tid
      BY <3>2
    <3>4. \A i \in 0..(sched_tid - 1) : sched_list[i] \in Task
      BY <3>1, <3>3, Names DEF SP!TypeOK, SP!ListInv
    <3> QED BY <3>4 DEF S!Listed
  <2> QED BY <2>1 DEF SpaceInv, HeapMapped, Live
<1> QED BY <1>1, SpaceInvariance, PTL
=============================================================================
