--------------------------- MODULE TerminalProofs ----------------------------
(***************************************************************************)
(* Proofs about the terminal, for every size of the screen, every font and *)
(* any text: what its parts look like, that the queue of the backend fits, *)
(* that colours and scroll region are kept, that a flush shows the text,   *)
(* and that the system's own output appears as on a plain console.         *)
(***************************************************************************)
EXTENDS Terminal, FiniteSetTheorems, WellFoundedInduction, TLAPS

(* A set of naturals that is not empty has a least member.                 *)
LEMMA Least == ASSUME NEW T, T \subseteq Nat, T # {}
               PROVE  \E n \in T : \A k \in T : n <= k
<1> DEFINE I == {0..n : n \in T}
<1>1. \A n \in T : IsFiniteSet(0..n)
  BY FS_Interval
<1>2. I \subseteq FiniteSubsetsOf(Nat) /\ I # {}
  <2>1. \A n \in T : 0..n \in SUBSET Nat
    OBVIOUS
  <2>2. I # {}
    OBVIOUS
  <2> QED BY <1>1, <2>1, <2>2 DEF FiniteSubsetsOf
<1>3. IsWellFoundedOn(StrictSubsetOrdering(Nat), FiniteSubsetsOf(Nat))
  BY FS_StrictSubsetOrderingWellFounded
<1>4. PICK J \in I : \A y \in I : ~(<<y, J>> \in StrictSubsetOrdering(Nat))
  <2> HIDE DEF I
  <2> QED BY <1>2, <1>3, WFMin
<1>5. PICK n \in T : J = 0..n
  BY <1>4
<1>6. \A k \in T : n <= k
  <2> SUFFICES ASSUME NEW k \in T, k < n PROVE FALSE
    OBVIOUS
  <2>1. 0..k \in I /\ (0..k) \subseteq (0..n) /\ 0..k # 0..n
    BY <1>5
  <2>2. <<0..k, J>> \in StrictSubsetOrdering(Nat)
    BY <2>1, <1>5 DEF StrictSubsetOrdering
  <2> QED BY <2>1, <2>2, <1>4
<1> QED BY <1>6

(* Induction over the naturals, by the set of those it reached.            *)
LEMMA SetInduction == ASSUME NEW T, T \subseteq Nat, 0 \in T, \A n \in T : n + 1 \in T
                      PROVE  T = Nat
<1> SUFFICES ASSUME Nat \ T # {} PROVE FALSE
  OBVIOUS
<1>1. PICK n \in Nat \ T : \A k \in Nat \ T : n <= k
  <2> HIDE DEF Nat
  <2>1. Nat \ T \subseteq Nat OBVIOUS
  <2> QED BY <2>1, Least
<1>2. n - 1 \in Nat
  BY <1>1
<1>3. n - 1 \in T
  BY <1>1, <1>2
<1> QED BY <1>1, <1>3

(* Steps of an iteration over S, and the sequence of its results. *)
Steps(S_, N) == [S_ \X (1..N) -> S_]
IsRun(f, S_, s0, N, g) ==
    /\ f \in [0..N -> S_] /\ f[0] = s0
    /\ \A n \in 1..N : f[n] = g[<< f[n - 1], n >>]

(* A definition by recursion over 0..N has a solution. *)
LEMMA Iteration ==
  ASSUME NEW S_, NEW s0 \in S_, NEW N \in Nat, NEW g \in Steps(S_, N)
  PROVE  \E f : IsRun(f, S_, s0, N, g)
<1> USE DEF Steps
<1> DEFINE P(f, k) == /\ f \in [0..k -> S_] /\ f[0] = s0 
                      /\ \A n \in 1..k : f[n] = g[<<f[n - 1], n>>]
           T == {k \in Nat : k <= N => \E f \in [0..k -> S_] : P(f, k)}
<1>1. 0 \in T
  <2> [n \in 0..0 |-> s0] \in [0..0 -> S_]
    OBVIOUS
  <2> P([n \in 0..0 |-> s0], 0)
    OBVIOUS
  <2> QED OBVIOUS
<1>2. ASSUME NEW k \in T PROVE k + 1 \in T
  <2> SUFFICES ASSUME k + 1 <= N PROVE \E f \in [0..(k + 1) -> S_] : P(f, k + 1)
    OBVIOUS
  <2>1. PICK f \in [0..k -> S_] : P(f, k)
    OBVIOUS
  <2> DEFINE h == [n \in 0..(k + 1) |-> IF n <= k THEN f[n] ELSE g[<<f[k], k + 1>>]]
  <2>2. <<f[k], k + 1>> \in S_ \X (1..N)
    BY <2>1
  <2>3. h \in [0..(k + 1) -> S_]
    BY <2>1, <2>2
  <2>4. ASSUME NEW n \in 1..(k + 1) PROVE h[n] = g[<<h[n - 1], n>>]
    <3>1. n - 1 \in 0..(k + 1) /\ n - 1 <= k /\ h[n - 1] = f[n - 1]
      OBVIOUS
    <3>2. CASE n <= k
      <4>1. n \in 1..k /\ h[n] = f[n]
        BY <3>2
      <4> HIDE DEF h
      <4> QED BY <4>1, <3>1, <2>1
    <3>3. CASE n = k + 1
      <4>1. h[n] = g[<<f[k], k + 1>>] /\ n - 1 = k
        BY <3>3
      <4> HIDE DEF h
      <4> QED BY <4>1, <3>1, <3>3
    <3>4. n <= k \/ n = k + 1
      OBVIOUS
    <3> QED BY <3>2, <3>3, <3>4
  <2>5. h[0] = s0
    BY <2>1
  <2> HIDE DEF h
  <2> QED BY <2>3, <2>4, <2>5
<1>3. T = Nat
  <2> HIDE DEF T
  <2>1. T \subseteq Nat BY DEF T
  <2> QED BY <1>1, <1>2, <2>1, SetInduction
<1>4. N \in T
  BY <1>3
<1> QED BY <1>4 DEF IsRun

-----------------------------------------------------------------------------
(* The type of the context, and the invariant: the queue has one item for  *)
(* each cell that the map leads from.                                      *)
Grids == [Cell -> Char]
Maps == [Cell -> Char \cup {NULL}]
Screens == [Pixel -> Int]
Context == [grid : Grids, map : Maps, queue_i : Nat, framebuffer : Screens,
            cursor_x : Nat, cursor_y : Nat, old_cursor_x : Nat, old_cursor_y : Nat]
Pending(f) == {p \in Cell : f.map[p] # NULL}
Counted(f) == f \in Context /\ f.queue_i = Cardinality(Pending(f))

LEMMA Sizes == rows \in Nat \ {0} /\ cols \in Nat \ {0} /\ " " \in Glyph
  BY FramebufferAssumption DEF FramebufferAssumption
LEMMA Measures == /\ rows \in Nat /\ cols \in Nat /\ rows \in Int /\ cols \in Int
                  /\ 0 < rows /\ 0 < cols /\ rows <= cols
<1>1. rows \in Nat \ {0} /\ cols \in Nat \ {0} /\ rows <= cols
  BY FramebufferAssumption DEF FramebufferAssumption
<1> QED BY <1>1

-----------------------------------------------------------------------------
(* There are at most rows * cols cells: cell x, y is place y * cols + x + 1*)
(* of 1..(rows * cols), and no other is there.                             *)
LEMMA NextMultiple ==
  ASSUME NEW a \in Nat, NEW b \in Nat, NEW c \in Nat, a < b
  PROVE  a * c + c <= b * c
<1>1. PICK d \in Nat : b = a + 1 + d
  OBVIOUS
<1>2. d * c \in Nat /\ a * c \in Nat /\ b * c \in Nat
  OBVIOUS
<1>3. b * c = (a * c + c) + d * c
  BY <1>1
<1> QED BY <1>2, <1>3

LEMMA PlaceInRange ==
  ASSUME NEW c \in Nat, NEW r \in Nat, NEW x \in 0..(c - 1), NEW y \in 0..(r - 1)
  PROVE  y * c + x + 1 \in 1..(r * c)
<1>1. y * c + c <= r * c
  BY NextMultiple
<1>2. y * c \in Nat /\ r * c \in Nat
  OBVIOUS
<1> QED BY <1>1, <1>2

LEMMA PlaceUnique ==
  ASSUME NEW c \in Nat, NEW x \in 0..(c - 1), NEW u \in 0..(c - 1), NEW y \in Nat, NEW v \in Nat,
         y * c + x + 1 = v * c + u + 1
  PROVE  x = u /\ y = v
<1>1. y * c \in Nat /\ v * c \in Nat
  OBVIOUS
<1>2. ~(y < v)
  <2> SUFFICES ASSUME y < v PROVE FALSE
    OBVIOUS
  <2>1. y * c + c <= v * c
    BY NextMultiple
  <2> QED BY <1>1, <2>1
<1>3. ~(v < y)
  <2> SUFFICES ASSUME v < y PROVE FALSE
    OBVIOUS
  <2>1. v * c + c <= y * c
    BY NextMultiple
  <2> QED BY <1>1, <2>1
<1>4. y = v
  BY <1>2, <1>3
<1> QED BY <1>1, <1>4

LEMMA Room == rows \in Nat /\ cols \in Nat /\ rows * cols \in Nat
<1>1. rows \in Nat /\ cols \in Nat
  BY Sizes
<1>2. \A r, c \in Nat : r * c \in Nat
  OBVIOUS
<1> QED BY <1>1, <1>2

LEMMA CellsCount == IsFiniteSet(Cell) /\ Cardinality(Cell) <= rows * cols
<1> DEFINE at == [p \in Cell |-> p[2] * cols + p[1] + 1]
<1>1. rows \in Nat /\ cols \in Nat /\ rows * cols \in Nat
  BY Room
<1>2. ASSUME NEW p \in Cell
      PROVE  p[1] \in 0..(cols - 1) /\ p[2] \in 0..(rows - 1) /\ p = <<p[1], p[2]>>
  BY DEF Cell
<1>3. \A p \in Cell : at[p] \in 1..(rows * cols)
  BY <1>1, <1>2, PlaceInRange
<1>4. ASSUME NEW p \in Cell, NEW q \in Cell, at[p] = at[q]
      PROVE  p = q
  <2>1. p[2] * cols + p[1] + 1 = q[2] * cols + q[1] + 1
    BY <1>4
  <2>2. p[1] = q[1] /\ p[2] = q[2]
    <3>1. p[2] \in Nat /\ q[2] \in Nat
      BY <1>1, <1>2
    <3> QED BY <1>1, <1>2, <2>1, <3>1, PlaceUnique
  <2> QED BY <1>2, <2>2
<1>5. at \in [Cell -> 1..(rows * cols)]
  BY <1>3
<1>6. at \in Injection(Cell, 1..(rows * cols))
  <2>1. IsInjective(at)
    BY <1>4 DEF IsInjective
  <2> QED BY <1>5, <2>1 DEF Injection
<1>7. IsFiniteSet(1..(rows * cols)) /\ Cardinality(1..(rows * cols)) = rows * cols
  <2> DEFINE n == rows * cols
  <2>1. n \in Nat
    BY <1>1
  <2> HIDE DEF n
  <2>2. IsFiniteSet(1..n) /\ Cardinality(1..n) = IF 1 > n THEN 0 ELSE n - 1 + 1
    BY <2>1, FS_Interval
  <2>3. IsFiniteSet(1..n) /\ Cardinality(1..n) = n
    BY <2>1, <2>2
  <2> QED BY <2>3 DEF n
<1> HIDE DEF at
<1> QED BY <1>6, <1>7, FS_Injection

(* A queue that is counted has room. *)
LEMMA CountedFits == ASSUME NEW f, Counted(f) PROVE f.queue_i <= rows * cols
<1>1. Pending(f) \in SUBSET Cell
  BY DEF Pending
<1>2. Cardinality(Pending(f)) <= Cardinality(Cell)
  BY <1>1, CellsCount, FS_Subset
<1>3. Cardinality(Pending(f)) \in Nat /\ Cardinality(Cell) \in Nat
  BY <1>1, CellsCount, FS_Subset, FS_CardinalityType
<1>4. rows * cols \in Nat
  BY Room
<1> QED BY <1>2, <1>3, <1>4, CellsCount DEF Counted
-----------------------------------------------------------------------------
(* Pushing: every cell whose item is new is counted once.                  *)
LEMMA ContentIsChar ==
  ASSUME NEW f \in Context, NEW p \in Cell PROVE Content(f, p) \in Char
  BY DEF Context, Content, Grids, Maps

LEMMA PushAllCounted ==
  ASSUME NEW f, Counted(f), NEW D \in SUBSET Cell, NEW new \in [D -> Char]
  PROVE  Counted(PushAll(f, new))
<1> DEFINE g == PushAll(f, new)
           N == {p \in D : IsNew(f, p, new[p])}
           map == [p \in Cell |-> IF p \in D /\ Takes(f, p, new[p]) THEN new[p] ELSE f.map[p]]
<1>1. f \in Context /\ f.queue_i = Cardinality(Pending(f)) /\ DOMAIN new = D
  BY DEF Counted
<1>2. g = [f EXCEPT !.map = map, !.queue_i = f.queue_i + Cardinality(N)]
  BY <1>1 DEF PushAll, Context
<1>3. N \subseteq Cell /\ IsFiniteSet(N) /\ Cardinality(N) \in Nat
  <2>1. N \in SUBSET Cell
    OBVIOUS
  <2> HIDE DEF N
  <2> QED BY <2>1, CellsCount, FS_Subset, FS_CardinalityType
<1>4. IsFiniteSet(Pending(f)) /\ Cardinality(Pending(f)) \in Nat
  <2>1. Pending(f) \in SUBSET Cell
    BY DEF Pending
  <2> QED BY <2>1, CellsCount, FS_Subset, FS_CardinalityType
<1>5. map \in Maps
  BY <1>1 DEF Context, Maps
<1>6. g.map = map /\ g.queue_i = f.queue_i + Cardinality(N) /\ g \in Context
  <2>1. f.queue_i + Cardinality(N) \in Nat
    BY <1>1, <1>3 DEF Context
  <2> HIDE DEF map, N, g
  <2> QED BY <1>1, <1>2, <1>5, <2>1 DEF Context
<1>8. Pending(g) = Pending(f) \cup N
  <2> SUFFICES ASSUME NEW p \in Cell
               PROVE  map[p] # NULL <=> f.map[p] # NULL \/ p \in N
    BY <1>3, <1>6 DEF Pending
  <2>1. CASE p \in D
    <3>1. new[p] # NULL
      BY <2>1, NullAssumption
    <3> QED BY <2>1, <3>1 DEF Takes, IsNew
  <2>2. CASE p \notin D
    BY <2>2
  <2> QED BY <2>1, <2>2
<1>9. Pending(f) \cap N = {}
  BY DEF Pending, IsNew
<1>10. Cardinality(Pending(g)) = Cardinality(Pending(f)) + Cardinality(N)
  <2> HIDE DEF N, g
  <2>1. Cardinality(Pending(f) \cup N)
          = Cardinality(Pending(f)) + Cardinality(N) - Cardinality(Pending(f) \cap N)
    BY <1>3, <1>4, FS_Union
  <2>2. Cardinality(Pending(f) \cap N) = 0
    BY <1>9, FS_EmptySet
  <2> QED BY <1>3, <1>4, <1>8, <2>1, <2>2
<1> QED BY <1>1, <1>6, <1>10 DEF Counted

(* One push is a push of all of one cell. *)
LEMMA PushCounted ==
  ASSUME NEW f, Counted(f), NEW ch \in Char, NEW x, NEW y
  PROVE  Counted(push_to_queue(f, ch, x, y))
<1> DEFINE p == <<x, y>>
           new == [q \in {p} |-> ch]
           one == {q \in {p} : IsNew(f, q, new[q])}
<1>1. CASE p \in Cell /\ Takes(f, p, ch)
  <2>1. new \in [{p} -> Char] /\ {p} \in SUBSET Cell /\ DOMAIN new = {p}
    BY <1>1
  <2>2. Cardinality(one) = IF IsNew(f, p, ch) THEN 1 ELSE 0
    <3>1. one = IF IsNew(f, p, ch) THEN {p} ELSE {}
      OBVIOUS
    <3>2. Cardinality({p}) = 1 /\ Cardinality({}) = 0
      BY FS_Singleton, FS_EmptySet
    <3> QED BY <3>1, <3>2
  <2>3. [q \in Cell |-> IF q \in {p} /\ Takes(f, q, new[q]) THEN new[q] ELSE f.map[q]]
          = [f.map EXCEPT ![p] = ch]
    BY <1>1 DEF Counted, Context, Maps
  <2>4. push_to_queue(f, ch, x, y) = PushAll(f, new)
    <3> HIDE DEF one
    <3>1. PushAll(f, new) = [f EXCEPT !.map = [f.map EXCEPT ![p] = ch],
                                      !.queue_i = @ + Cardinality(one)]
      BY <2>1, <2>3 DEF PushAll, Counted, Context, one
    <3>2. push_to_queue(f, ch, x, y)
            = [f EXCEPT !.map = [f.map EXCEPT ![p] = ch],
                        !.queue_i = @ + (IF IsNew(f, p, ch) THEN 1 ELSE 0)]
      BY <1>1 DEF push_to_queue, Counted, Context
    <3> QED BY <2>2, <3>1, <3>2
  <2> HIDE DEF new
  <2> QED BY <2>1, <2>4, PushAllCounted
<1>2. CASE ~(p \in Cell /\ Takes(f, p, ch))
  BY <1>2 DEF push_to_queue
<1> QED BY <1>1, <1>2

LEMMA CursorCounted ==
  ASSUME NEW f, Counted(f), NEW x \in Nat, NEW y \in Nat
  PROVE  Counted([f EXCEPT !.cursor_x = x, !.cursor_y = y])
<1> DEFINE g == [f EXCEPT !.cursor_x = x, !.cursor_y = y]
<1>1. g \in Context /\ g.map = f.map /\ g.queue_i = f.queue_i
  BY DEF Counted, Context
<1> HIDE DEF g
<1>2. Counted(g)
  BY <1>1 DEF Counted, Pending
<1> QED BY <1>2 DEF g

-----------------------------------------------------------------------------
(* The backend's operations keep the count. *)
LEMMA RowsAreCells ==
  ASSUME NEW S PROVE RowsOf(S) \in SUBSET Cell
  BY DEF RowsOf

LEMMA CellParts ==
  ASSUME NEW p \in Cell
  PROVE  /\ p[1] \in 0..(cols - 1) /\ p[2] \in 0..(rows - 1)
         /\ \A y \in 0..(rows - 1) : <<p[1], y>> \in Cell
  BY DEF Cell

LEMMA ScrollCounted ==
  ASSUME NEW f, Counted(f), NEW t \in Int, NEW b \in Int, b <= rows, NEW blank \in Char
  PROVE  Counted(scroll(f, t, b, blank))
<1> DEFINE D == RowsOf(t..(b - 1))
           new == [p \in D |-> IF p[2] < b - 1 THEN Content(f, <<p[1], p[2] + 1>>) ELSE blank]
<1>1. D \in SUBSET Cell
  BY RowsAreCells
<1>2. ASSUME NEW p \in D, p[2] < b - 1
      PROVE  Content(f, <<p[1], p[2] + 1>>) \in Char
  <2>1. p[2] + 1 \in 0..(rows - 1)
    BY <1>1, <1>2, CellParts, Room
  <2> QED BY <1>1, <2>1, CellParts, ContentIsChar DEF Counted
<1>3. new \in [D -> Char]
  BY <1>2
<1>4. scroll(f, t, b, blank) = PushAll(f, new)
  BY DEF scroll
<1> HIDE DEF new, D
<1> QED BY <1>1, <1>3, <1>4, PushAllCounted

LEMMA RevscrollCounted ==
  ASSUME NEW f, Counted(f), NEW t \in Nat, NEW b \in Int, NEW blank \in Char
  PROVE  Counted(revscroll(f, t, b, blank))
<1> DEFINE D == RowsOf({t} \cup t..(b - 1))
           new == [p \in D |-> IF p[2] > t THEN Content(f, <<p[1], p[2] - 1>>) ELSE blank]
<1>1. D \in SUBSET Cell
  BY RowsAreCells
<1>2. ASSUME NEW p \in D, p[2] > t
      PROVE  Content(f, <<p[1], p[2] - 1>>) \in Char
  <2>1. p[2] \in 0..(rows - 1)
    BY <1>1, CellParts
  <2>2. \A r \in Nat : \A y \in 0..(r - 1) : y > t => y - 1 \in 0..(r - 1)
    OBVIOUS
  <2>3. p[2] - 1 \in 0..(rows - 1)
    BY <1>2, <2>1, <2>2, Room
  <2> QED BY <1>1, <2>3, CellParts, ContentIsChar DEF Counted
<1>3. new \in [D -> Char]
  BY <1>2
<1>4. revscroll(f, t, b, blank) = PushAll(f, new)
  BY DEF revscroll
<1> HIDE DEF new, D
<1> QED BY <1>1, <1>3, <1>4, PushAllCounted

LEMMA SetCursorCounted ==
  ASSUME NEW f, Counted(f), NEW x \in Int, NEW y \in Int
  PROVE  Counted(set_cursor_pos(f, x, y))
<1> DEFINE Clamp(z, n) == IF z < 0 THEN 0 ELSE IF z >= n THEN n - 1 ELSE z
<1>0. \A z \in Int, n \in Nat \ {0} : Clamp(z, n) \in Nat
  OBVIOUS
<1>1. Clamp(x, cols) \in Nat
  BY <1>0, Sizes
<1>2. Clamp(y, rows) \in Nat
  BY <1>0, Sizes
<1> QED BY <1>1, <1>2, CursorCounted DEF set_cursor_pos

LEMMA ClearCounted ==
  ASSUME NEW f, Counted(f), NEW move \in BOOLEAN, NEW blank \in Char
  PROVE  Counted(clear(f, move, blank))
<1> DEFINE new == [p \in Cell |-> blank]
<1>1. new \in [Cell -> Char] /\ Cell \in SUBSET Cell
  OBVIOUS
<1>2. Counted(PushAll(f, new))
  <2> HIDE DEF new
  <2> QED BY <1>1, PushAllCounted
<1>3. Counted(set_cursor_pos(PushAll(f, new), 0, 0))
  <2> HIDE DEF new
  <2> QED BY <1>2, SetCursorCounted
<1> QED BY <1>2, <1>3 DEF clear

LEMMA MoveCounted ==
  ASSUME NEW f, Counted(f), NEW nx, NEW ny, NEW ox, NEW oy
  PROVE  Counted(move_character(f, nx, ny, ox, oy))
<1>1. CASE <<ox, oy>> \in Cell
  <2>1. Content(f, <<ox, oy>>) \in Char
    BY <1>1, ContentIsChar DEF Counted
  <2> QED BY <1>1, <2>1, PushCounted DEF move_character
<1>2. CASE <<ox, oy>> \notin Cell
  BY <1>2 DEF move_character
<1> QED BY <1>1, <1>2

LEMMA NextLineCounted ==
  ASSUME NEW f, Counted(f), NEW m \in Margins, NEW blank \in Char
  PROVE  Counted(NextLine(f, m, blank))
<1> DEFINE y == f.cursor_y + 1
           g == IF y = m.bottom THEN [scroll(f, m.top, m.bottom, blank) EXCEPT !.cursor_y = y - 1]
                ELSE [f EXCEPT !.cursor_y = y]
           last == IF g.cursor_y >= cols THEN cols - 1 ELSE g.cursor_y
<1>1. m.top \in Int /\ m.bottom \in Int /\ m.bottom <= rows
  BY Room DEF Margins
<1>2. y \in Nat /\ y - 1 \in Nat
  BY DEF Counted, Context
<1>3. Counted(scroll(f, m.top, m.bottom, blank))
  BY <1>1, ScrollCounted
<1>4. Counted(g) /\ g.cursor_y \in Nat
  <2>1. ASSUME NEW h, Counted(h), NEW z \in Nat
        PROVE  Counted([h EXCEPT !.cursor_y = z]) /\ [h EXCEPT !.cursor_y = z].cursor_y \in Nat
    <3> DEFINE k == [h EXCEPT !.cursor_y = z]
    <3>1. k \in Context /\ k.map = h.map /\ k.queue_i = h.queue_i /\ k.cursor_y = z
      BY <2>1 DEF Counted, Context
    <3> HIDE DEF k
    <3>2. Counted(k) /\ k.cursor_y \in Nat
      BY <2>1, <3>1 DEF Counted, Pending
    <3> QED BY <3>2 DEF k
  <2> HIDE DEF y
  <2>2. CASE y = m.bottom
    BY <1>2, <1>3, <2>1, <2>2
  <2>3. CASE y # m.bottom
    BY <1>2, <2>1, <2>3
  <2> QED BY <2>2, <2>3
<1>5. last \in Nat
  <2> HIDE DEF g
  <2>1. \A n \in Nat \ {0}, z \in Nat : (IF z >= n THEN n - 1 ELSE z) \in Nat
    OBVIOUS
  <2> QED BY <1>4, <2>1, Sizes
<1>6. NextLine(f, m, blank) = [g EXCEPT !.cursor_x = 0, !.cursor_y = last]
  BY <1>4 DEF NextLine, Counted, Context
<1> HIDE DEF g, last
<1>7. Counted([g EXCEPT !.cursor_x = 0, !.cursor_y = last])
  BY <1>4, <1>5, CursorCounted
<1> QED BY <1>6, <1>7

LEMMA RawPutcharCounted ==
  ASSUME NEW f, Counted(f), NEW m \in Margins, NEW ch \in Char
  PROVE  Counted(raw_putchar(f, m, ch))
<1> DEFINE blank == [ch EXCEPT !.c = " "]
           full == f.cursor_x >= cols /\ (f.cursor_y < m.bottom - 1 \/ m.scroll_enabled)
           g == IF full THEN NextLine(f, m, blank) ELSE f
           h == push_to_queue(g, ch, g.cursor_x, g.cursor_y)
           k == [h EXCEPT !.cursor_x = @ + 1]
<1>1. Counted(g)
  <2>1. blank \in Char
    BY Sizes DEF Char
  <2> HIDE DEF blank, full
  <2>2. Counted(NextLine(f, m, blank))
    BY <2>1, NextLineCounted
  <2> QED BY <2>2
<1> HIDE DEF g
<1>2. Counted(h)
  BY <1>1, PushCounted
<1> HIDE DEF h
<1>3. k \in Context /\ k.map = h.map /\ k.queue_i = h.queue_i
  BY <1>2 DEF Counted, Context
<1>4. raw_putchar(f, m, ch) = k
  BY DEF raw_putchar, g, h
<1> HIDE DEF k
<1> QED BY <1>2, <1>3, <1>4 DEF Counted, Pending

-----------------------------------------------------------------------------
(* A flush empties the queue, and the screen after it is a screen.         *)
LEMMA DotIsColour ==
  ASSUME NEW ch \in Char, NEW at PROVE Dot(ch, at) \in Int
  BY DEF Dot, Shade, Char, default_bg

LEMMA PlotIsScreen ==
  ASSUME NEW screen \in Screens, NEW D, NEW chars \in [D -> Char]
  PROVE  plot_char(screen, chars) \in Screens
<1>1. ASSUME NEW px \in Pixel, CellAt(px) \in D
      PROVE  Dot(chars[CellAt(px)], Within(px)) \in Int
  BY <1>1, DotIsColour
<1> QED BY <1>1 DEF plot_char, Screens

LEMMA PlotFastIsScreen ==
  ASSUME NEW screen \in Screens, NEW old, NEW D, NEW chars \in [D -> Char]
  PROVE  plot_char_fast(screen, old, chars) \in Screens
<1>1. ASSUME NEW px \in Pixel, CellAt(px) \in D
      PROVE  Dot(chars[CellAt(px)], Within(px)) \in Int
  BY <1>1, DotIsColour
<1> QED BY <1>1 DEF plot_char_fast, Screens

LEMMA NothingPending ==
  ASSUME NEW f, f \in Context, f.map = [p \in Cell |-> NULL], f.queue_i = 0
  PROVE  Counted(f)
<1>1. Pending(f) = {}
  BY DEF Pending
<1>2. Cardinality({}) = 0
  BY FS_EmptySet
<1> QED BY <1>1, <1>2 DEF Counted

LEMMA DrawCursorContext ==
  ASSUME NEW f \in Context
  PROVE  /\ draw_cursor(f) \in Context
         /\ f.map = [p \in Cell |-> NULL] => draw_cursor(f).map = f.map
         /\ draw_cursor(f).queue_i = f.queue_i
<1> DEFINE p == Cursor(f)
           lit == [q \in {p} |-> Inverted(Content(f, p))]
           screen == plot_char(f.framebuffer, lit)
<1>1. CASE p \in Cell
  <2>1. Content(f, p) \in Char
    BY <1>1, ContentIsChar
  <2>2. lit \in [{p} -> Char]
    BY <2>1 DEF Inverted, Char
  <2>3. screen \in Screens
    <3> HIDE DEF lit, p
    <3> QED BY <2>2, PlotIsScreen DEF Context
  <2>4. draw_cursor(f) = [f EXCEPT !.framebuffer = screen,
                                   !.grid = [f.grid EXCEPT ![p] = Content(f, p)],
                                   !.map = [f.map EXCEPT ![p] = NULL]]
    BY <1>1 DEF draw_cursor, Context
  <2>5. [f.grid EXCEPT ![p] = Content(f, p)] \in Grids /\ [f.map EXCEPT ![p] = NULL] \in Maps
    BY <1>1, <2>1 DEF Context, Grids, Maps
  <2>6. f.map = [q \in Cell |-> NULL] => [f.map EXCEPT ![p] = NULL] = f.map
    OBVIOUS
  <2> HIDE DEF p, screen
  <2> QED BY <2>3, <2>4, <2>5, <2>6 DEF Context
<1>2. CASE p \notin Cell
  BY <1>2 DEF draw_cursor
<1> QED BY <1>1, <1>2

LEMMA DrainContext ==
  ASSUME NEW f \in Context
  PROVE  Drain(f) \in Context /\ Drain(f).map = [p \in Cell |-> NULL]
<1> DEFINE Queued == {p \in Cell : f.map[p] # NULL}
           Quick == {p \in Queued : f.map[p].fg = f.grid[p].fg /\ f.map[p].bg = f.grid[p].bg}
           slow == [p \in Queued \ Quick |-> f.map[p]]
           quick == [p \in Quick |-> f.map[p]]
           drawn == plot_char(f.framebuffer, slow)
           screen == plot_char_fast(drawn, f.grid, quick)
           grid == [p \in Cell |-> Content(f, p)]
<1>1. slow \in [Queued \ Quick -> Char] /\ quick \in [Quick -> Char]
  BY DEF Context, Maps
<1>2. screen \in Screens
  <2> HIDE DEF Queued, Quick, slow, quick
  <2>1. drawn \in Screens
    BY <1>1, PlotIsScreen DEF Context
  <2> HIDE DEF drawn
  <2> QED BY <1>1, <2>1, PlotFastIsScreen
<1>3. grid \in Grids
  BY ContentIsChar DEF Grids
<1>4. [p \in Cell |-> NULL] \in Maps
  BY DEF Maps
<1>5. Drain(f) = [f EXCEPT !.framebuffer = screen, !.grid = grid, !.map = [p \in Cell |-> NULL]]
  BY DEF Drain, Context
<1> HIDE DEF screen, grid
<1> QED BY <1>2, <1>3, <1>4, <1>5 DEF Context

LEMMA EraseContext ==
  ASSUME NEW f \in Context, NEW enabled \in BOOLEAN
  PROVE  EraseCursor(f, enabled) \in Context /\ EraseCursor(f, enabled).map = f.map
<1> DEFINE p == OldCursor(f)
           dark == [q \in {p} |-> f.grid[q]]
           screen == plot_char(f.framebuffer, dark)
<1>1. CASE (Cursor(f) # p \/ ~enabled) /\ p \in Cell
  <2>1. dark \in [{p} -> Char]
    BY <1>1 DEF Context, Grids
  <2>2. screen \in Screens
    <3> HIDE DEF p, dark
    <3> QED BY <2>1, PlotIsScreen DEF Context
  <2>3. EraseCursor(f, enabled) = [f EXCEPT !.framebuffer = screen]
    BY <1>1 DEF EraseCursor, Context
  <2> HIDE DEF screen
  <2> QED BY <2>2, <2>3 DEF Context
<1>2. CASE ~((Cursor(f) # p \/ ~enabled) /\ p \in Cell)
  BY <1>2 DEF EraseCursor
<1> QED BY <1>1, <1>2

LEMMA FlushCounted ==
  ASSUME NEW f, Counted(f), NEW enabled \in BOOLEAN
  PROVE  Counted(double_buffer_flush(f, enabled))
<1> DEFINE g == IF enabled THEN draw_cursor(f) ELSE f
           h == EraseCursor(Drain(g), enabled)
           k == [h EXCEPT !.old_cursor_x = f.cursor_x, !.old_cursor_y = f.cursor_y, !.queue_i = 0]
<1>1. g \in Context
  BY DrawCursorContext DEF Counted
<1> HIDE DEF g
<1>2. h \in Context /\ h.map = [p \in Cell |-> NULL]
  BY <1>1, DrainContext, EraseContext
<1> HIDE DEF h
<1>3. k \in Context /\ k.map = [p \in Cell |-> NULL] /\ k.queue_i = 0
  BY <1>2 DEF Counted, Context
<1>4. double_buffer_flush(f, enabled) = k
  BY DEF double_buffer_flush, g, h
<1> HIDE DEF k
<1> QED BY <1>3, <1>4, NothingPending

LEMMA InitCounted ==
  ASSUME NEW fg \in Int, NEW bg \in Int PROVE Counted(flanterm_fb_init(fg, bg))
<1> DEFINE grid == [p \in Cell |-> Blank(fg, bg)]
           dark == [px \in Pixel |-> default_bg]
           f == [grid |-> grid, map |-> [p \in Cell |-> NULL], queue_i |-> 0, framebuffer |-> dark,
                 cursor_x |-> 0, cursor_y |-> 0, old_cursor_x |-> 0, old_cursor_y |-> 0]
           screen == plot_char(dark, grid)
           g == [f EXCEPT !.framebuffer = screen]
<1>1. grid \in Grids
  BY Sizes DEF Grids, Blank, Char
<1>2. dark \in Screens
  BY DEF Screens, default_bg
<1>3. screen \in Screens
  <2> HIDE DEF dark, grid
  <2> QED BY <1>1, <1>2, PlotIsScreen DEF Grids
<1>4. [p \in Cell |-> NULL] \in Maps
  BY DEF Maps
<1>5. g \in Context /\ g.map = [p \in Cell |-> NULL] /\ g.queue_i = 0
  <2> HIDE DEF grid, dark, screen
  <2> QED BY <1>1, <1>2, <1>3, <1>4 DEF Context
<1>6. flanterm_fb_init(fg, bg) = draw_cursor(g)
  BY DEF flanterm_fb_init, full_refresh
<1> HIDE DEF g
<1> QED BY <1>5, <1>6, DrawCursorContext, NothingPending

-----------------------------------------------------------------------------
LEMMA StepCounted == Counted(fb) /\ [FbNext]_fb => Counted(fb')
<1> SUFFICES ASSUME Counted(fb), [FbNext]_fb PROVE Counted(fb')
  OBVIOUS
<1>1. ASSUME NEW m \in Margins, NEW ch \in Char, fb' = raw_putchar(fb, m, ch)
      PROVE  Counted(fb')
  BY <1>1, RawPutcharCounted
<1>2. ASSUME NEW m \in Margins, NEW ch \in Char,
             \/ fb' = scroll(fb, m.top, m.bottom, [ch EXCEPT !.c = " "])
             \/ fb' = revscroll(fb, m.top, m.bottom, [ch EXCEPT !.c = " "])
      PROVE  Counted(fb')
  <2>1. [ch EXCEPT !.c = " "] \in Char
    BY Sizes DEF Char
  <2>2. m.top \in Nat /\ m.top \in Int /\ m.bottom \in Int /\ m.bottom <= rows
    BY Room DEF Margins
  <2> QED BY <1>2, <2>1, <2>2, ScrollCounted, RevscrollCounted
<1>3. ASSUME NEW move \in BOOLEAN, NEW fg \in Int, NEW bg \in Int,
             fb' = clear(fb, move, Blank(fg, bg))
      PROVE  Counted(fb')
  <2>1. Blank(fg, bg) \in Char
    BY Sizes DEF Blank, Char
  <2> QED BY <1>3, <2>1, ClearCounted
<1>4. ASSUME NEW x \in Int, NEW y \in Int, fb' = set_cursor_pos(fb, x, y)
      PROVE  Counted(fb')
  BY <1>4, SetCursorCounted
<1>5. ASSUME NEW nx \in Nat, NEW ny \in Nat, NEW ox \in Nat, NEW oy \in Nat,
             fb' = move_character(fb, nx, ny, ox, oy)
      PROVE  Counted(fb')
  BY <1>5, MoveCounted
<1>6. ASSUME NEW enabled \in BOOLEAN, fb' = double_buffer_flush(fb, enabled)
      PROVE  Counted(fb')
  BY <1>6, FlushCounted
<1>7. CASE UNCHANGED fb
  BY <1>7
<1> QED BY <1>1, <1>2, <1>3, <1>4, <1>5, <1>6, <1>7 DEF FbNext

(* Whatever is asked of the backend and in whatever order, the queue holds *)
(* one item for each cell that is waiting to be drawn, and never more than *)
(* the rows * cols that flanterm_fb_init makes room for (fb.c).            *)
THEOREM QueueAlwaysFits == FbSpec => []QueueFits
<1>1. FbInit => Counted(fb)
  BY InitCounted DEF FbInit
<1>2. Counted(fb) /\ [FbNext]_fb => Counted(fb)'
  BY StepCounted
<1>3. Counted(fb) => QueueFits
  BY CountedFits DEF Counted, Pending, QueueFits
<1> QED BY <1>1, <1>2, <1>3, PTL DEF FbSpec

-----------------------------------------------------------------------------
(* What the terminal needs to know of the backend's operations: a frame    *)
(* is a counted context whose cursor is on the screen or, at the ends      *)
(* raw_putchar leaves open, next to it; until it is flushed, what is drawn *)
(* is kept.                                                                *)
Framed(f) == Counted(f) /\ f.cursor_x \in 0..cols /\ f.cursor_y \in 0..(cols - 1)
Kept(f, g) == /\ g.grid = f.grid /\ g.framebuffer = f.framebuffer
              /\ g.old_cursor_x = f.old_cursor_x /\ g.old_cursor_y = f.old_cursor_y
SameCursor(f, g) == g.cursor_x = f.cursor_x /\ g.cursor_y = f.cursor_y
WithCursor(f, x, y) == [f EXCEPT !.cursor_x = x, !.cursor_y = y]
SameText(f, g) == \A p \in Cell : Content(g, p) = Content(f, p)

LEMMA KeptAgain == ASSUME NEW f, NEW g, NEW h, Kept(f, g), Kept(g, h) PROVE Kept(f, h)
  BY DEF Kept

LEMMA Pushed ==
  ASSUME NEW f, Framed(f), NEW D \in SUBSET Cell, NEW new \in [D -> Char]
  PROVE  /\ Framed(PushAll(f, new)) /\ Kept(f, PushAll(f, new))
         /\ SameCursor(f, PushAll(f, new))
         /\ \A p \in Cell : Content(PushAll(f, new), p) = IF p \in D THEN new[p] ELSE Content(f, p)
<1> DEFINE g == PushAll(f, new)
           N == {p \in D : IsNew(f, p, new[p])}
           map == [p \in Cell |-> IF p \in D /\ Takes(f, p, new[p]) THEN new[p] ELSE f.map[p]]
<1>1. f \in Context /\ Counted(f) /\ DOMAIN new = D
  BY DEF Counted, Framed
<1>2. g = [f EXCEPT !.map = map, !.queue_i = f.queue_i + Cardinality(N)]
  BY <1>1 DEF PushAll, Context
<1>3. g.map = map /\ Kept(f, g) /\ SameCursor(f, g)
  <2> HIDE DEF map, N, g
  <2> QED BY <1>1, <1>2 DEF Context, Kept, SameCursor
<1>4. ASSUME NEW p \in Cell PROVE Content(g, p) = IF p \in D THEN new[p] ELSE Content(f, p)
  <2>1. g.map[p] = (IF p \in D /\ Takes(f, p, new[p]) THEN new[p] ELSE f.map[p]) /\ g.grid = f.grid
    BY <1>3 DEF Kept
  <2>2. p \in D => new[p] # NULL
    BY NullAssumption
  <2> HIDE DEF g, map, N
  <2> QED BY <2>1, <2>2 DEF Content, Takes
<1>5. Framed(g)
  <2>1. Counted(g)
    BY <1>1, PushAllCounted
  <2> HIDE DEF g
  <2> QED BY <2>1, <1>3 DEF Framed, SameCursor
<1> HIDE DEF map, N
<1> QED BY <1>3, <1>4, <1>5

LEMMA PushedOne ==
  ASSUME NEW f, Framed(f), NEW ch \in Char, NEW x, NEW y
  PROVE  /\ Framed(push_to_queue(f, ch, x, y)) /\ Kept(f, push_to_queue(f, ch, x, y))
         /\ SameCursor(f, push_to_queue(f, ch, x, y))
         /\ \A p \in Cell : Content(push_to_queue(f, ch, x, y), p)
                              = IF p = <<x, y>> THEN ch ELSE Content(f, p)
<1> DEFINE g == push_to_queue(f, ch, x, y)
           at == <<x, y>>
<1>0. f \in Context /\ Counted(f)
  BY DEF Framed, Counted
<1>1. Counted(g)
  BY <1>0, PushCounted
<1>2. CASE at \in Cell /\ Takes(f, at, ch)
  <2>1. g = [f EXCEPT !.map = [f.map EXCEPT ![at] = ch],
                      !.queue_i = @ + (IF IsNew(f, at, ch) THEN 1 ELSE 0)]
    BY <1>0, <1>2 DEF push_to_queue, Context
  <2>2. g.map = [f.map EXCEPT ![at] = ch] /\ Kept(f, g) /\ SameCursor(f, g)
    <3> HIDE DEF g
    <3> QED BY <2>1, <1>0 DEF Context, Kept, SameCursor
  <2>3. ch # NULL /\ f.map \in [Cell -> Char \cup {NULL}]
    BY <1>0, NullAssumption DEF Context, Maps
  <2> HIDE DEF g, at
  <2>4. \A p \in Cell : Content(g, p) = IF p = at THEN ch ELSE Content(f, p)
    BY <1>2, <2>2, <2>3 DEF Kept, Content
  <2>5. Framed(g)
    BY <1>1, <2>2 DEF Framed, SameCursor
  <2> QED BY <2>2, <2>4, <2>5 DEF g, at
<1>3. CASE ~(at \in Cell /\ Takes(f, at, ch))
  <2>1. g = f
    BY <1>3 DEF push_to_queue
  <2>2. at \in Cell => Content(f, at) = ch
    BY <1>3 DEF Takes, Content
  <2> QED BY <2>1, <2>2 DEF Framed, Kept, SameCursor
<1> QED BY <1>2, <1>3

LEMMA CursorMoved ==
  ASSUME NEW f, Framed(f), NEW x \in 0..cols, NEW y \in 0..(cols - 1)
  PROVE  /\ Framed(WithCursor(f, x, y)) /\ Kept(f, WithCursor(f, x, y))
         /\ SameText(f, WithCursor(f, x, y))
         /\ WithCursor(f, x, y).cursor_x = x /\ WithCursor(f, x, y).cursor_y = y
<1> DEFINE g == WithCursor(f, x, y)
<1> USE DEF WithCursor
<1>0. f \in Context /\ Counted(f) /\ x \in Nat /\ y \in Nat
  BY Measures DEF Framed, Counted
<1>1. g.map = f.map /\ Kept(f, g) /\ g.cursor_x = x /\ g.cursor_y = y
  BY <1>0 DEF Context, Kept
<1>2. Counted(g)
  BY <1>0, CursorCounted
<1> HIDE DEF g
<1>3. Framed(g) /\ SameText(f, g)
  BY <1>1, <1>2 DEF Framed, SameText, Content, Kept
<1> QED BY <1>1, <1>3 DEF g

LEMMA Scrolled ==
  ASSUME NEW f, Framed(f), NEW t \in Int, NEW b \in Int, b <= rows, NEW blank \in Char
  PROVE  /\ Framed(scroll(f, t, b, blank)) /\ Kept(f, scroll(f, t, b, blank))
         /\ SameCursor(f, scroll(f, t, b, blank))
         /\ \A p \in Cell : Content(scroll(f, t, b, blank), p) =
               IF p[2] \notin t..(b - 1) THEN Content(f, p)
               ELSE IF p[2] < b - 1 THEN Content(f, <<p[1], p[2] + 1>>) ELSE blank
<1> DEFINE D == RowsOf(t..(b - 1))
           new == [p \in D |-> IF p[2] < b - 1 THEN Content(f, <<p[1], p[2] + 1>>) ELSE blank]
<1>1. D \in SUBSET Cell
  BY RowsAreCells
<1>2. ASSUME NEW p \in D, p[2] < b - 1
      PROVE  Content(f, <<p[1], p[2] + 1>>) \in Char
  <2>1. p[2] + 1 \in 0..(rows - 1)
    BY <1>1, <1>2, CellParts, Room
  <2> QED BY <1>1, <2>1, CellParts, ContentIsChar DEF Counted, Framed
<1>3. new \in [D -> Char]
  BY <1>2
<1>4. scroll(f, t, b, blank) = PushAll(f, new)
  BY DEF scroll
<1>5. \A p \in Cell : p \in D <=> p[2] \in t..(b - 1)
  BY DEF RowsOf
<1>6. \A p \in D : new[p] = IF p[2] < b - 1 THEN Content(f, <<p[1], p[2] + 1>>) ELSE blank
  OBVIOUS
<1> HIDE DEF new, D
<1> DEFINE g == PushAll(f, new)
<1>7. /\ Framed(g) /\ Kept(f, g) /\ SameCursor(f, g)
      /\ \A p \in Cell : Content(g, p) = IF p \in D THEN new[p] ELSE Content(f, p)
  BY <1>1, <1>3, Pushed
<1> HIDE DEF g
<1>8. scroll(f, t, b, blank) = g
  BY <1>4 DEF g
<1> QED BY <1>5, <1>6, <1>7, <1>8

LEMMA Revscrolled ==
  ASSUME NEW f, Framed(f), NEW t \in Nat, NEW b \in Int, NEW blank \in Char
  PROVE  /\ Framed(revscroll(f, t, b, blank)) /\ Kept(f, revscroll(f, t, b, blank))
         /\ SameCursor(f, revscroll(f, t, b, blank))
<1> DEFINE D == RowsOf({t} \cup t..(b - 1))
           new == [p \in D |-> IF p[2] > t THEN Content(f, <<p[1], p[2] - 1>>) ELSE blank]
<1>1. D \in SUBSET Cell
  BY RowsAreCells
<1>2. ASSUME NEW p \in D, p[2] > t
      PROVE  Content(f, <<p[1], p[2] - 1>>) \in Char
  <2>1. p[2] \in 0..(rows - 1)
    BY <1>1, CellParts
  <2>2. \A r \in Nat : \A y \in 0..(r - 1) : y > t => y - 1 \in 0..(r - 1)
    OBVIOUS
  <2>3. p[2] - 1 \in 0..(rows - 1)
    BY <1>2, <2>1, <2>2, Room
  <2> QED BY <1>1, <2>3, CellParts, ContentIsChar DEF Counted, Framed
<1>3. new \in [D -> Char]
  BY <1>2
<1>4. revscroll(f, t, b, blank) = PushAll(f, new)
  BY DEF revscroll
<1> HIDE DEF new, D
<1> QED BY <1>1, <1>3, <1>4, Pushed

LEMMA CursorSet ==
  ASSUME NEW f, Framed(f), NEW x \in Int, NEW y \in Int
  PROVE  LET g == set_cursor_pos(f, x, y)
         IN /\ Framed(g) /\ Kept(f, g) /\ SameText(f, g)
            /\ g.cursor_x = (IF x < 0 THEN 0 ELSE IF x >= cols THEN cols - 1 ELSE x)
            /\ g.cursor_y = (IF y < 0 THEN 0 ELSE IF y >= rows THEN rows - 1 ELSE y)
<1> DEFINE Clamp(z, n) == IF z < 0 THEN 0 ELSE IF z >= n THEN n - 1 ELSE z
<1>0. \A z \in Int, n \in Nat \ {0} : Clamp(z, n) \in 0..(n - 1)
  OBVIOUS
<1>1. Clamp(x, cols) \in 0..cols
  BY <1>0, Measures
<1>2. Clamp(y, rows) \in 0..(cols - 1)
  <2>1. Clamp(y, rows) \in 0..(rows - 1)
    BY <1>0, Measures
  <2> HIDE DEF Clamp
  <2> QED BY <2>1, Measures
<1> DEFINE u == Clamp(x, cols)
           v == Clamp(y, rows)
           g == WithCursor(f, u, v)
<1>3. set_cursor_pos(f, x, y) = g
  BY DEF set_cursor_pos, WithCursor
<1>4. u \in 0..cols /\ v \in 0..(cols - 1)
  BY <1>1, <1>2
<1> HIDE DEF u, v
<1>5. Framed(g) /\ Kept(f, g) /\ SameText(f, g) /\ g.cursor_x = u /\ g.cursor_y = v
  BY <1>4, CursorMoved
<1> HIDE DEF g
<1>6. LET h == set_cursor_pos(f, x, y)
      IN Framed(h) /\ Kept(f, h) /\ SameText(f, h) /\ h.cursor_x = u /\ h.cursor_y = v
  BY <1>3, <1>5
<1> QED BY <1>6 DEF u, v

LEMMA Cleared ==
  ASSUME NEW f, Framed(f), NEW move \in BOOLEAN, NEW blank \in Char
  PROVE  LET g == clear(f, move, blank)
         IN /\ Framed(g) /\ Kept(f, g) /\ \A p \in Cell : Content(g, p) = blank
            /\ IF move THEN g.cursor_x = 0 /\ g.cursor_y = 0 ELSE SameCursor(f, g)
<1> DEFINE new == [p \in Cell |-> blank]
           h == PushAll(f, new)
           k == set_cursor_pos(h, 0, 0)
<1>1. new \in [Cell -> Char] /\ Cell \in SUBSET Cell /\ \A p \in Cell : new[p] = blank
  OBVIOUS
<1> HIDE DEF new
<1>2. Framed(h) /\ Kept(f, h) /\ SameCursor(f, h) /\ \A p \in Cell : Content(h, p) = blank
  BY <1>1, Pushed
<1> HIDE DEF h
<1>3. Framed(k) /\ Kept(h, k) /\ SameText(h, k) /\ k.cursor_x = 0 /\ k.cursor_y = 0
  <2>1. /\ Framed(k) /\ Kept(h, k) /\ SameText(h, k)
        /\ k.cursor_x = (IF 0 < 0 THEN 0 ELSE IF 0 >= cols THEN cols - 1 ELSE 0)
        /\ k.cursor_y = (IF 0 < 0 THEN 0 ELSE IF 0 >= rows THEN rows - 1 ELSE 0)
    BY <1>2, CursorSet
  <2> HIDE DEF k
  <2> QED BY <2>1, Measures
<1>4. clear(f, move, blank) = IF move THEN k ELSE h
  BY DEF clear, new, h, k
<1> HIDE DEF k
<1> QED BY <1>2, <1>3, <1>4, KeptAgain DEF SameText

(* The next line: one further, or the region scrolled. *)
NextY(f, m) == IF f.cursor_y + 1 = m.bottom THEN f.cursor_y
               ELSE IF f.cursor_y + 1 >= cols THEN cols - 1 ELSE f.cursor_y + 1
NextText(f, m, blank, p) ==
    IF f.cursor_y + 1 = m.bottom /\ p[2] \in m.top..(m.bottom - 1)
    THEN IF p[2] < m.bottom - 1 THEN Content(f, <<p[1], p[2] + 1>>) ELSE blank
    ELSE Content(f, p)

LEMMA NextLined ==
  ASSUME NEW f, Framed(f), NEW m \in Margins, NEW blank \in Char
  PROVE  /\ Framed(NextLine(f, m, blank)) /\ Kept(f, NextLine(f, m, blank))
         /\ NextLine(f, m, blank).cursor_x = 0
         /\ NextLine(f, m, blank).cursor_y = NextY(f, m)
         /\ \A p \in Cell : Content(NextLine(f, m, blank), p) = NextText(f, m, blank, p)
<1> DEFINE y == f.cursor_y + 1
           h == scroll(f, m.top, m.bottom, blank)
           g == IF y = m.bottom THEN [h EXCEPT !.cursor_y = y - 1] ELSE [f EXCEPT !.cursor_y = y]
           last == IF g.cursor_y >= cols THEN cols - 1 ELSE g.cursor_y
           k == WithCursor(IF y = m.bottom THEN h ELSE f, 0, NextY(f, m))
<1>1. m.top \in Int /\ m.bottom \in Int /\ m.bottom <= rows
  BY Measures DEF Margins
<1>2. f.cursor_y \in 0..(cols - 1) /\ f \in Context
  BY DEF Framed, Counted
<1>3. 0 \in 0..cols /\ NextY(f, m) \in 0..(cols - 1)
  BY <1>2, Measures DEF NextY
<1>4. /\ Framed(h) /\ Kept(f, h) /\ SameCursor(f, h)
      /\ \A p \in Cell : Content(h, p) =
            IF p[2] \notin m.top..(m.bottom - 1) THEN Content(f, p)
            ELSE IF p[2] < m.bottom - 1 THEN Content(f, <<p[1], p[2] + 1>>) ELSE blank
  BY <1>1, Scrolled
<1>5. ASSUME NEW e \in Context, NEW z, NEW w
      PROVE  [[e EXCEPT !.cursor_y = z] EXCEPT !.cursor_x = 0, !.cursor_y = w] = WithCursor(e, 0, w)
  BY <1>5 DEF Context, WithCursor
<1>6. ASSUME NEW e \in Context, NEW z
      PROVE  [e EXCEPT !.cursor_y = z].cursor_y = z
  BY <1>6 DEF Context
<1>7. h \in Context /\ h.cursor_y = f.cursor_y
  BY <1>4 DEF Framed, Counted, SameCursor
<1>8. NextLine(f, m, blank) = k
  <2>1. NextLine(f, m, blank) = [g EXCEPT !.cursor_x = 0, !.cursor_y = last]
    BY DEF NextLine
  <2>2. CASE y = m.bottom
    <3>1. g = [h EXCEPT !.cursor_y = y - 1] /\ y - 1 = f.cursor_y /\ last = f.cursor_y
      <4>1. g = [h EXCEPT !.cursor_y = y - 1]
        BY <2>2
      <4>2. y - 1 = f.cursor_y
        BY <1>2
      <4>3. g.cursor_y = y - 1
        <5> HIDE DEF h, g
        <5> QED BY <4>1, <1>6, <1>7
      <4> HIDE DEF g
      <4> QED BY <4>1, <4>2, <4>3, <1>2, Measures
    <3> HIDE DEF g, last, h
    <3> QED BY <2>1, <2>2, <3>1, <1>5, <1>7 DEF NextY
  <2>3. CASE y # m.bottom
    <3>1. g = [f EXCEPT !.cursor_y = y] /\ last = IF y >= cols THEN cols - 1 ELSE y
      <4>1. g = [f EXCEPT !.cursor_y = y]
        BY <2>3
      <4>2. g.cursor_y = y
        <5> HIDE DEF g
        <5> QED BY <4>1, <1>6, <1>2
      <4> HIDE DEF g
      <4> QED BY <4>1, <4>2
    <3> HIDE DEF g, last, h
    <3> QED BY <2>1, <2>3, <3>1, <1>5, <1>2 DEF NextY
  <2> QED BY <2>2, <2>3
<1>9. /\ Framed(k) /\ k.cursor_x = 0 /\ k.cursor_y = NextY(f, m)
      /\ Kept(IF y = m.bottom THEN h ELSE f, k) /\ SameText(IF y = m.bottom THEN h ELSE f, k)
  <2> HIDE DEF h
  <2>1. Framed(IF y = m.bottom THEN h ELSE f)
    BY <1>4
  <2> QED BY <2>1, <1>3, CursorMoved
<1> HIDE DEF h, k
<1>10. Kept(f, k) /\ \A p \in Cell : Content(k, p) = NextText(f, m, blank, p)
  BY <1>4, <1>9, KeptAgain DEF SameText, NextText
<1> QED BY <1>8, <1>9, <1>10

(* One character: on the next line when this one is full. *)
Full_(f) == f.cursor_x = cols
PutX(f) == IF Full_(f) THEN 0 ELSE f.cursor_x
PutY(f, m) == IF Full_(f) THEN NextY(f, m) ELSE f.cursor_y
PutText(f, m, ch, p) == IF p = <<PutX(f), PutY(f, m)>> THEN ch
                        ELSE IF Full_(f) THEN NextText(f, m, [ch EXCEPT !.c = " "], p)
                        ELSE Content(f, p)

LEMMA RawPut ==
  ASSUME NEW f, Framed(f), NEW m \in Margins, m.scroll_enabled, NEW ch \in Char
  PROVE  /\ Framed(raw_putchar(f, m, ch)) /\ Kept(f, raw_putchar(f, m, ch))
         /\ raw_putchar(f, m, ch).cursor_x = PutX(f) + 1
         /\ raw_putchar(f, m, ch).cursor_y = PutY(f, m)
         /\ \A p \in Cell : Content(raw_putchar(f, m, ch), p) = PutText(f, m, ch, p)
<1> DEFINE blank == [ch EXCEPT !.c = " "]
           n == NextLine(f, m, blank)
           g == IF f.cursor_x >= cols /\ (f.cursor_y < m.bottom - 1 \/ m.scroll_enabled) THEN n ELSE f
           h == push_to_queue(g, ch, g.cursor_x, g.cursor_y)
           k == [h EXCEPT !.cursor_x = @ + 1]
<1>1. blank \in Char
  BY Sizes DEF Char
<1>2. f.cursor_x \in 0..cols /\ f.cursor_y \in 0..(cols - 1)
  BY DEF Framed
<1>3. g = IF Full_(f) THEN n ELSE f
  <2>1. f.cursor_x >= cols <=> Full_(f)
    BY <1>2, Measures DEF Full_
  <2> HIDE DEF n
  <2> QED BY <2>1, Zenon
<1>4. /\ Framed(g) /\ Kept(f, g) /\ g.cursor_x = PutX(f) /\ g.cursor_y = PutY(f, m)
      /\ \A p \in Cell : Content(g, p) = IF Full_(f) THEN NextText(f, m, blank, p) ELSE Content(f, p)
  <2>1. /\ Framed(n) /\ Kept(f, n) /\ n.cursor_x = 0 /\ n.cursor_y = NextY(f, m)
        /\ \A p \in Cell : Content(n, p) = NextText(f, m, blank, p)
    <3> HIDE DEF blank
    <3> QED BY <1>1, NextLined
  <2>2. Kept(f, f)
    BY DEF Kept
  <2> HIDE DEF n, g, blank
  <2> QED BY <1>3, <2>1, <2>2 DEF PutX, PutY
<1> HIDE DEF g
<1>5. /\ Framed(h) /\ Kept(g, h) /\ SameCursor(g, h)
      /\ \A p \in Cell : Content(h, p) = IF p = <<g.cursor_x, g.cursor_y>> THEN ch ELSE Content(g, p)
  <2> DEFINE u == g.cursor_x
             v == g.cursor_y
  <2>0. Framed(g)
    BY <1>4
  <2> HIDE DEF u, v, h, k, n, blank
  <2>1. LET i == push_to_queue(g, ch, u, v)
        IN /\ Framed(i) /\ Kept(g, i) /\ SameCursor(g, i)
           /\ \A p \in Cell : Content(i, p) = IF p = <<u, v>> THEN ch ELSE Content(g, p)
    <3>1. \A x, y : Framed(push_to_queue(g, ch, x, y))
      BY <2>0, PushedOne
    <3>2. \A x, y : Kept(g, push_to_queue(g, ch, x, y))
      BY <2>0, PushedOne
    <3>3. \A x, y : SameCursor(g, push_to_queue(g, ch, x, y))
      BY <2>0, PushedOne
    <3>4. \A x, y : \A p \in Cell : Content(push_to_queue(g, ch, x, y), p)
                              = IF p = <<x, y>> THEN ch ELSE Content(g, p)
      BY <2>0, PushedOne
    <3> QED BY <3>1, <3>2, <3>3, <3>4
  <2> QED BY <2>1 DEF u, v, h
<1> HIDE DEF h
<1>6. PutX(f) + 1 \in 0..cols /\ PutY(f, m) \in 0..(cols - 1)
  <2>1. PutX(f) \in 0..cols /\ PutX(f) # cols
    BY <1>2, Measures DEF PutX, Full_
  <2>2. PutY(f, m) \in 0..(cols - 1)
    BY <1>4 DEF Framed
  <2> QED BY <2>1, <2>2, Measures
<1>7. k = WithCursor(h, PutX(f) + 1, PutY(f, m))
  BY <1>4, <1>5 DEF WithCursor, Framed, Counted, Context, SameCursor
<1>8. /\ Framed(k) /\ Kept(h, k) /\ SameText(h, k)
      /\ k.cursor_x = PutX(f) + 1 /\ k.cursor_y = PutY(f, m)
  <2> HIDE DEF k
  <2> QED BY <1>5, <1>6, <1>7, CursorMoved
<1>9. raw_putchar(f, m, ch) = k
  BY DEF raw_putchar, g, h
<1> HIDE DEF k, blank
<1>10. Kept(f, k)
  BY <1>4, <1>5, <1>8, KeptAgain
<1>11. \A p \in Cell : Content(k, p) = PutText(f, m, ch, p)
  BY <1>4, <1>5, <1>8 DEF SameText, PutText, blank
<1> QED BY <1>8, <1>9, <1>10, <1>11

-----------------------------------------------------------------------------
(* The terminal's own state: types, and what the branches of               *)
(* flanterm_putchar do to the input.                                       *)
ParserOK(p) == /\ p \in Parsers /\ Len(p.esc_values) <= MAX_ESC_VALUES
               /\ p.control_sequence \/ p.osc \/ p.csi => p.escape
TermOK(t) == /\ t \in Terms
             /\ \/ t.scroll_top_margin < t.scroll_bottom_margin - 1
                \/ t.scroll_top_margin = 0 /\ t.scroll_bottom_margin = rows
PenOK(p) == p \in Pens /\ Inked(p)
Saved == [pen : Pens, current_charset : {1, 2}, cursor : (0..cols) \X (0..(cols - 1))]
SavedOK(s) == s \in Saved /\ Inked(s.pen)
TermInv == /\ Framed(fb) /\ TermOK(term) /\ ParserOK(parser) /\ PenOK(pen) /\ SavedOK(saved)
           /\ input \in Seq(STRING) \cup {NULL} /\ writes \in 0..MaxWrites

Bytewise ==
    \/ Discard \/ LeadByte \/ MoreBytes \/ LastByte
    \/ Silent \/ Escape \/ Tab \/ LineFeed \/ Backspace \/ Return \/ ShiftCharset \/ Character
    \/ ChooseCharset
    \/ BeginSequence \/ BeginOsc \/ OscByte \/ save_state \/ restore_state \/ Reset
    \/ Index \/ NewLine \/ ReverseIndex \/ SelectCharset \/ OtherEscape
    \/ SkipNext \/ PrivateMark \/ Digit \/ Separator \/ DecPrivate \/ mode_toggle
    \/ CursorUp \/ CursorDown \/ CursorTo \/ SaveCursor \/ DeleteLines \/ InsertLines
    \/ EraseDisplay \/ EraseLine \/ InsertChars \/ EraseChars \/ SetRegion \/ SelectGraphics
    \/ OtherCommand

LEMMA StepKinds == Next <=> flanterm_write \/ Flush \/ ClearScreen \/ SetColour \/ Bytewise
  BY DEF Next, Bytewise

LEMMA ReadsOne == Bytewise => Reading /\ Read
<1> SUFFICES ASSUME Bytewise PROVE Reading /\ Read
  OBVIOUS
<1> USE DEF Plain, InEscape, InSequence, InOsc, InText, Choosing, Cancelled, Continues, Leads,
            EscapeEnds, EndSequence, Final, Command
<1>1. CASE Discard \/ LeadByte \/ MoreBytes \/ LastByte
  BY <1>1 DEF Discard, LeadByte, MoreBytes, LastByte
<1>2. CASE Silent \/ Escape \/ Tab \/ LineFeed \/ Backspace \/ Return \/ ShiftCharset \/ Character
  BY <1>2 DEF Silent, Escape, Tab, LineFeed, Backspace, Return, ShiftCharset, Character
<1>3. CASE \/ ChooseCharset \/ BeginSequence \/ BeginOsc \/ OscByte \/ save_state \/ restore_state
           \/ Reset
  BY <1>3 DEF ChooseCharset, BeginSequence, BeginOsc, OscByte, save_state, restore_state, Reset
<1>4. CASE Index \/ NewLine \/ ReverseIndex \/ SelectCharset \/ OtherEscape
  BY <1>4 DEF Index, NewLine, ReverseIndex, SelectCharset, OtherEscape
<1>5. CASE SkipNext \/ PrivateMark \/ Digit \/ Separator \/ DecPrivate \/ mode_toggle
  BY <1>5 DEF SkipNext, PrivateMark, Digit, Separator, DecPrivate, mode_toggle
<1>6. CASE CursorUp \/ CursorDown \/ CursorTo \/ SaveCursor \/ DeleteLines \/ InsertLines
  BY <1>6 DEF CursorUp, CursorDown, CursorTo, SaveCursor, DeleteLines, InsertLines
<1>7. CASE \/ EraseDisplay \/ EraseLine \/ InsertChars \/ EraseChars \/ SetRegion \/ SelectGraphics
           \/ OtherCommand
  BY <1>7 DEF EraseDisplay, EraseLine, InsertChars, EraseChars, SetRegion, SelectGraphics,
              OtherCommand
<1> QED BY <1>1, <1>2, <1>3, <1>4, <1>5, <1>6, <1>7 DEF Bytewise

LEMMA TailType == ASSUME NEW s \in Seq(STRING), s # <<>> PROVE Tail(s) \in Seq(STRING)
  OBVIOUS

LEMMA InputTypes ==
  TermInv /\ Next => input' \in Seq(STRING) \cup {NULL} /\ writes' \in 0..MaxWrites
<1> SUFFICES ASSUME TermInv, Next
             PROVE  input' \in Seq(STRING) \cup {NULL} /\ writes' \in 0..MaxWrites
  OBVIOUS
<1>1. input \in Seq(STRING) \cup {NULL} /\ writes \in 0..MaxWrites /\ MaxWrites \in Nat
  BY TerminalAssumption DEF TermInv, TerminalAssumption
<1>2. CASE flanterm_write
  <2>1. input' \in Writes /\ writes < MaxWrites /\ writes' = writes + 1
    BY <1>2 DEF flanterm_write
  <2>2. Writes \subseteq Seq(STRING)
    BY TerminalAssumption DEF TerminalAssumption
  <2> QED BY <1>1, <2>1, <2>2
<1>3. CASE Flush
  BY <1>1, <1>3 DEF Flush
<1>4. CASE ClearScreen \/ SetColour
  <2>1. writes < MaxWrites /\ writes' = writes + 1 /\ input' = input
    BY <1>4 DEF ClearScreen, SetColour
  <2> QED BY <1>1, <2>1
<1>5. CASE Bytewise
  <2>1. Reading /\ Read
    BY <1>5, ReadsOne
  <2>2. input \in Seq(STRING) /\ input # <<>> /\ input' = Tail(input) /\ writes' = writes
    BY <1>1, <2>1 DEF Reading, Read
  <2> QED BY <1>1, <2>2, TailType
<1> QED BY <1>2, <1>3, <1>4, <1>5, StepKinds

(* The constants, one fact at a time. *)
LEMMA Limits == MaxWrites \in Nat /\ MAX_ESC_VALUES \in Nat
  BY TerminalAssumption, Zenon DEF TerminalAssumption
LEMMA LeadType == ASSUME NEW b \in DOMAIN Lead PROVE Lead[b] \in 1..3 /\ b \in DOMAIN Payload
<1>1. Lead \in [DOMAIN Lead -> 1..3] /\ DOMAIN Lead \subseteq DOMAIN Payload
  BY TerminalAssumption, Zenon DEF TerminalAssumption
<1> QED BY <1>1
LEMMA PayloadType == ASSUME NEW b \in DOMAIN Payload PROVE Payload[b] \in Nat
<1>1. Payload \in [DOMAIN Payload -> Nat]
  BY TerminalAssumption, Zenon DEF TerminalAssumption
<1> QED BY <1>1
LEMMA NoValues == <<>> \in Seq(Nat) /\ Len(<<>>) = 0
  OBVIOUS

(* The parser. *)
LEMMA Resets == ASSUME ParserOK(parser)
                PROVE  ParserOK(NoSequence) /\ ParserOK(Parser) /\ ParserOK(Done)
<1>1. <<>> \in Seq(Nat) /\ Len(<<>>) = 0 /\ MAX_ESC_VALUES \in Nat
  BY Limits, NoValues
<1>2. parser \in Parsers
  BY DEF ParserOK
<1>3. ParserOK(NoSequence)
  BY <1>1 DEF ParserOK, NoSequence, Parsers
<1>4. /\ Parser \in Parsers /\ Parser.esc_values = parser.esc_values
      /\ Parser.control_sequence = parser.control_sequence /\ Parser.osc = parser.osc
      /\ Parser.csi = parser.csi /\ Parser.escape = parser.escape
  <2> DEFINE q == [parser EXCEPT !.unicode_remaining = 0, !.code_point = 0]
  <2>1. q \in Parsers
    <3> DEFINE at(r, c) == [parser EXCEPT !.unicode_remaining = r, !.code_point = c]
    <3>1. \A r \in 0..3, c \in Nat : at(r, c) \in Parsers
      BY <1>2 DEF Parsers
    <3> HIDE DEF at
    <3>2. at(0, 0) \in Parsers
      BY <3>1
    <3> QED BY <3>2 DEF at
  <2>2. q.esc_values = parser.esc_values /\ q.control_sequence = parser.control_sequence
    BY <1>2 DEF Parsers
  <2>3. q.osc = parser.osc /\ q.csi = parser.csi /\ q.escape = parser.escape
    BY <1>2 DEF Parsers
  <2> HIDE DEF q
  <2> QED BY <2>1, <2>2, <2>3 DEF Parser, q
<1>5. ParserOK(Parser)
  BY <1>4 DEF ParserOK
<1>6. ParserOK(Done)
  <2>1. parser.dec_private \in BOOLEAN
    BY <1>2 DEF Parsers
  <2>2. NoSequence \in Parsers /\ Done = [NoSequence EXCEPT !.dec_private = parser.dec_private]
    BY <1>3 DEF ParserOK, Done
  <2>3. Done \in Parsers /\ Done.esc_values = NoSequence.esc_values
    BY <2>1, <2>2 DEF Parsers
  <2>4. ~Done.control_sequence /\ ~Done.osc /\ ~Done.csi
    BY <2>2 DEF NoSequence
  <2> QED BY <1>3, <2>3, <2>4 DEF ParserOK
<1> QED BY <1>3, <1>5, <1>6

LEMMA DigitType == ASSUME NEW b \in DOMAIN Digits PROVE Digits[b] \in Nat
<1>1. PICK i \in 1..10 : b = digit[i]
  BY DEF Digits
<1>2. i - 1 \in 0..9 /\ digit[i - 1 + 1] = b
  BY <1>1
<1>3. Digits[b] = CHOOSE n \in 0..9 : digit[n + 1] = b
  BY DEF Digits
<1> HIDE DEF Digits
<1>4. Digits[b] \in 0..9
  BY <1>2, <1>3
<1> QED BY <1>4

LEMMA ParserTypes == TermInv /\ Next => ParserOK(parser')
<1> SUFFICES ASSUME TermInv, Next PROVE ParserOK(parser')
  OBVIOUS
<1>0. ParserOK(parser) /\ ParserOK(NoSequence) /\ ParserOK(Parser) /\ ParserOK(Done)
      /\ parser \in Parsers
  BY Resets DEF TermInv, ParserOK
<1>1. CASE flanterm_write \/ Flush \/ ClearScreen \/ SetColour
  BY <1>0, <1>1 DEF flanterm_write, Flush, ClearScreen, SetColour
<1>3. CASE Discard \/ LastByte \/ Silent \/ Tab \/ LineFeed \/ Backspace \/ Return \/ ShiftCharset
           \/ Character \/ ChooseCharset \/ Reset
  BY <1>0, <1>3 DEF Discard, LastByte, Silent, Tab, LineFeed, Backspace, Return, ShiftCharset,
     Character, ChooseCharset, Reset
<1>4. CASE LeadByte
  <2>1. /\ Byte \in DOMAIN Lead
        /\ parser' = [parser EXCEPT !.unicode_remaining = Lead[Byte], !.code_point = Payload[Byte]]
    BY <1>4 DEF LeadByte, Leads
  <2>2. Lead[Byte] \in 0..3 /\ Payload[Byte] \in Nat
    BY <2>1, LeadType, PayloadType
  <2> QED BY <1>0, <2>1, <2>2 DEF ParserOK, Parsers
<1>5. CASE MoreBytes
  <2>1. /\ Byte \in DOMAIN Payload /\ parser.unicode_remaining > 1
        /\ parser' = [parser EXCEPT !.unicode_remaining = @ - 1, !.code_point = CodePoint]
    BY <1>5 DEF MoreBytes, Continues, Continuation
  <2>2. parser.unicode_remaining \in 0..3 /\ parser.code_point \in Nat
    BY <1>0 DEF Parsers
  <2>3. CodePoint \in Nat
    <3>1. Payload[Byte] \in Nat
      BY <2>1, PayloadType
    <3> QED BY <2>2, <3>1 DEF CodePoint
  <2>4. parser.unicode_remaining - 1 \in 0..3
    BY <2>1, <2>2
  <2> QED BY <1>0, <2>1, <2>3, <2>4 DEF ParserOK, Parsers
<1>6. CASE Escape
  <2>1. \E on \in BOOLEAN : parser' = [Parser EXCEPT !.escape = TRUE, !.csi = on]
    BY <1>6 DEF Escape
  <2> QED BY <1>0, <2>1 DEF ParserOK, Parsers
<1>7. Offset \in 0..3
  <2>1. parser.escape_offset \in 0..3
    BY <1>0 DEF Parsers
  <2> QED BY <2>1 DEF Offset
<1>8. Parser.escape = parser.escape /\ Parser.esc_values = parser.esc_values
      /\ Parser.control_sequence = parser.control_sequence /\ Parser.osc = parser.osc
      /\ Parser.csi = parser.csi /\ Parser.rrr = parser.rrr
  BY <1>0 DEF Parser, Parsers
<1>9. CASE BeginSequence
  <2>1. /\ parser.escape
        /\ parser' = [Parser EXCEPT !.escape_offset = Offset, !.csi = FALSE,
                         !.control_sequence = TRUE, !.rrr = FALSE, !.esc_values = <<>>]
    BY <1>9 DEF BeginSequence, InEscape
  <2>2. <<>> \in Seq(Nat) /\ Len(<<>>) = 0 /\ MAX_ESC_VALUES \in Nat
    BY Limits, NoValues
  <2> DEFINE q(o) == [Parser EXCEPT !.escape_offset = o, !.csi = FALSE,
                         !.control_sequence = TRUE, !.rrr = FALSE, !.esc_values = <<>>]
  <2>3. \A o \in 0..3 : q(o) \in Parsers /\ q(o).esc_values = <<>> /\ q(o).escape
    BY <1>0, <1>8, <2>1, <2>2, ZenonT(60) DEF ParserOK, Parsers
  <2> HIDE DEF q
  <2>4. ParserOK(q(Offset))
    BY <1>7, <2>2, <2>3 DEF ParserOK
  <2> QED BY <2>1, <2>4 DEF q
<1>10. CASE BeginOsc
  <2>1. /\ parser.escape
        /\ parser' = [Parser EXCEPT !.escape_offset = Offset, !.osc = TRUE, !.osc_escape = FALSE]
    BY <1>10 DEF BeginOsc, InEscape
  <2> QED BY <1>0, <1>7, <1>8, <2>1 DEF ParserOK, Parsers
<1>11. CASE OscByte
  <2>1. \/ parser' = Done
        \/ \E on \in BOOLEAN : parser' = [Parser EXCEPT !.escape_offset = Offset, !.osc_escape = on]
    BY <1>11 DEF OscByte
  <2> QED BY <1>0, <1>7, <2>1 DEF ParserOK, Parsers
<1>12. CASE save_state \/ restore_state \/ Index \/ NewLine \/ ReverseIndex \/ SelectCharset
            \/ OtherEscape
  BY <1>0, <1>12 DEF save_state, restore_state, Index, NewLine, ReverseIndex, SelectCharset,
     OtherEscape, EscapeEnds, EndSequence
<1>13. CASE SkipNext
  <2>1. parser' = [Done EXCEPT !.discard_next = TRUE]
    BY <1>13 DEF SkipNext
  <2> QED BY <1>0, <2>1 DEF ParserOK, Parsers
<1>14. CASE PrivateMark
  <2>1. parser' = [Parser EXCEPT !.escape_offset = Offset, !.dec_private = TRUE]
    BY <1>14 DEF PrivateMark
  <2> QED BY <1>0, <1>7, <2>1 DEF ParserOK, Parsers
<1>15. ASSUME NEW on \in BOOLEAN, NEW v \in Seq(Nat), Len(v) <= MAX_ESC_VALUES
       PROVE  ParserOK([Parser EXCEPT !.escape_offset = Offset, !.rrr = on, !.esc_values = v])
  BY <1>0, <1>7, <1>15 DEF ParserOK, Parsers
<1>16. /\ parser.esc_values \in Seq(Nat) /\ Len(parser.esc_values) <= MAX_ESC_VALUES
       /\ parser.rrr \in BOOLEAN
  BY <1>0 DEF ParserOK, Parsers
<1>17. ASSUME NEW d \in Nat, ~Full
       PROVE  Append(parser.esc_values, d) \in Seq(Nat)
              /\ Len(Append(parser.esc_values, d)) <= MAX_ESC_VALUES
  <2>1. MAX_ESC_VALUES \in Nat
    BY Limits
  <2> QED BY <1>16, <1>17, <2>1 DEF Full
<1>18. CASE Digit
  <2> DEFINE v == parser.esc_values
             d == Digits[Byte]
             w == IF parser.rrr THEN [v EXCEPT ![Len(v)] = @ * 10 + d]
                  ELSE IF Full THEN v ELSE Append(v, d)
             on == Parser.rrr \/ ~Full
  <2>1. parser' = [Parser EXCEPT !.escape_offset = Offset, !.rrr = on, !.esc_values = w]
        /\ d \in Nat
    BY <1>18, DigitType DEF Digit
  <2>2. w \in Seq(Nat) /\ Len(w) <= MAX_ESC_VALUES
    <3>1. CASE parser.rrr
      <4>0. w = [v EXCEPT ![Len(v)] = v[Len(v)] * 10 + d]
        BY <3>1
      <4>1. CASE v = <<>>
        <5>1. w = v
          BY <4>0, <4>1
        <5> QED BY <5>1, <1>16
      <4>2. CASE v # <<>>
        <5>1. Len(v) \in 1..Len(v) /\ v[Len(v)] \in Nat
          BY <4>2, <1>16
        <5>2. v[Len(v)] * 10 + d \in Nat
          BY <5>1, <2>1
        <5> HIDE DEF v, d
        <5>3. w \in Seq(Nat) /\ Len(w) = Len(v)
          BY <4>0, <5>1, <5>2, <1>16 DEF v
        <5> QED BY <5>3, <1>16 DEF v
      <4> QED BY <4>1, <4>2
    <3>2. CASE ~parser.rrr
      BY <3>2, <2>1, <1>16, <1>17
    <3> QED BY <3>1, <3>2
  <2>3. on \in BOOLEAN
    OBVIOUS
  <2> HIDE DEF w, on
  <2> QED BY <2>1, <2>2, <2>3, <1>15
<1>19. CASE Separator
  <2> DEFINE w == IF parser.rrr \/ Full THEN parser.esc_values ELSE Append(parser.esc_values, 0)
  <2>1. parser' = [Parser EXCEPT !.escape_offset = Offset, !.rrr = FALSE, !.esc_values = w]
    BY <1>8, <1>19 DEF Separator
  <2>2. w \in Seq(Nat) /\ Len(w) <= MAX_ESC_VALUES
    BY <1>16, <1>17
  <2> HIDE DEF w
  <2> QED BY <2>1, <2>2, <1>15
<1>20. CASE DecPrivate
  BY <1>0, <1>20 DEF DecPrivate
<1>21. CASE mode_toggle \/ CursorUp \/ CursorDown \/ CursorTo \/ SaveCursor \/ DeleteLines
            \/ InsertLines
  BY <1>0, <1>21 DEF mode_toggle, CursorUp, CursorDown, CursorTo, SaveCursor, DeleteLines,
     InsertLines, Command, EndSequence
<1>22. CASE EraseDisplay \/ EraseLine \/ InsertChars \/ EraseChars \/ SetRegion \/ SelectGraphics
            \/ OtherCommand
  BY <1>0, <1>22 DEF EraseDisplay, EraseLine, InsertChars, EraseChars, SetRegion, SelectGraphics,
     OtherCommand, Command, EndSequence
<1> QED BY <1>1, <1>3, <1>4, <1>5, <1>6, <1>9, <1>10, <1>11, <1>12, <1>13, <1>14, <1>18, <1>19,
           <1>20, <1>21, <1>22 DEF Next

-----------------------------------------------------------------------------
(* The pen: the side in front, the side behind, and what each stands for.  *)
Front(p) == IF p.reverse_video THEN p.text_bg ELSE p.text_fg
Behind(p) == IF p.reverse_video THEN p.text_fg ELSE p.text_bg
FrontDirect(p) == IF p.reverse_video THEN p.bg_direct ELSE p.fg_direct
BehindDirect(p) == IF p.reverse_video THEN p.fg_direct ELSE p.bg_direct
StandsFor(colour, n) == colour \in {Bright(n, FALSE), Bright(n, TRUE)}

LEMMA InkedIs ==
  ASSUME NEW p \in Pens
  PROVE  Inked(p) <=> /\ p.current_primary # NoColour /\ ~FrontDirect(p) => StandsFor(Front(p), p.current_primary)
                      /\ p.current_bg # NoColour /\ ~BehindDirect(p) => StandsFor(Behind(p), p.current_bg)
<1>1. CASE p.reverse_video
  BY <1>1 DEF Inked, Front, Behind, FrontDirect, BehindDirect, StandsFor
<1>2. CASE ~p.reverse_video
  BY <1>2 DEF Inked, Front, Behind, FrontDirect, BehindDirect, StandsFor
<1> QED BY <1>1, <1>2

LEMMA BrightType ==
  ASSUME NEW n \in 0..7, NEW on \in BOOLEAN
  PROVE  Bright(n, on) \in Int /\ StandsFor(Bright(n, on), n)
<1>1. n + 1 \in 1..8
  OBVIOUS
<1>2. \A i \in 1..8 : ansi_colours[i] \in Int /\ ansi_bright_colours[i] \in Int
  BY DEF ansi_colours, ansi_bright_colours
<1>3. Bright(n, on) \in Int
  BY <1>1, <1>2 DEF Bright
<1> QED BY <1>3 DEF StandsFor

(* A colour put on one side, and what it is to stand for. *)
LEMMA ForeOK ==
  ASSUME NEW p, PenOK(p), NEW c \in Int, NEW n \in -1..7, n # NoColour => StandsFor(c, n),
         NEW on \in BOOLEAN
  PROVE  PenOK([Fore(p, c) EXCEPT !.current_primary = n, !.bold = on])
<1> DEFINE q == [Fore(p, c) EXCEPT !.current_primary = n, !.bold = on]
<1>1. p \in Pens /\ Inked(p)
  BY DEF PenOK
<1>2. q \in Pens
  BY <1>1 DEF Pens, Fore, TextFg, TextBg
<1>3. /\ Front(q) = c /\ Behind(q) = Behind(p) /\ BehindDirect(q) = BehindDirect(p)
      /\ q.current_primary = n /\ q.current_bg = p.current_bg
  <2>1. CASE p.reverse_video
    BY <1>1, <2>1 DEF Pens, Fore, TextFg, TextBg, Front, Behind, BehindDirect
  <2>2. CASE ~p.reverse_video
    BY <1>1, <2>2 DEF Pens, Fore, TextFg, TextBg, Front, Behind, BehindDirect
  <2> QED BY <2>1, <2>2
<1> HIDE DEF q
<1> QED BY <1>1, <1>2, <1>3, InkedIs DEF PenOK, q

LEMMA BackOK ==
  ASSUME NEW p, PenOK(p), NEW c \in Int, NEW n \in -1..7, n # NoColour => StandsFor(c, n),
         NEW on \in BOOLEAN
  PROVE  PenOK([Back(p, c) EXCEPT !.current_bg = n, !.bg_bold = on])
<1> DEFINE q == [Back(p, c) EXCEPT !.current_bg = n, !.bg_bold = on]
<1>1. p \in Pens /\ Inked(p)
  BY DEF PenOK
<1>2. q \in Pens
  BY <1>1 DEF Pens, Back, TextFg, TextBg
<1>3. /\ Behind(q) = c /\ Front(q) = Front(p) /\ FrontDirect(q) = FrontDirect(p)
      /\ q.current_bg = n /\ q.current_primary = p.current_primary
  <2>1. CASE p.reverse_video
    BY <1>1, <2>1 DEF Pens, Back, TextFg, TextBg, Front, Behind, FrontDirect
  <2>2. CASE ~p.reverse_video
    BY <1>1, <2>2 DEF Pens, Back, TextFg, TextBg, Front, Behind, FrontDirect
  <2> QED BY <2>1, <2>2
<1> HIDE DEF q
<1> QED BY <1>1, <1>2, <1>3, InkedIs DEF PenOK, q

LEMMA ForeParts ==
  ASSUME NEW p, PenOK(p), NEW c \in Int, NEW n \in -1..7, n # NoColour => StandsFor(c, n)
  PROVE  /\ PenOK([Fore(p, c) EXCEPT !.current_primary = n])
         /\ \A on \in BOOLEAN : n = p.current_primary => PenOK([Fore(p, c) EXCEPT !.bold = on])
<1>1. p \in Pens /\ Fore(p, c) \in Pens /\ p.bold \in BOOLEAN
  BY DEF PenOK, Pens, Fore, TextFg, TextBg
<1>2. Fore(p, c).bold = p.bold /\ Fore(p, c).current_primary = p.current_primary
  BY <1>1 DEF Pens, Fore, TextFg, TextBg
<1>3. [Fore(p, c) EXCEPT !.current_primary = n]
        = [Fore(p, c) EXCEPT !.current_primary = n, !.bold = p.bold]
  BY <1>1, <1>2 DEF Pens
<1>4. \A on \in BOOLEAN : n = p.current_primary =>
         [Fore(p, c) EXCEPT !.bold = on] = [Fore(p, c) EXCEPT !.current_primary = n, !.bold = on]
  BY <1>1, <1>2 DEF Pens
<1>5. PenOK([Fore(p, c) EXCEPT !.current_primary = n, !.bold = p.bold])
  BY <1>1, ForeOK
<1>6. \A on \in BOOLEAN : PenOK([Fore(p, c) EXCEPT !.current_primary = n, !.bold = on])
  BY ForeOK
<1> QED BY <1>3, <1>4, <1>5, <1>6, Zenon

LEMMA BackParts ==
  ASSUME NEW p, PenOK(p), NEW c \in Int, NEW n \in -1..7, n # NoColour => StandsFor(c, n)
  PROVE  /\ PenOK([Back(p, c) EXCEPT !.current_bg = n])
         /\ \A on \in BOOLEAN : n = p.current_bg => PenOK([Back(p, c) EXCEPT !.bg_bold = on])
<1>1. p \in Pens /\ Back(p, c) \in Pens /\ p.bg_bold \in BOOLEAN
  BY DEF PenOK, Pens, Back, TextFg, TextBg
<1>2. Back(p, c).bg_bold = p.bg_bold /\ Back(p, c).current_bg = p.current_bg
  BY <1>1 DEF Pens, Back, TextFg, TextBg
<1>3. [Back(p, c) EXCEPT !.current_bg = n]
        = [Back(p, c) EXCEPT !.current_bg = n, !.bg_bold = p.bg_bold]
  BY <1>1, <1>2 DEF Pens
<1>4. \A on \in BOOLEAN : n = p.current_bg =>
         [Back(p, c) EXCEPT !.bg_bold = on] = [Back(p, c) EXCEPT !.current_bg = n, !.bg_bold = on]
  BY <1>1, <1>2 DEF Pens
<1>5. PenOK([Back(p, c) EXCEPT !.current_bg = n, !.bg_bold = p.bg_bold])
  BY <1>1, BackOK
<1>6. \A on \in BOOLEAN : PenOK([Back(p, c) EXCEPT !.current_bg = n, !.bg_bold = on])
  BY BackOK
<1> QED BY <1>3, <1>4, <1>5, <1>6, Zenon

LEMMA Defaults ==
  /\ default_fg \in Int /\ default_fg_bright \in Int /\ default_bg_bright \in Int
  /\ Transparent \in Int
  /\ \A p : \A on \in BOOLEAN : DefaultFore(p, on) \in Int /\ DefaultBack(p, on) \in Int
  BY DEF default_fg, default_fg_bright, default_bg_bright, Transparent, DefaultFore, DefaultBack

LEMMA BoldOK ==
  ASSUME NEW p, PenOK(p), NEW on \in BOOLEAN PROVE PenOK(Bold(p, on)) /\ PenOK(BgBold(p, on))
<1> DEFINE c == IF p.current_primary = NoColour THEN DefaultFore(p, on) ELSE Bright(p.current_primary, on)
           d == IF p.current_bg = NoColour THEN DefaultBack(p, on) ELSE Bright(p.current_bg, on)
<1>1. p.current_primary \in -1..7 /\ p.current_bg \in -1..7
  BY DEF PenOK, Pens
<1>2. \A n \in -1..7 : n # NoColour => n \in 0..7
  BY DEF NoColour
<1>3. c \in Int /\ (p.current_primary # NoColour => StandsFor(c, p.current_primary))
  BY <1>1, <1>2, Defaults, BrightType
<1>4. d \in Int /\ (p.current_bg # NoColour => StandsFor(d, p.current_bg))
  BY <1>1, <1>2, Defaults, BrightType
<1>5. Bold(p, on) = [Fore(p, c) EXCEPT !.bold = on] /\ BgBold(p, on) = [Back(p, d) EXCEPT !.bg_bold = on]
  BY DEF Bold, BgBold
<1> HIDE DEF c, d
<1>6. PenOK([Fore(p, c) EXCEPT !.bold = on])
  BY <1>1, <1>3, ForeParts
<1>7. PenOK([Back(p, d) EXCEPT !.bg_bold = on])
  BY <1>1, <1>4, BackParts
<1> QED BY <1>5, <1>6, <1>7

LEMMA ForgetOK ==
  ASSUME NEW p, PenOK(p) PROVE PenOK(ForgetFore(p)) /\ PenOK(ForgetBack(p))
<1> DEFINE c == IF p.bold THEN default_fg_bright ELSE default_fg
           d == IF p.bg_bold THEN default_bg_bright ELSE Transparent
<1>1. c \in Int /\ d \in Int
  BY Defaults
<1>2. NoColour \in -1..7
  BY DEF NoColour
<1>3. ForgetFore(p) = [Fore(p, c) EXCEPT !.current_primary = NoColour]
      /\ ForgetBack(p) = [Back(p, d) EXCEPT !.current_bg = NoColour]
  BY DEF ForgetFore, ForgetBack
<1> HIDE DEF c, d
<1>4. PenOK([Fore(p, c) EXCEPT !.current_primary = NoColour])
  BY <1>1, <1>2, ForeParts
<1>5. PenOK([Back(p, d) EXCEPT !.current_bg = NoColour])
  BY <1>1, <1>2, BackParts
<1> QED BY <1>3, <1>4, <1>5

(* The two sides change places, and so does what is known of them. *)
LEMMA ReverseOK ==
  ASSUME NEW p, PenOK(p), NEW on \in BOOLEAN PROVE PenOK(ReverseVideo(p, on))
<1> DEFINE q == [swap_palette(p) EXCEPT !.reverse_video = on]
<1>1. p \in Pens /\ Inked(p) /\ p.reverse_video \in BOOLEAN
  BY DEF PenOK, Pens
<1>2. CASE p.reverse_video = on
  BY <1>2 DEF ReverseVideo
<1>3. CASE p.reverse_video # on
  <2>1. q \in Pens
    BY <1>1 DEF Pens, swap_palette
  <2>2. /\ q.text_fg = p.text_bg /\ q.text_bg = p.text_fg /\ q.fg_direct = p.bg_direct
        /\ q.bg_direct = p.fg_direct /\ q.reverse_video = on
        /\ q.current_primary = p.current_primary /\ q.current_bg = p.current_bg
    BY <1>1 DEF Pens, swap_palette
  <2>3. ReverseVideo(p, on) = q
    BY <1>3 DEF ReverseVideo
  <2> HIDE DEF q
  <2>4. Front(q) = Front(p) /\ Behind(q) = Behind(p)
    BY <1>1, <1>3, <2>2 DEF Front, Behind
  <2>5. FrontDirect(q) = FrontDirect(p) /\ BehindDirect(q) = BehindDirect(p)
    <3>1. CASE p.reverse_video
      <4>1. ~on /\ ~q.reverse_video
        BY <1>3, <2>2, <3>1
      <4> QED BY <2>2, <3>1, <4>1, Zenon DEF FrontDirect, BehindDirect
    <3>2. CASE ~p.reverse_video
      <4>1. on /\ q.reverse_video
        BY <1>1, <1>3, <2>2, <3>2
      <4> QED BY <2>2, <3>2, <4>1, Zenon DEF FrontDirect, BehindDirect
    <3> QED BY <3>1, <3>2
  <2> QED BY <1>1, <2>1, <2>2, <2>3, <2>4, <2>5, InkedIs DEF PenOK
<1> QED BY <1>2, <1>3

(* Past current_*: nothing is claimed of that side any more. *)
LEMMA DirectOK ==
  ASSUME NEW p, PenOK(p), NEW c \in Int
  PROVE  PenOK(TextFg(p, c, TRUE)) /\ PenOK(TextBg(p, c, TRUE))
<1>1. p \in Pens /\ Inked(p)
  BY DEF PenOK
<1>2. PenOK(TextFg(p, c, TRUE))
  <2> DEFINE q == TextFg(p, c, TRUE)
  <2>1. /\ q \in Pens /\ q.fg_direct /\ q.text_bg = p.text_bg /\ q.bg_direct = p.bg_direct
        /\ q.reverse_video = p.reverse_video
        /\ q.current_primary = p.current_primary /\ q.current_bg = p.current_bg
    BY <1>1 DEF Pens, TextFg
  <2> HIDE DEF q
  <2>2. CASE p.reverse_video
    BY <1>1, <2>1, <2>2, InkedIs DEF PenOK, Front, Behind, FrontDirect, BehindDirect, q
  <2>3. CASE ~p.reverse_video
    BY <1>1, <2>1, <2>3, InkedIs DEF PenOK, Front, Behind, FrontDirect, BehindDirect, q
  <2> QED BY <2>2, <2>3
<1>3. PenOK(TextBg(p, c, TRUE))
  <2> DEFINE q == TextBg(p, c, TRUE)
  <2>1. /\ q \in Pens /\ q.bg_direct /\ q.text_fg = p.text_fg /\ q.fg_direct = p.fg_direct
        /\ q.reverse_video = p.reverse_video
        /\ q.current_primary = p.current_primary /\ q.current_bg = p.current_bg
    BY <1>1 DEF Pens, TextBg
  <2> HIDE DEF q
  <2>2. CASE p.reverse_video
    BY <1>1, <2>1, <2>2, InkedIs DEF PenOK, Front, Behind, FrontDirect, BehindDirect, q
  <2>3. CASE ~p.reverse_video
    BY <1>1, <2>1, <2>3, InkedIs DEF PenOK, Front, Behind, FrontDirect, BehindDirect, q
  <2> QED BY <2>2, <2>3
<1> QED BY <1>2, <1>3

LEMMA PlainPenOK == PenOK(PlainPen)
<1>1. PlainPen \in Pens
  BY Defaults DEF Pens, PlainPen, NoColour
<1>2. PlainPen.current_primary = NoColour /\ PlainPen.current_bg = NoColour
  BY DEF PlainPen
<1> QED BY <1>1, <1>2, InkedIs DEF PenOK

LEMMA ValueOK == ASSUME NEW p, PenOK(p), NEW v \in Nat PROVE PenOK(sgr_value(p, v))
<1>0. p \in Pens /\ p.bold \in BOOLEAN /\ p.bg_bold \in BOOLEAN
  BY DEF PenOK, Pens
<1>1. ASSUME NEW n \in 0..7, NEW on \in BOOLEAN
      PROVE  /\ PenOK([Fore(p, Bright(n, on)) EXCEPT !.current_primary = n])
             /\ PenOK([Back(p, Bright(n, on)) EXCEPT !.current_bg = n])
  <2>1. n \in -1..7 /\ Bright(n, on) \in Int /\ StandsFor(Bright(n, on), n)
    BY BrightType
  <2> QED BY <2>1, ForeParts, BackParts
<1>2. CASE v \in {0, 1, 5, 22, 25}
  <2>1. /\ PenOK(PlainPen) /\ PenOK(Bold(p, TRUE)) /\ PenOK(BgBold(p, TRUE))
        /\ PenOK(Bold(p, FALSE)) /\ PenOK(BgBold(p, FALSE))
    BY PlainPenOK, BoldOK
  <2>2. sgr_value(p, v) \in {PlainPen, Bold(p, TRUE), BgBold(p, TRUE), Bold(p, FALSE), BgBold(p, FALSE)}
    <3>1. v = 0 \/ v = 1 \/ v = 5 \/ v = 22 \/ v = 25
      BY <1>2
    <3>2. /\ sgr_value(p, 0) = PlainPen /\ sgr_value(p, 1) = Bold(p, TRUE)
          /\ sgr_value(p, 5) = BgBold(p, TRUE) /\ sgr_value(p, 22) = Bold(p, FALSE)
          /\ sgr_value(p, 25) = BgBold(p, FALSE)
      BY DEF sgr_value
    <3> QED BY <3>1, <3>2
  <2> QED BY <2>1, <2>2
<1>3. CASE v \in 30..37
  <2>1. /\ v - 30 \in 0..7 /\ \A n \in {0, 1, 5, 22, 25, 39, 49, 7, 27} : v # n
        /\ v \notin 40..47 /\ v \notin 90..97 /\ v \notin 100..107
    BY <1>3
  <2>2. sgr_value(p, v) = [Fore(p, Bright(v - 30, p.bold)) EXCEPT !.current_primary = v - 30]
    BY <1>3, <2>1, Zenon DEF sgr_value
  <2> QED BY <1>0, <1>1, <2>1, <2>2
<1>4. CASE v \in 40..47
  <2>1. /\ v - 40 \in 0..7 /\ \A n \in {0, 1, 5, 22, 25, 39, 49, 7, 27} : v # n
        /\ v \notin 30..37 /\ v \notin 90..97 /\ v \notin 100..107
    BY <1>4
  <2>2. sgr_value(p, v) = [Back(p, Bright(v - 40, p.bg_bold)) EXCEPT !.current_bg = v - 40]
    BY <1>4, <2>1, Zenon DEF sgr_value
  <2> QED BY <1>0, <1>1, <2>1, <2>2
<1>5. CASE v \in 90..97
  <2>1. /\ v - 90 \in 0..7 /\ \A n \in {0, 1, 5, 22, 25, 39, 49, 7, 27} : v # n
        /\ v \notin 30..37 /\ v \notin 40..47 /\ v \notin 100..107
    BY <1>5
  <2>2. sgr_value(p, v) = [Fore(p, Bright(v - 90, TRUE)) EXCEPT !.current_primary = v - 90]
    BY <1>5, <2>1, Zenon DEF sgr_value
  <2> QED BY <1>0, <1>1, <2>1, <2>2
<1>6. CASE v \in 100..107
  <2>1. /\ v - 100 \in 0..7 /\ \A n \in {0, 1, 5, 22, 25, 39, 49, 7, 27} : v # n
        /\ v \notin 30..37 /\ v \notin 40..47 /\ v \notin 90..97
    BY <1>6
  <2>2. sgr_value(p, v) = [Back(p, Bright(v - 100, TRUE)) EXCEPT !.current_bg = v - 100]
    BY <1>6, <2>1, Zenon DEF sgr_value
  <2> QED BY <1>0, <1>1, <2>1, <2>2
<1>7. CASE v \notin {0, 1, 5, 22, 25} \cup 30..37 \cup 40..47 \cup 90..97 \cup 100..107
  <2>1. sgr_value(p, v) \in {ForgetFore(p), ForgetBack(p), ReverseVideo(p, TRUE),
                             ReverseVideo(p, FALSE), p}
    BY <1>7 DEF sgr_value
  <2> QED BY <2>1, ForgetOK, ReverseOK
<1> QED BY <1>2, <1>3, <1>4, <1>5, <1>6, <1>7

LEMMA PaletteType == ASSUME NEW n \in Nat PROVE Palette(n) \in Int
<1>1. CASE n < 8
  <2>1. n \in 0..7 /\ Palette(n) = Bright(n, FALSE)
    BY <1>1 DEF Palette
  <2> QED BY <2>1, BrightType
<1>2. CASE n >= 8 /\ n < 16
  <2>1. n - 8 \in 0..7 /\ Palette(n) = Bright(n - 8, TRUE)
    <3>1. ~(n < 8) /\ n - 8 \in 0..7
      BY <1>2
    <3> QED BY <1>2, <3>1, Zenon DEF Palette
  <2> QED BY <2>1, BrightType
<1>3. CASE n >= 16
  <2> DEFINE i == n - 16
             level == <<0, 95, 135, 175, 215, 255>>
  <2>1. i \in Nat /\ Palette(n) = col256(n)
    <3>1. ~(n < 8) /\ ~(n < 16) /\ i \in Nat
      BY <1>3
    <3> QED BY <3>1, Zenon DEF Palette
  <2>2. CASE i < 216
    <3>1. /\ i \div 36 + 1 \in 1..6 /\ ((i \div 6) % 6) + 1 \in 1..6 /\ (i % 6) + 1 \in 1..6
      BY <2>1, <2>2
    <3>2. \A k \in 1..6 : level[k] \in Int
      OBVIOUS
    <3>3. \A r, g, b \in Int : Rgb(r, g, b) \in Int
      BY DEF Rgb
    <3>4. col256(n) = Rgb(level[i \div 36 + 1], level[((i \div 6) % 6) + 1], level[(i % 6) + 1])
      BY <2>2 DEF col256
    <3> HIDE DEF level, i
    <3> QED BY <2>1, <3>1, <3>2, <3>3, <3>4, ZenonT(60)
  <2>3. CASE i >= 216
    <3>1. col256(n) = Rgb(8 + 10 * (i - 216), 8 + 10 * (i - 216), 8 + 10 * (i - 216))
      BY <2>1, <2>3 DEF col256
    <3>2. \A g \in Int : Rgb(g, g, g) \in Int
      BY DEF Rgb
    <3>3. 8 + 10 * (i - 216) \in Int
      BY <2>1
    <3> QED BY <2>1, <3>1, <3>2, <3>3
  <2> QED BY <2>1, <2>2, <2>3
<1> QED BY <1>1, <1>2, <1>3

(* One value: the pen stays right, and of the operands the first is 38 or  *)
(* 48, the second 2 or 5.                                                  *)
Operands(o) == /\ o \in Seq(Nat) /\ Len(o) <= 4
               /\ Len(o) > 1 => o[2] \in {2, 5}
AccOK(a) == a \in [pen : Pens, operands : Seq(Nat)] /\ PenOK(a.pen) /\ Operands(a.operands)

LEMMA SgrStepOK == ASSUME NEW a, AccOK(a), NEW v \in Nat PROVE AccOK(SgrStep(a, v))
<1> DEFINE o == a.operands
           taken == [a EXCEPT !.operands = Append(o, v)]
           Set(p) == [pen |-> p, operands |-> <<>>]
<1>1. a \in [pen : Pens, operands : Seq(Nat)] /\ PenOK(a.pen) /\ Operands(o) /\ o \in Seq(Nat)
  BY DEF AccOK, Operands
<1>2. ASSUME NEW p, PenOK(p) PROVE AccOK(Set(p))
  BY <1>2, NoValues DEF AccOK, Operands, PenOK
<1>3. ASSUME Operands(Append(o, v)) PROVE AccOK(taken)
  BY <1>1, <1>3 DEF AccOK, Operands
<1>4. CASE o = <<>>
  <2>1. SgrStep(a, v) = IF v \in {38, 48} THEN taken ELSE Set(sgr_value(a.pen, v))
    BY <1>4 DEF SgrStep
  <2>2. Operands(Append(o, v))
    BY <1>4 DEF Operands
  <2>3. PenOK(sgr_value(a.pen, v))
    BY <1>1, ValueOK
  <2> HIDE DEF taken, Set
  <2> QED BY <1>2, <1>3, <2>1, <2>2, <2>3
<1>5. CASE Len(o) = 1
  <2>1. SgrStep(a, v) = IF v \in {2, 5} THEN taken ELSE Set(a.pen)
    BY <1>5 DEF SgrStep
  <2>2. v \in {2, 5} => Operands(Append(o, v))
    BY <1>1, <1>5 DEF Operands
  <2> HIDE DEF taken, Set
  <2> QED BY <1>1, <1>2, <1>3, <2>1, <2>2
<1>6. CASE Len(o) > 1 /\ o[2] = 5
  <2>1. SgrStep(a, v) = Set(Direct(a.pen, o[1], Palette(v)))
    BY <1>1, <1>6 DEF SgrStep
  <2>2. PenOK(Direct(a.pen, o[1], Palette(v)))
    BY <1>1, PaletteType, DirectOK DEF Direct
  <2> HIDE DEF Set
  <2> QED BY <1>2, <2>1, <2>2
<1>7. CASE Len(o) > 1 /\ o[2] = 2
  <2>1. SgrStep(a, v) = IF Len(o) < 4 THEN taken ELSE Set(Direct(a.pen, o[1], Rgb(o[3], o[4], v)))
    BY <1>1, <1>7 DEF SgrStep
  <2>2. Len(o) < 4 => Operands(Append(o, v))
    BY <1>1, <1>7 DEF Operands
  <2>3. ASSUME Len(o) >= 4 PROVE PenOK(Direct(a.pen, o[1], Rgb(o[3], o[4], v)))
    <3>1. o[3] \in Nat /\ o[4] \in Nat
      BY <1>1, <2>3
    <3>2. Rgb(o[3], o[4], v) \in Int
      BY <3>1 DEF Rgb
    <3> QED BY <1>1, <3>2, DirectOK DEF Direct
  <2>4. Len(o) \in Nat
    BY <1>1
  <2> HIDE DEF taken, Set
  <2> QED BY <1>2, <1>3, <2>1, <2>2, <2>3, <2>4
<1>8. o = <<>> \/ Len(o) = 1 \/ Len(o) > 1
  <2>1. CASE Len(o) = 0
    BY <1>1, <2>1
  <2>2. Len(o) \in Nat
    BY <1>1
  <2>3. \A n \in Nat : n = 0 \/ n = 1 \/ n > 1
    OBVIOUS
  <2> QED BY <2>1, <2>2, <2>3, Zenon
<1> QED BY <1>1, <1>4, <1>5, <1>6, <1>7, <1>8 DEF Operands

LEMMA SgrOK == ASSUME NEW p, PenOK(p), NEW values \in Seq(Nat) PROVE PenOK(sgr(p, values))
<1> DEFINE N == Len(values)
           s0 == [pen |-> p, operands |-> <<>>]
           Good == {a \in [pen : Pens, operands : Seq(Nat)] : AccOK(a)}
           g == [at \in Good \X (1..N) |-> SgrStep(at[1], values[at[2]])]
           Eq(f) == f = [n \in 0..N |-> IF n = 0 THEN s0 ELSE SgrStep(f[n - 1], values[n])]
           after == CHOOSE f : Eq(f)
<1>1. N \in Nat /\ \A n \in 1..N : values[n] \in Nat
  OBVIOUS
<1>2. s0 \in Good
  <2>1. s0 \in [pen : Pens, operands : Seq(Nat)] /\ s0.pen = p /\ s0.operands = <<>>
    BY NoValues DEF PenOK
  <2>2. Operands(<<>>)
    BY NoValues DEF Operands
  <2> HIDE DEF s0
  <2> QED BY <2>1, <2>2 DEF AccOK
<1>3. \A a \in Good, v \in Nat : SgrStep(a, v) \in Good
  BY SgrStepOK DEF AccOK
<1>4. g \in Steps(Good, N)
  <2> HIDE DEF Good
  <2> QED BY <1>1, <1>3 DEF Steps
<1>5. PICK f : IsRun(f, Good, s0, N, g)
  <2> HIDE DEF g, Good, s0, N
  <2> QED BY <1>1, <1>2, <1>4, Iteration
<1>6. f \in [0..N -> Good] /\ f[0] = s0 /\ \A n \in 1..N : f[n] = SgrStep(f[n - 1], values[n])
  <2>1. f \in [0..N -> Good] /\ f[0] = s0 /\ \A n \in 1..N : f[n] = g[<< f[n - 1], n >>]
    <3> HIDE DEF g, Good, s0, N
    <3> QED BY <1>5 DEF IsRun
  <2> HIDE DEF Good, N
  <2>2. \A n \in 1..N : << f[n - 1], n >> \in Good \X (1..N)
    BY <1>1, <2>1
  <2> QED BY <2>1, <2>2
<1> HIDE DEF g
<1>7. Eq(f)
  <2> DEFINE body(n) == IF n = 0 THEN s0 ELSE SgrStep(f[n - 1], values[n])
  <2> HIDE DEF Good, N, s0
  <2>1. \A n \in 0..N : f[n] = body(n)
    BY <1>1, <1>6
  <2> HIDE DEF body
  <2>2. f = [n \in 0..N |-> body(n)]
    BY <1>6, <2>1
  <2> QED BY <2>2 DEF body
<1>8. Eq(after)
  <2> HIDE DEF Eq
  <2> QED BY <1>7
<1>9. sgr(p, values) = IF values = <<>> THEN sgr_value(p, 0) ELSE after[N].pen
  BY DEF sgr
<1> HIDE DEF after
<1>10. after[0] = s0 /\ \A n \in 1..N : after[n] = SgrStep(after[n - 1], values[n])
  <2> HIDE DEF s0, N
  <2> QED BY <1>1, <1>8
<1>11. \A n \in 0..N : after[n] \in Good
  <2> DEFINE T == {n \in Nat : n <= N => after[n] \in Good}
  <2> HIDE DEF Eq, Good, s0, N
  <2>1. 0 \in T
    BY <1>2, <1>10
  <2>2. ASSUME NEW n \in T PROVE n + 1 \in T
    <3> SUFFICES ASSUME n + 1 <= N PROVE after[n + 1] \in Good
      OBVIOUS
    <3>1. after[n] \in Good /\ n + 1 \in 1..N /\ n + 1 - 1 = n
      BY <1>1
    <3>2. after[n + 1] = SgrStep(after[n], values[n + 1])
      BY <1>10, <3>1
    <3> QED BY <1>1, <1>3, <3>1, <3>2
  <2>3. T = Nat
    <3>1. T \subseteq Nat
      OBVIOUS
    <3> HIDE DEF T
    <3> QED BY <2>1, <2>2, <3>1, SetInduction
  <2> QED BY <1>1, <2>3
<1>12. PenOK(after[N].pen)
  <2>1. N \in 0..N
    BY <1>1
  <2> HIDE DEF N, Eq
  <2> QED BY <1>11, <2>1 DEF AccOK
<1> QED BY <1>9, <1>12, ValueOK

LEMMA ColourType == Colours \subseteq Int
  BY TerminalAssumption, Zenon DEF TerminalAssumption

LEMMA PenTypes == TermInv /\ Next => PenOK(pen')
<1> SUFFICES ASSUME TermInv, Next PROVE PenOK(pen')
  OBVIOUS
<1>0. PenOK(pen) /\ pen \in Pens /\ ParserOK(parser) /\ SavedOK(saved)
  BY DEF TermInv, PenOK
<1>1. CASE flanterm_write \/ Flush \/ ClearScreen \/ Discard \/ LeadByte \/ MoreBytes \/ LastByte
           \/ Silent \/ Escape \/ Tab \/ LineFeed \/ Backspace \/ Return \/ ShiftCharset \/ Character
  BY <1>0, <1>1 DEF flanterm_write, Flush, ClearScreen, Discard, LeadByte, MoreBytes, LastByte,
     Silent, Escape, Tab, LineFeed, Backspace, Return, ShiftCharset, Character
<1>2. CASE ChooseCharset \/ BeginSequence \/ BeginOsc \/ OscByte \/ save_state \/ Index \/ NewLine
           \/ ReverseIndex \/ SelectCharset \/ OtherEscape \/ SkipNext \/ PrivateMark \/ Digit
           \/ Separator \/ DecPrivate \/ mode_toggle
  BY <1>0, <1>2 DEF ChooseCharset, BeginSequence, BeginOsc, OscByte, save_state, Index, NewLine,
     ReverseIndex, SelectCharset, OtherEscape, SkipNext, PrivateMark, Digit, Separator, DecPrivate,
     mode_toggle
<1>3. CASE CursorUp \/ CursorDown \/ CursorTo \/ SaveCursor \/ DeleteLines \/ InsertLines
           \/ EraseDisplay \/ EraseLine \/ InsertChars \/ EraseChars \/ SetRegion \/ OtherCommand
  BY <1>0, <1>3 DEF CursorUp, CursorDown, CursorTo, SaveCursor, DeleteLines, InsertLines,
     EraseDisplay, EraseLine, InsertChars, EraseChars, SetRegion, OtherCommand
<1>4. CASE SetColour
  <2>1. \E c \in Int : pen' = TextFg(pen, c, TRUE) \/ pen' = TextBg(pen, c, TRUE)
    BY <1>4, ColourType, Defaults DEF SetColour
  <2> QED BY <1>0, <2>1, DirectOK
<1>5. CASE restore_state
  <2>1. pen' = saved.pen
    BY <1>5 DEF restore_state
  <2> QED BY <1>0, <2>1 DEF SavedOK, Saved, PenOK
<1>6. CASE Reset
  <2> DEFINE p == TextBg(PlainPen, pen.text_bg, pen.bg_direct)
             q == TextFg(p, pen.text_fg, pen.fg_direct)
  <2>1. pen' = q
    BY <1>6 DEF Reset
  <2>2. /\ PlainPen \in Pens /\ pen.text_fg \in Int /\ pen.text_bg \in Int
        /\ pen.fg_direct \in BOOLEAN /\ pen.bg_direct \in BOOLEAN
        /\ PlainPen.current_primary = NoColour /\ PlainPen.current_bg = NoColour
    BY <1>0, PlainPenOK DEF PenOK, Pens, PlainPen
  <2>3. p \in Pens /\ p.current_primary = NoColour /\ p.current_bg = NoColour
    BY <2>2 DEF Pens, TextBg
  <2> HIDE DEF p
  <2>4. q \in Pens /\ q.current_primary = NoColour /\ q.current_bg = NoColour
    BY <2>2, <2>3 DEF Pens, TextFg
  <2> HIDE DEF q
  <2> QED BY <2>1, <2>4, InkedIs DEF PenOK
<1>7. CASE SelectGraphics
  <2>1. pen' = sgr(pen, parser.esc_values)
    BY <1>7 DEF SelectGraphics
  <2>2. parser.esc_values \in Seq(Nat)
    BY <1>0 DEF ParserOK, Parsers
  <2> QED BY <1>0, <2>1, <2>2, SgrOK
<1> QED BY <1>1, <1>2, <1>3, <1>4, <1>5, <1>6, <1>7 DEF Next

LEMMA SavedTypes == TermInv /\ Next => SavedOK(saved')
<1> SUFFICES ASSUME TermInv, Next PROVE SavedOK(saved')
  OBVIOUS
<1>0. /\ PenOK(pen) /\ SavedOK(saved) /\ term.current_charset \in {1, 2}
      /\ fb.cursor_x \in 0..cols /\ fb.cursor_y \in 0..(cols - 1)
  BY DEF TermInv, TermOK, Terms, Framed
<1>1. CASE flanterm_write \/ Flush \/ ClearScreen \/ SetColour \/ Discard \/ LeadByte \/ MoreBytes
           \/ LastByte \/ Silent \/ Escape \/ Tab \/ LineFeed \/ Backspace \/ Return \/ ShiftCharset
           \/ Character
  BY <1>0, <1>1 DEF flanterm_write, Flush, ClearScreen, SetColour, Discard, LeadByte, MoreBytes,
     LastByte, Silent, Escape, Tab, LineFeed, Backspace, Return, ShiftCharset, Character
<1>2. CASE ChooseCharset \/ BeginSequence \/ BeginOsc \/ OscByte \/ restore_state \/ Reset \/ Index
           \/ NewLine \/ ReverseIndex \/ SelectCharset \/ OtherEscape \/ SkipNext \/ PrivateMark
           \/ Digit \/ Separator \/ DecPrivate \/ mode_toggle
  BY <1>0, <1>2 DEF ChooseCharset, BeginSequence, BeginOsc, OscByte, restore_state, Reset, Index,
     NewLine, ReverseIndex, SelectCharset, OtherEscape, SkipNext, PrivateMark, Digit, Separator,
     DecPrivate, mode_toggle
<1>3. CASE CursorUp \/ CursorDown \/ CursorTo \/ SaveCursor \/ DeleteLines \/ InsertLines
           \/ EraseDisplay \/ EraseLine \/ InsertChars \/ EraseChars \/ SetRegion \/ SelectGraphics
           \/ OtherCommand
  BY <1>0, <1>3 DEF CursorUp, CursorDown, CursorTo, SaveCursor, DeleteLines, InsertLines,
     EraseDisplay, EraseLine, InsertChars, EraseChars, SetRegion, SelectGraphics, OtherCommand
<1>4. CASE save_state
  <2>1. saved' = [pen |-> pen, current_charset |-> term.current_charset, cursor |-> Cursor(fb)]
    BY <1>4 DEF save_state
  <2> QED BY <1>0, <2>1 DEF SavedOK, Saved, PenOK, Cursor
<1> QED BY <1>1, <1>2, <1>3, <1>4 DEF Next

-----------------------------------------------------------------------------
LEMMA ValueType == ASSUME ParserOK(parser), NEW i \in {1, 2} PROVE Value(i) \in Nat
<1>1. parser.esc_values \in Seq(Nat)
  BY DEF ParserOK, Parsers
<1>2. i <= Len(parser.esc_values) => parser.esc_values[i] \in Nat
  BY <1>1
<1> QED BY <1>2 DEF Value

(* Where the cursor counts as being, and the region. *)
LEMMA Places ==
  ASSUME TermInv
  PROVE  /\ X \in 0..(cols - 1) /\ Y \in 0..(rows - 1) /\ <<X, Y>> \in Cell
         /\ top \in Nat /\ bottom \in 1..rows /\ top < bottom /\ top \in 0..(rows - 1)
         /\ fb.cursor_x \in 0..cols /\ fb.cursor_y \in 0..(cols - 1)
<1>1. fb.cursor_x \in 0..cols /\ fb.cursor_y \in 0..(cols - 1) /\ TermOK(term)
  BY DEF TermInv, Framed
<1>2. X \in 0..(cols - 1) /\ Y \in 0..(rows - 1)
  BY <1>1, Measures DEF X, Y, CursorX, CursorY
<1>3. top \in Nat /\ bottom \in 1..rows /\ (top < bottom - 1 \/ (top = 0 /\ bottom = rows))
  BY <1>1 DEF TermOK, Terms, top, bottom
<1>4. top < bottom /\ top \in 0..(rows - 1)
  BY <1>3, Measures
<1> QED BY <1>1, <1>2, <1>3, <1>4 DEF Cell

LEMMA TermTypes == TermInv /\ Next => TermOK(term')
<1> SUFFICES ASSUME TermInv, Next PROVE TermOK(term')
  OBVIOUS
<1>0. TermOK(term) /\ term \in Terms /\ ParserOK(parser) /\ SavedOK(saved)
  BY DEF TermInv, TermOK
<1>1. CASE flanterm_write \/ Flush \/ ClearScreen \/ SetColour \/ LeadByte \/ MoreBytes
           \/ LastByte \/ Silent \/ Escape \/ Tab \/ LineFeed \/ Backspace \/ Return \/ Character
  BY <1>0, <1>1 DEF flanterm_write, Flush, ClearScreen, SetColour, LeadByte, MoreBytes,
     LastByte, Silent, Escape, Tab, LineFeed, Backspace, Return, Character
<1>2. CASE BeginSequence \/ BeginOsc \/ OscByte \/ save_state \/ Index \/ NewLine \/ ReverseIndex
           \/ OtherEscape \/ SkipNext \/ PrivateMark \/ Digit \/ Separator
  BY <1>0, <1>2 DEF BeginSequence, BeginOsc, OscByte, save_state, Index, NewLine, ReverseIndex,
     OtherEscape, SkipNext, PrivateMark, Digit, Separator
<1>3. CASE CursorUp \/ CursorDown \/ CursorTo \/ DeleteLines \/ InsertLines
           \/ EraseDisplay \/ EraseLine \/ InsertChars \/ EraseChars \/ SelectGraphics
           \/ OtherCommand
  BY <1>0, <1>3 DEF CursorUp, CursorDown, CursorTo, DeleteLines, InsertLines,
     EraseDisplay, EraseLine, InsertChars, EraseChars, SelectGraphics, OtherCommand
<1>4. CASE Discard \/ SelectCharset
  <2>1. \E n \in {0, 1, 2} : term' = [term EXCEPT !.g_select = n]
    BY <1>4 DEF Discard, SelectCharset
  <2> QED BY <1>0, <2>1 DEF TermOK, Terms
<1>5. CASE ShiftCharset \/ restore_state
  <2>1. saved.current_charset \in {1, 2}
    BY <1>0 DEF SavedOK, Saved
  <2>2. \E n \in {1, 2} : term' = [term EXCEPT !.current_charset = n]
    BY <1>5, <2>1 DEF ShiftCharset, restore_state
  <2> QED BY <1>0, <2>2 DEF TermOK, Terms
<1>6. CASE ChooseCharset
  <2> DEFINE set == IF Byte = "B" THEN "default" ELSE IF Byte = "0" THEN "special"
                    ELSE term.charsets[term.g_select]
             sets == [term.charsets EXCEPT ![term.g_select] = set]
  <2>1. term.g_select \in {1, 2} /\ term.charsets \in {"default", "special"} \X {"default", "special"}
    BY <1>0, <1>6 DEF TermOK, Terms, ChooseCharset, Choosing
  <2>2. set \in {"default", "special"}
    BY <2>1
  <2>3. sets \in {"default", "special"} \X {"default", "special"}
    <3> HIDE DEF set
    <3> QED BY <2>1, <2>2
  <2>4. term' = [term EXCEPT !.charsets = sets, !.g_select = 0]
    BY <1>6 DEF ChooseCharset
  <2> HIDE DEF sets
  <2> QED BY <1>0, <2>3, <2>4 DEF TermOK, Terms
<1>7. TermOK(NewTerm)
  <2>1. <<0, 0>> \in Cell /\ rows \in 1..rows
    BY Measures DEF Cell
  <2>2. <<"default", "special">> \in {"default", "special"} \X {"default", "special"}
    OBVIOUS
  <2> QED BY <2>1, <2>2 DEF TermOK, NewTerm, Terms
<1>8. CASE Reset
  BY <1>7, <1>8 DEF Reset
<1>9. CASE DecPrivate \/ mode_toggle
  <2>1. \E on \in BOOLEAN : \/ term' = term \/ term' = [term EXCEPT !.cursor_enabled = on]
                            \/ term' = [term EXCEPT !.insert_mode = on]
    BY <1>9 DEF DecPrivate, mode_toggle
  <2> QED BY <1>0, <2>1 DEF TermOK, Terms
<1>10. CASE SaveCursor
  <2>1. term' = [term EXCEPT !.saved_cursor = <<X, Y>>]
    BY <1>10 DEF SaveCursor
  <2> QED BY <1>0, <2>1, Places DEF TermOK, Terms
<1>12. CASE SetRegion
  <2> DEFINE given == Len(parser.esc_values)
             t == IF given = 0 \/ Value(1) = 0 THEN 0 ELSE Value(1) - 1
             b == IF given < 2 THEN rows ELSE IF Value(2) = 0 THEN 1 ELSE Value(2)
             bad == t >= rows \/ b > rows \/ t >= b - 1
             t1 == IF bad THEN 0 ELSE t
             b1 == IF bad THEN rows ELSE b
  <2>1. Value(1) \in Nat /\ Value(2) \in Nat
    BY <1>0, ValueType
  <2>2. t \in Nat /\ b \in Nat
    BY <2>1, Measures
  <2>3. term' = [term EXCEPT !.scroll_top_margin = t1, !.scroll_bottom_margin = b1]
    BY <1>12 DEF SetRegion
  <2> HIDE DEF t, b
  <2>4. t1 \in Nat /\ b1 \in 1..rows /\ (t1 < b1 - 1 \/ (t1 = 0 /\ b1 = rows))
    BY <2>2, Measures
  <2> HIDE DEF t1, b1
  <2> QED BY <1>0, <2>3, <2>4 DEF TermOK, Terms
<1> QED BY <1>1, <1>2, <1>3, <1>4, <1>5, <1>6, <1>8, <1>9, <1>10, <1>12 DEF Next

-----------------------------------------------------------------------------
(* The commands: each leaves a frame, and keeps what is drawn.             *)
Frames(f, g) == Framed(g) /\ Kept(f, g)

LEMMA KeptSelf == ASSUME NEW f PROVE Kept(f, f)
  BY DEF Kept

LEMMA ChType == ASSUME TermInv, NEW g \in Glyph PROVE Ch(g) \in Char
  BY DEF TermInv, PenOK, Pens, Ch, Char

LEMMA SpaceType == ASSUME TermInv PROVE Space \in Char
  BY ChType, Sizes DEF Space

LEMMA RegionType ==
  ASSUME TermInv
  PROVE  /\ Region(TRUE) \in Margins /\ Region(TRUE).scroll_enabled
         /\ Region(TRUE).top = top /\ Region(TRUE).bottom = bottom
  BY Places DEF Region, Margins, top, bottom

LEMMA PutFrames ==
  ASSUME TermInv, NEW f, Framed(f), NEW g \in Glyph PROVE Frames(f, Put(f, g))
<1>1. Ch(g) \in Char
  BY ChType
<1>2. Region(TRUE) \in Margins /\ Region(TRUE).scroll_enabled
  BY RegionType
<1> QED BY <1>1, <1>2, RawPut DEF Put, Frames

LEMMA CursorFrames ==
  ASSUME NEW f, Framed(f), NEW x \in Int, NEW y \in Int PROVE Frames(f, set_cursor_pos(f, x, y))
  BY CursorSet DEF Frames

LEMMA FramesAgain ==
  ASSUME NEW f, NEW g, NEW h, Frames(f, g), Frames(g, h) PROVE Frames(f, h)
  BY KeptAgain DEF Frames

LEMMA ScrollFrames ==
  ASSUME TermInv, NEW f, Framed(f), NEW y \in Nat
  PROVE  Frames(f, scroll(f, top, bottom, Space)) /\ Frames(f, revscroll(f, y, bottom, Space))
<1>1. top \in Int /\ bottom \in Int /\ bottom <= rows
  BY Places, Measures
<1>2. Framed(scroll(f, top, bottom, Space)) /\ Kept(f, scroll(f, top, bottom, Space))
  BY <1>1, SpaceType, Scrolled
<1>3. Framed(revscroll(f, y, bottom, Space)) /\ Kept(f, revscroll(f, y, bottom, Space))
  BY <1>1, SpaceType, Revscrolled
<1> QED BY <1>2, <1>3 DEF Frames

LEMMA DownFrames == ASSUME TermInv, NEW c \in Int, Down(c) PROVE Frames(fb, fb')
<1> DEFINE s == scroll(fb, top, bottom, Space)
<1>1. Framed(fb) /\ Y \in Nat /\ Y \in Int /\ Y + 1 \in Int
  BY Places DEF TermInv
<1>2. Frames(fb, s) /\ Framed(s)
  BY <1>1, ScrollFrames DEF Frames
<1>3. fb' = IF Y = term.scroll_bottom_margin - 1 THEN set_cursor_pos(s, c, Y)
            ELSE set_cursor_pos(fb, c, Y + 1)
  BY DEF Down, top, bottom
<1> HIDE DEF s
<1>4. Frames(s, set_cursor_pos(s, c, Y)) /\ Frames(fb, set_cursor_pos(fb, c, Y + 1))
  BY <1>1, <1>2, CursorFrames
<1> QED BY <1>2, <1>3, <1>4, FramesAgain

LEMMA PushFrames ==
  ASSUME NEW f, Framed(f), NEW D \in SUBSET Cell, NEW new \in [D -> Char]
  PROVE  Frames(f, PushAll(f, new))
  BY Pushed DEF Frames

LEMMA SpacesFrames == ASSUME TermInv, NEW f, Framed(f), NEW n PROVE Frames(f, Spaces(f, n))
<1> DEFINE start == f.cursor_y * cols + f.cursor_x
           line == IF f.cursor_y < bottom - 1 THEN bottom - 1 ELSE f.cursor_y
           Reached == start..AtMost(start + n - 1, line * cols + cols - 1)
           D == {q \in Cell : q[2] * cols + q[1] \in Reached}
           new == [p \in D |-> Space]
<1>1. Spaces(f, n) = PushAll(f, new)
  BY DEF Spaces
<1>2. D \in SUBSET Cell
  OBVIOUS
<1>3. new \in [D -> Char]
  BY SpaceType
<1> HIDE DEF D, new
<1> QED BY <1>1, <1>2, <1>3, PushFrames

(* Text copied along the line, and nothing else. *)
LEMMA LineText == ASSUME TermInv, NEW x \in 0..(cols - 1) PROVE Content(fb, <<x, Y>>) \in Char
<1>1. <<x, Y>> \in Cell
  BY Places DEF Cell
<1>2. fb \in Context
  BY DEF TermInv, Framed, Counted
<1> QED BY <1>1, <1>2, ContentIsChar

LEMMA ShiftedFrames == ASSUME TermInv PROVE Frames(fb, Shifted(fb, 1))
<1> DEFINE S == {q \in Cell : q[2] = Y /\ q[1] >= X + 1}
           new == [p \in S |-> Content(fb, <<p[1] - 1, Y>>)]
<1>1. \A p \in S : p[1] - 1 \in 0..(cols - 1)
  BY Places, CellParts, Measures
<1>2. S \in SUBSET Cell
  OBVIOUS
<1>4. Shifted(fb, 1) = PushAll(fb, new)
  BY DEF Shifted
<1> HIDE DEF S
<1>5. new \in [S -> Char]
  BY <1>1, LineText
<1> HIDE DEF new
<1> QED BY <1>2, <1>4, <1>5, PushFrames DEF TermInv

LEMMA ClearFrames ==
  ASSUME TermInv, NEW f, Framed(f), NEW move \in BOOLEAN PROVE Frames(f, clear(f, move, Space))
  BY SpaceType, Cleared DEF Frames

(* The same call n times: the recursion of Times has a solution, and what  *)
(* each call preserves, all of them do.                                    *)
IsRepeat(f, S_, s0, n, call) ==
    /\ f \in [0..n -> S_] /\ f[0] = s0
    /\ \A k \in 1..n : f[k - 1] \in S_ /\ f[k] = call[f[k - 1]]

LEMMA Repeats ==
  ASSUME NEW S_, NEW s0 \in S_, NEW n \in Nat, NEW call \in [S_ -> S_]
  PROVE  \E f : IsRepeat(f, S_, s0, n, call)
<1> DEFINE g == [at \in S_ \X (1..n) |-> call[at[1]]]
<1>1. g \in Steps(S_, n)
  BY DEF Steps
<1>2. PICK f : IsRun(f, S_, s0, n, g)
  <2> HIDE DEF g
  <2> QED BY <1>1, Iteration
<1>3. f \in [0..n -> S_] /\ f[0] = s0 /\ \A k \in 1..n : f[k] = g[<< f[k - 1], k >>]
  <2> HIDE DEF g
  <2> QED BY <1>2 DEF IsRun
<1>4. \A k \in 1..n : f[k - 1] \in S_ /\ << f[k - 1], k >> \in S_ \X (1..n)
  BY <1>3
<1>5. \A k \in 1..n : f[k] = call[f[k - 1]]
  BY <1>3, <1>4
<1> QED BY <1>3, <1>4, <1>5 DEF IsRepeat

LEMMA Stays ==
  ASSUME NEW S_, NEW n \in Nat, NEW after, after[0] \in S_,
         \A k \in 1..n : after[k - 1] \in S_ => after[k] \in S_
  PROVE  after[n] \in S_
<1> DEFINE T == {k \in Nat : k <= n => after[k] \in S_}
<1>1. 0 \in T
  OBVIOUS
<1>2. ASSUME NEW k \in T PROVE k + 1 \in T
  <2> SUFFICES ASSUME k + 1 <= n PROVE after[k + 1] \in S_
    OBVIOUS
  <2>1. k + 1 \in 1..n /\ k + 1 - 1 = k /\ after[k] \in S_
    OBVIOUS
  <2> QED BY <2>1
<1>3. T = Nat
  <2>1. T \subseteq Nat
    OBVIOUS
  <2> HIDE DEF T
  <2> QED BY <1>1, <1>2, <2>1, SetInduction
<1> QED BY <1>3

LEMMA TimesScroll ==
  ASSUME TermInv, NEW n \in Nat
  PROVE  Frames(fb, Times(LAMBDA f : scroll(f, top, bottom, Space), n))
<1> DEFINE C(f) == scroll(f, top, bottom, Space)
           S == {f \in Context : Frames(fb, f)}
           call == [f \in S |-> C(f)]
           Eq(h) == h = [k \in 0..n |-> IF k = 0 THEN fb ELSE C(h[k - 1])]
           after == CHOOSE h : Eq(h)
<1>1. fb \in S
  BY KeptSelf DEF Frames, TermInv, Framed, Counted
<1>2. ASSUME NEW f \in S PROVE C(f) \in S
  <2>1. Framed(f) /\ Frames(fb, f)
    BY DEF Frames
  <2>2. Frames(f, C(f))
    <3>1. 0 \in Nat
      OBVIOUS
    <3> QED BY <2>1, <3>1, ScrollFrames
  <2> HIDE DEF C
  <2> QED BY <2>1, <2>2, FramesAgain DEF Frames, Framed, Counted
<1>3. Times(LAMBDA f : scroll(f, top, bottom, Space), n) = after[n]
  BY DEF Times
<1> HIDE DEF C, S
<1>4. call \in [S -> S]
  BY <1>2
<1>5. PICK h : IsRepeat(h, S, fb, n, call)
  <2> HIDE DEF call
  <2> QED BY <1>1, <1>4, Repeats
<1>6. Eq(h)
  <2> DEFINE body(k) == IF k = 0 THEN fb ELSE C(h[k - 1])
  <2>1. h \in [0..n -> S] /\ h[0] = fb /\ \A k \in 1..n : h[k] = C(h[k - 1])
    BY <1>5 DEF IsRepeat
  <2>2. \A k \in 0..n : h[k] = body(k)
    BY <2>1
  <2> HIDE DEF body
  <2>3. h = [k \in 0..n |-> body(k)]
    BY <2>1, <2>2
  <2> QED BY <2>3 DEF body
<1>7. Eq(after)
  <2> HIDE DEF Eq
  <2> QED BY <1>6
<1> HIDE DEF after
<1>8. after[0] = fb /\ \A k \in 1..n : after[k] = C(after[k - 1])
  BY <1>7
<1> HIDE DEF Eq, call
<1>9. after[n] \in S
  <2>1. \A k \in 1..n : after[k - 1] \in S => after[k] \in S
    BY <1>2, <1>8
  <2> QED BY <1>1, <1>8, <2>1, Stays
<1> QED BY <1>3, <1>9 DEF S

LEMMA TimesRevscroll ==
  ASSUME TermInv, NEW n \in Nat
  PROVE  Frames(fb, Times(LAMBDA f : revscroll(f, Y, bottom, Space), n))
<1> DEFINE C(f) == revscroll(f, Y, bottom, Space)
           S == {f \in Context : Frames(fb, f)}
           call == [f \in S |-> C(f)]
           Eq(h) == h = [k \in 0..n |-> IF k = 0 THEN fb ELSE C(h[k - 1])]
           after == CHOOSE h : Eq(h)
<1>1. fb \in S
  BY KeptSelf DEF Frames, TermInv, Framed, Counted
<1>2. ASSUME NEW f \in S PROVE C(f) \in S
  <2>1. Framed(f) /\ Frames(fb, f)
    BY DEF Frames
  <2>2. Frames(f, C(f))
    <3>1. Y \in Nat
      BY Places
    <3> QED BY <2>1, <3>1, ScrollFrames
  <2> HIDE DEF C
  <2> QED BY <2>1, <2>2, FramesAgain DEF Frames, Framed, Counted
<1>3. Times(LAMBDA f : revscroll(f, Y, bottom, Space), n) = after[n]
  BY DEF Times
<1> HIDE DEF C, S
<1>4. call \in [S -> S]
  BY <1>2
<1>5. PICK h : IsRepeat(h, S, fb, n, call)
  <2> HIDE DEF call
  <2> QED BY <1>1, <1>4, Repeats
<1>6. Eq(h)
  <2> DEFINE body(k) == IF k = 0 THEN fb ELSE C(h[k - 1])
  <2>1. h \in [0..n -> S] /\ h[0] = fb /\ \A k \in 1..n : h[k] = C(h[k - 1])
    BY <1>5 DEF IsRepeat
  <2>2. \A k \in 0..n : h[k] = body(k)
    BY <2>1
  <2> HIDE DEF body
  <2>3. h = [k \in 0..n |-> body(k)]
    BY <2>1, <2>2
  <2> QED BY <2>3 DEF body
<1>7. Eq(after)
  <2> HIDE DEF Eq
  <2> QED BY <1>6
<1> HIDE DEF after
<1>8. after[0] = fb /\ \A k \in 1..n : after[k] = C(after[k - 1])
  BY <1>7
<1> HIDE DEF Eq, call
<1>9. after[n] \in S
  <2>1. \A k \in 1..n : after[k - 1] \in S => after[k] \in S
    BY <1>2, <1>8
  <2> QED BY <1>1, <1>8, <2>1, Stays
<1> QED BY <1>3, <1>9 DEF S

LEMMA MoveFrames ==
  ASSUME TermInv, NEW x \in Int, NEW y \in Int, MoveTo(x, y) PROVE Frames(fb, fb')
  BY CursorFrames DEF MoveTo, TermInv

LEMMA AtMostType == ASSUME NEW n \in Int, NEW m \in Int PROVE AtMost(n, m) \in Int
  BY DEF AtMost

LEMMA FromOneType == ASSUME NEW n \in Int, NEW m \in Int PROVE FromOne(n, m) \in Int
  BY DEF FromOne

LEMMA GlyphType ==
  /\ \A b \in Printable : b \in Glyph
  /\ "fe" \in Glyph
  /\ \A b \in DOMAIN dec_special : dec_special[b] \in Glyph
  /\ \A n : unicode_to_cp437(n) # NULL => unicode_to_cp437(n) \in Glyph
<1>1. \A b \in Printable : b \in Glyph
  BY TerminalAssumption DEF TerminalAssumption
<1>2. "fe" \in Glyph
  BY TerminalAssumption, Zenon DEF TerminalAssumption
<1>3. \A n \in DOMAIN cp437 : cp437[n] \in Glyph
  BY TerminalAssumption, Zenon DEF TerminalAssumption
<1>4. \A n : unicode_to_cp437(n) # NULL => unicode_to_cp437(n) \in Glyph
  BY <1>3 DEF unicode_to_cp437
<1> QED BY <1>1, <1>2, <1>4, SpecialAssumption, Zenon DEF SpecialAssumption

LEMMA LastByteText ==
  ASSUME LastByte
  PROVE  \/ unicode_to_cp437(CodePoint) # NULL /\ fb' = Put(fb, unicode_to_cp437(CodePoint))
         \/ fb' = fb \/ fb' = Put(fb, "fe") \/ fb' = Put(Put(fb, "fe"), " ")
<1> DEFINE n == CodePoint
           s == Put(fb, "fe")
<1>1. fb' = IF unicode_to_cp437(n) # NULL THEN Put(fb, unicode_to_cp437(n))
            ELSE CASE mk_wcwidth(n) = 0 -> fb
                   [] mk_wcwidth(n) = 1 -> s
                   [] mk_wcwidth(n) = 2 -> Put(s, " ")
  BY DEF LastByte
<1>2. mk_wcwidth(n) = 0 \/ mk_wcwidth(n) = 1 \/ mk_wcwidth(n) = 2
  BY Zenon DEF mk_wcwidth
<1>3. \/ unicode_to_cp437(n) # NULL /\ fb' = Put(fb, unicode_to_cp437(n))
      \/ fb' = fb \/ fb' = s \/ fb' = Put(s, " ")
  <2> HIDE DEF n, s
  <2>1. CASE mk_wcwidth(n) = 0
    <3>1. mk_wcwidth(n) # 1 /\ mk_wcwidth(n) # 2
      BY <2>1
    <3> QED BY <1>1, <2>1, <3>1, Zenon
  <2>2. CASE mk_wcwidth(n) = 1
    <3>1. mk_wcwidth(n) # 0 /\ mk_wcwidth(n) # 2
      BY <2>2
    <3> QED BY <1>1, <2>2, <3>1, Zenon
  <2>3. CASE mk_wcwidth(n) = 2
    <3>1. mk_wcwidth(n) # 1 /\ mk_wcwidth(n) # 0
      BY <2>3
    <3> QED BY <1>1, <2>3, <3>1, Zenon
  <2> QED BY <1>2, <2>1, <2>2, <2>3
<1> QED BY <1>3

LEMMA LastByteFrames == TermInv /\ LastByte => Frames(fb, fb')
<1> SUFFICES ASSUME TermInv, LastByte PROVE Frames(fb, fb')
  OBVIOUS
<1> DEFINE n == CodePoint
           s == Put(fb, "fe")
<1>1. Framed(fb) /\ Frames(fb, fb)
  BY KeptSelf DEF TermInv, Frames
<1>2. unicode_to_cp437(n) # NULL => Frames(fb, Put(fb, unicode_to_cp437(n)))
  BY <1>1, GlyphType, PutFrames, Zenon
<1>3. Frames(fb, s) /\ Framed(s)
  BY <1>1, GlyphType, PutFrames DEF Frames
<1>4. Frames(fb, Put(s, " "))
  <2>1. " " \in Glyph
    BY Sizes
  <2>2. Frames(s, Put(s, " "))
    BY <2>1, <1>3, PutFrames
  <2> QED BY <2>2, <1>3, FramesAgain
<1>5. \/ unicode_to_cp437(n) # NULL /\ fb' = Put(fb, unicode_to_cp437(n))
      \/ fb' = fb \/ fb' = s \/ fb' = Put(s, " ")
  BY LastByteText
<1> HIDE DEF n, s
<1> QED BY <1>1, <1>2, <1>3, <1>4, <1>5

LEMMA CharacterText ==
  ASSUME Character
  PROVE  LET f == IF term.insert_mode THEN Shifted(fb, 1) ELSE fb
         IN fb' = f \/ \E g \in Glyph : fb' = Put(f, g)
<1> DEFINE f == IF term.insert_mode THEN Shifted(fb, 1) ELSE fb
<1>1. \/ fb' = f
      \/ Byte \in DOMAIN dec_special /\ fb' = Put(f, dec_special[Byte])
      \/ Byte \in Printable /\ fb' = Put(f, Byte)
  BY Zenon DEF Character
<1>2. Byte \in DOMAIN dec_special => dec_special[Byte] \in Glyph
  BY GlyphType, Zenon
<1>3. Byte \in Printable => Byte \in Glyph
  BY GlyphType, Zenon
<1> QED BY <1>1, <1>2, <1>3, Zenon

LEMMA CharacterFrames == TermInv /\ Character => Frames(fb, fb')
<1> SUFFICES ASSUME TermInv, Character PROVE Frames(fb, fb')
  OBVIOUS
<1> DEFINE f == IF term.insert_mode THEN Shifted(fb, 1) ELSE fb
<1>1. Frames(fb, f) /\ Framed(f)
  <2>1. Frames(fb, fb)
    BY KeptSelf DEF TermInv, Frames
  <2> QED BY <2>1, ShiftedFrames DEF Frames
<1>2. fb' = f \/ \E g \in Glyph : fb' = Put(f, g)
  BY CharacterText
<1> HIDE DEF f
<1>3. \A g \in Glyph : Frames(fb, Put(f, g))
  BY <1>1, PutFrames, FramesAgain
<1> QED BY <1>1, <1>2, <1>3

LEMMA MotionFrames ==
  TermInv /\ (Tab \/ LineFeed \/ Backspace \/ Return \/ Index \/ NewLine) => Frames(fb, fb')
<1> SUFFICES ASSUME TermInv, Tab \/ LineFeed \/ Backspace \/ Return \/ Index \/ NewLine
             PROVE  Frames(fb, fb')
  OBVIOUS
<1>1. X \in Int /\ Y \in Int /\ X \in Nat /\ X - 1 \in Int /\ 0 \in Int /\ cols \in Int
  BY Places, Measures
<1>2. CASE Tab
  <2> DEFINE x == IF X \div tab_size + 1 >= cols THEN cols - 1 ELSE (X \div tab_size + 1) * tab_size
  <2>1. MoveTo(x, Y)
    BY <1>2 DEF Tab
  <2>2. x \in Int
    BY <1>1 DEF tab_size
  <2> HIDE DEF x
  <2> QED BY <2>1, <2>2, <1>1, MoveFrames
<1>3. CASE LineFeed \/ NewLine
  BY <1>1, <1>3, DownFrames DEF LineFeed, NewLine
<1>4. CASE Index
  BY <1>1, <1>4, DownFrames DEF Index
<1>5. CASE Backspace
  BY <1>1, <1>5, MoveFrames DEF Backspace
<1>6. CASE Return
  BY <1>1, <1>6, MoveFrames DEF Return
<1> QED BY <1>2, <1>3, <1>4, <1>5, <1>6

LEMMA StateFrames ==
  TermInv /\ (restore_state \/ Reset \/ ReverseIndex) => Frames(fb, fb')
<1> SUFFICES ASSUME TermInv, restore_state \/ Reset \/ ReverseIndex PROVE Frames(fb, fb')
  OBVIOUS
<1>1. Framed(fb) /\ Y \in Int /\ Y - 1 \in Int /\ top \in Nat /\ 0 \in Int
  BY Places DEF TermInv
<1>2. CASE restore_state
  <2>1. fb' = WithCursor(fb, saved.cursor[1], saved.cursor[2])
    BY <1>2 DEF restore_state, WithCursor
  <2>2. saved.cursor[1] \in 0..cols /\ saved.cursor[2] \in 0..(cols - 1)
    BY DEF TermInv, SavedOK, Saved
  <2> QED BY <1>1, <2>1, <2>2, CursorMoved DEF Frames
<1>3. CASE Reset
  BY <1>1, <1>3, ClearFrames DEF Reset
<1>4. CASE ReverseIndex
  <2> DEFINE s == revscroll(fb, top, bottom, Space)
  <2>1. Frames(fb, s) /\ Framed(s)
    BY <1>1, ScrollFrames DEF Frames
  <2>2. fb' = IF Y = term.scroll_top_margin THEN set_cursor_pos(s, 0, Y)
              ELSE set_cursor_pos(fb, 0, Y - 1)
    BY <1>4 DEF ReverseIndex, top, bottom
  <2> HIDE DEF s
  <2>3. Frames(s, set_cursor_pos(s, 0, Y)) /\ Frames(fb, set_cursor_pos(fb, 0, Y - 1))
    BY <1>1, <2>1, CursorFrames
  <2> QED BY <2>1, <2>2, <2>3, FramesAgain
<1> QED BY <1>2, <1>3, <1>4

LEMMA CursorCommandFrames ==
  TermInv /\ (CursorUp \/ CursorDown \/ CursorTo \/ SetRegion) => Frames(fb, fb')
<1> SUFFICES ASSUME TermInv, CursorUp \/ CursorDown \/ CursorTo \/ SetRegion
             PROVE  Frames(fb, fb')
  OBVIOUS
<1> DEFINE v == Value(1)
           w == Value(2)
<1>1. /\ X \in Int /\ Y \in Int /\ 0 \in Int /\ cols \in Int /\ rows \in Int
      /\ top \in Int /\ bottom \in Int /\ v \in Int /\ w \in Int
  <2>1. v \in Nat /\ w \in Nat
    BY ValueType DEF TermInv
  <2> HIDE DEF v, w
  <2> QED BY <2>1, Places, Measures
<1>2. \A x, y : x \in Int /\ y \in Int /\ MoveTo(x, y) => Frames(fb, fb')
  BY MoveFrames
<1>3. CASE CursorUp
  <2> DEFINE dest == Y - AtMost(v, Y)
             x == IF Byte = "F" THEN 0 ELSE X
             y == IF (top \in dest..Y \/ bottom \in dest..Y) /\ dest < top THEN top ELSE dest
  <2>1. MoveTo(x, y)
    BY <1>3 DEF CursorUp
  <2>2. dest \in Int
    <3>1. AtMost(v, Y) \in Int
      BY <1>1, AtMostType
    <3> HIDE DEF v
    <3> QED BY <1>1, <3>1
  <2>3. x \in Int /\ y \in Int
    BY <1>1, <2>2
  <2> HIDE DEF x, y
  <2> QED BY <1>2, <2>1, <2>3
<1>4. CASE CursorDown
  <2> DEFINE dest == Y + AtMost(v, rows - 1 - Y)
             x == IF Byte = "E" THEN 0 ELSE X
             y == IF (top \in Y..dest \/ bottom \in Y..dest) /\ dest >= bottom THEN bottom - 1
                  ELSE dest
  <2>1. MoveTo(x, y)
    BY <1>4 DEF CursorDown
  <2>2. dest \in Int
    <3>1. rows - 1 - Y \in Int
      BY <1>1
    <3>2. AtMost(v, rows - 1 - Y) \in Int
      BY <1>1, <3>1, AtMostType
    <3> HIDE DEF v
    <3> QED BY <1>1, <3>2
  <2>3. x \in Int /\ y \in Int
    BY <1>1, <2>2
  <2> HIDE DEF x, y
  <2> QED BY <1>2, <2>1, <2>3
<1>5. CASE CursorTo
  <2>1. X + AtMost(v, cols - 1 - X) \in Int /\ X - AtMost(v, X) \in Int
    <3>1. cols - 1 - X \in Int
      BY <1>1
    <3>2. AtMost(v, cols - 1 - X) \in Int /\ AtMost(v, X) \in Int
      BY <1>1, <3>1, AtMostType
    <3> HIDE DEF v
    <3> QED BY <1>1, <3>2
  <2>2. FromOne(v, rows) \in Int /\ FromOne(v, cols) \in Int
    BY <1>1, FromOneType
  <2>3. w - (IF w = 0 THEN 0 ELSE 1) \in Int /\ v - (IF v = 0 THEN 0 ELSE 1) \in Int
    BY <1>1
  <2>4. term.saved_cursor[1] \in Int /\ term.saved_cursor[2] \in Int
    <3>1. term.saved_cursor \in Cell
      BY DEF TermInv, TermOK, Terms
    <3> QED BY <3>1, CellParts, Measures
  <2>5. \/ MoveTo(X + AtMost(v, cols - 1 - X), Y)
        \/ MoveTo(X - AtMost(v, X), Y)
        \/ MoveTo(X, FromOne(v, rows))
        \/ MoveTo(FromOne(v, cols), Y)
        \/ MoveTo(w - (IF w = 0 THEN 0 ELSE 1), v - (IF v = 0 THEN 0 ELSE 1))
        \/ MoveTo(term.saved_cursor[1], term.saved_cursor[2])
    <3>1. CASE Byte \in {"C", "a"}
      BY <1>5, <3>1 DEF CursorTo
    <3>2. CASE Byte = "D"
      BY <1>5, <3>2 DEF CursorTo
    <3>3. CASE Byte = "d"
      BY <1>5, <3>3 DEF CursorTo
    <3>4. CASE Byte \in {"G", "grave"}
      BY <1>5, <3>4 DEF CursorTo
    <3>5. CASE Byte \in {"H", "f"}
      BY <1>5, <3>5 DEF CursorTo
    <3>6. CASE Byte = "u"
      BY <1>5, <3>6 DEF CursorTo
    <3>7. Byte \in {"C", "a", "D", "d", "G", "grave", "H", "f", "u"}
      BY <1>5 DEF CursorTo, Command
    <3> HIDE DEF v, w
    <3> QED BY <3>1, <3>2, <3>3, <3>4, <3>5, <3>6, <3>7, Zenon
  <2> HIDE DEF v, w
  <2> QED BY <1>1, <1>2, <2>1, <2>2, <2>3, <2>4, <2>5
<1>6. CASE SetRegion
  BY <1>1, <1>2, <1>6 DEF SetRegion
<1> QED BY <1>3, <1>4, <1>5, <1>6

(* Spaces from x, y on, and the cursor back where it was.                  *)
LEMMA ErasedFrames ==
  ASSUME TermInv, NEW f, Frames(fb, f), NEW n
  PROVE  Frames(fb, set_cursor_pos(Spaces(f, n), X, Y))
<1>1. Frames(f, Spaces(f, n)) /\ Framed(Spaces(f, n))
  BY SpacesFrames DEF Frames
<1>2. Frames(Spaces(f, n), set_cursor_pos(Spaces(f, n), X, Y))
  BY <1>1, Places, CursorFrames
<1> QED BY <1>1, <1>2, FramesAgain

LEMMA EraseFrames == TermInv /\ (EraseDisplay \/ EraseLine) => Frames(fb, fb')
<1> SUFFICES ASSUME TermInv, EraseDisplay \/ EraseLine PROVE Frames(fb, fb')
  OBVIOUS
<1> DEFINE here(n) == set_cursor_pos(Spaces(fb, n), X, Y)
           from(y, n) == set_cursor_pos(Spaces(set_cursor_pos(fb, 0, y), n), X, Y)
<1>1. Framed(fb) /\ Frames(fb, fb) /\ Y \in Int /\ 0 \in Int
  BY KeptSelf, Places DEF TermInv, Frames
<1>2. \A n : Frames(fb, here(n))
  BY <1>1, ErasedFrames
<1>3. \A y \in Int : \A n : Frames(fb, from(y, n))
  <2> TAKE y \in Int
  <2> TAKE n
  <2>1. Frames(fb, set_cursor_pos(fb, 0, y))
    BY <1>1, CursorFrames
  <2> QED BY <2>1, ErasedFrames
<1>4. Frames(fb, clear(fb, FALSE, Space))
  BY <1>1, ClearFrames
<1>5. CASE EraseDisplay
  <2> DEFINE v == Value(1)
  <2>1. fb' = ErasedDisplay(v)
    BY <1>5 DEF EraseDisplay
  <2>2. ErasedDisplay(v) =
          CASE v = 0 -> here((rows - (Y + 1)) * cols + cols - X)
            [] v = 1 -> from(0, Y * cols + X + 1)
            [] v \in {2, 3} -> clear(fb, FALSE, Space)
            [] OTHER -> fb
    BY DEF ErasedDisplay
  <2> HIDE DEF v, here, from
  <2>3. CASE v = 0
    <3>1. v # 1 /\ v \notin {2, 3}
      BY <2>3
    <3> QED BY <1>2, <2>1, <2>2, <2>3, <3>1, Zenon
  <2>4. CASE v = 1
    <3>1. v # 0 /\ v \notin {2, 3}
      BY <2>4
    <3>2. fb' = from(0, Y * cols + X + 1)
      BY <2>1, <2>2, <2>4, <3>1, Zenon
    <3> QED BY <1>1, <1>3, <3>2
  <2>5. CASE v \in {2, 3}
    <3>1. v # 0 /\ v # 1
      BY <2>5
    <3> QED BY <1>4, <2>1, <2>2, <2>5, <3>1, Zenon
  <2>6. CASE v # 0 /\ v # 1 /\ v \notin {2, 3}
    BY <1>1, <2>1, <2>2, <2>6, Zenon
  <2> QED BY <2>3, <2>4, <2>5, <2>6
<1>6. CASE EraseLine
  <2> DEFINE v == Value(1)
  <2>1. fb' = ErasedLine(v)
    BY <1>6 DEF EraseLine
  <2>2. ErasedLine(v) =
          CASE v = 0 -> here(cols - X)
            [] v = 1 -> from(Y, X)
            [] v = 2 -> from(Y, cols)
            [] OTHER -> fb
    BY DEF ErasedLine
  <2> HIDE DEF v, here, from
  <2>3. CASE v = 0
    <3>1. v # 1 /\ v # 2
      BY <2>3
    <3> QED BY <1>2, <2>1, <2>2, <2>3, <3>1, Zenon
  <2>4. CASE v = 1
    <3>1. v # 0 /\ v # 2
      BY <2>4
    <3> QED BY <1>1, <1>3, <2>1, <2>2, <2>4, <3>1, Zenon
  <2>5. CASE v = 2
    <3>1. v # 0 /\ v # 1
      BY <2>5
    <3> QED BY <1>1, <1>3, <2>1, <2>2, <2>5, <3>1, Zenon
  <2>6. CASE v # 0 /\ v # 1 /\ v # 2
    BY <1>1, <2>1, <2>2, <2>6, Zenon
  <2> QED BY <2>3, <2>4, <2>5, <2>6
<1> QED BY <1>5, <1>6

LEMMA LineFrames == TermInv /\ (InsertChars \/ EraseChars) => Frames(fb, fb')
<1> SUFFICES ASSUME TermInv, InsertChars \/ EraseChars PROVE Frames(fb, fb')
  OBVIOUS
<1>1. Framed(fb) /\ Frames(fb, fb) /\ Value(1) \in Nat /\ cols \in Nat
  BY KeptSelf, ValueType, Measures DEF TermInv, Frames
<1>2. CASE InsertChars
  <2> DEFINE Rest == {p \in Cell : p[2] = Y /\ p[1] >= X}
             blank == [p \in Rest |-> Space]
             blanked == PushAll(fb, blank)
             n == Value(1)
             Copied == {p \in Rest : n > 0 /\ p[1] >= X + n}
             copy == [p \in Copied |-> Content(fb, <<p[1] - n, Y>>)]
             g == PushAll(blanked, copy)
  <2>1. fb' = set_cursor_pos(g, X, Y)
    BY <1>2 DEF InsertChars
  <2>2. Rest \in SUBSET Cell /\ Copied \in SUBSET Cell
    OBVIOUS
  <2>3. blank \in [Rest -> Char]
    BY SpaceType
  <2>4. copy \in [Copied -> Char]
    <3>1. n \in Nat
      BY <1>1
    <3> HIDE DEF n
    <3>2. \A p \in Copied : p[1] - n \in 0..(cols - 1)
      BY <3>1, Places, CellParts, Measures
    <3> HIDE DEF Copied
    <3> QED BY <3>2, LineText
  <2> HIDE DEF Rest, Copied, blank, copy
  <2>5. Frames(fb, blanked) /\ Framed(blanked)
    BY <1>1, <2>2, <2>3, PushFrames DEF Frames
  <2> HIDE DEF blanked
  <2>6. Frames(blanked, g) /\ Framed(g)
    BY <2>2, <2>4, <2>5, PushFrames DEF Frames
  <2> HIDE DEF g
  <2>7. Frames(g, set_cursor_pos(g, X, Y))
    BY <2>6, Places, CursorFrames
  <2> QED BY <2>1, <2>5, <2>6, <2>7, FramesAgain
<1>3. CASE EraseChars
  <2> DEFINE n == Value(1)
             Moved == {p \in Cell : p[2] = Y /\ p[1] >= X /\ p[1] + n < cols}
             copy == [p \in Moved |-> Content(fb, <<p[1] + n, Y>>)]
             g == PushAll(fb, copy)
             moved == set_cursor_pos(g, cols - n, Y)
             f == IF Byte = "P" THEN moved ELSE fb
  <2>1. fb' = set_cursor_pos(Spaces(f, n), X, Y)
    BY <1>3 DEF EraseChars
  <2>2. n \in Nat
    BY <1>1
  <2> HIDE DEF n
  <2>3. Moved \in SUBSET Cell
    OBVIOUS
  <2>4. copy \in [Moved -> Char]
    <3>1. \A p \in Moved : p[1] + n \in 0..(cols - 1)
      BY <2>2, Places, CellParts, Measures
    <3> HIDE DEF Moved
    <3> QED BY <3>1, LineText
  <2> HIDE DEF Moved, copy
  <2>5. Frames(fb, g) /\ Framed(g)
    BY <1>1, <2>3, <2>4, PushFrames DEF Frames
  <2> HIDE DEF g
  <2>6. Frames(g, moved)
    <3>1. cols - n \in Int /\ Y \in Int
      BY <1>1, <2>2, Places
    <3> QED BY <2>5, <3>1, CursorFrames
  <2> HIDE DEF moved
  <2>7. Frames(fb, f)
    BY <1>1, <2>5, <2>6, FramesAgain
  <2> HIDE DEF f
  <2> QED BY <2>1, <2>7, ErasedFrames
<1> QED BY <1>2, <1>3

LEMMA BytewiseFrames == TermInv /\ Bytewise => Frames(fb, fb')
<1> SUFFICES ASSUME TermInv, Bytewise PROVE Frames(fb, fb')
  OBVIOUS
<1>1. CASE UNCHANGED fb
  BY <1>1, KeptSelf DEF TermInv, Frames
<1>2. CASE Discard \/ LeadByte \/ MoreBytes
  BY <1>1, <1>2 DEF Discard, LeadByte, MoreBytes
<1>3. CASE Silent \/ Escape \/ ShiftCharset
  BY <1>1, <1>3 DEF Silent, Escape, ShiftCharset
<1>4. CASE ChooseCharset \/ BeginSequence \/ BeginOsc \/ OscByte \/ save_state
  BY <1>1, <1>4 DEF ChooseCharset, BeginSequence, BeginOsc, OscByte, save_state
<1>5. CASE SelectCharset \/ OtherEscape \/ SkipNext \/ PrivateMark \/ Digit \/ Separator
  BY <1>1, <1>5 DEF SelectCharset, OtherEscape, SkipNext, PrivateMark, Digit, Separator
<1>6. CASE DecPrivate \/ mode_toggle \/ SaveCursor \/ SelectGraphics \/ OtherCommand
  BY <1>1, <1>6 DEF DecPrivate, mode_toggle, SaveCursor, SelectGraphics, OtherCommand
<1>7. CASE DeleteLines \/ InsertLines
  <2>1. Value(1) \in Nat
    BY ValueType DEF TermInv
  <2> QED BY <1>7, <2>1, TimesScroll, TimesRevscroll DEF DeleteLines, InsertLines
<1>8. CASE LastByte \/ Character
  BY <1>8, LastByteFrames, CharacterFrames
<1>9. CASE Tab \/ LineFeed \/ Backspace \/ Return \/ Index \/ NewLine
  BY <1>9, MotionFrames
<1>10. CASE restore_state \/ Reset \/ ReverseIndex
  BY <1>10, StateFrames
<1>11. CASE CursorUp \/ CursorDown \/ CursorTo \/ SetRegion
  BY <1>11, CursorCommandFrames
<1>12. CASE EraseDisplay \/ EraseLine \/ InsertChars \/ EraseChars
  BY <1>12, EraseFrames, LineFrames
<1> QED BY <1>2, <1>3, <1>4, <1>5, <1>6, <1>7, <1>8, <1>9, <1>10, <1>11, <1>12 DEF Bytewise

-----------------------------------------------------------------------------
(* The invariant. *)
LEMMA InitFramed == Framed(flanterm_fb_init(default_fg, Transparent))
<1> DEFINE f == flanterm_fb_init(default_fg, Transparent)
<1>1. Counted(f)
  BY InitCounted, Defaults
<1>2. f.cursor_x = 0 /\ f.cursor_y = 0
  <2>1. \A g, s : /\ [g EXCEPT !.framebuffer = s].cursor_x = g.cursor_x
                  /\ [g EXCEPT !.framebuffer = s].cursor_y = g.cursor_y
    OBVIOUS
  <2> QED BY DEF flanterm_fb_init, full_refresh, draw_cursor
<1> QED BY <1>1, <1>2, Measures DEF Framed

LEMMA NewTermOK == TermOK(NewTerm)
<1>1. <<0, 0>> \in Cell
  BY Measures DEF Cell
<1>2. <<"default", "special">> \in {"default", "special"} \X {"default", "special"}
  OBVIOUS
<1>3. rows \in 1..rows /\ 0 \in Nat
  BY Measures
<1>4. NewTerm \in Terms
  BY <1>1, <1>2, <1>3 DEF NewTerm, Terms
<1> QED BY <1>4 DEF TermOK, NewTerm

LEMMA InitInv == Init => TermInv
<1> SUFFICES ASSUME Init PROVE TermInv
  OBVIOUS
<1>1. Framed(fb)
  BY InitFramed DEF Init
<1>2. TermOK(term)
  BY NewTermOK DEF Init
<1>3. ParserOK(parser)
  <2>1. NoSequence \in Parsers
    BY NoValues DEF NoSequence, Parsers
  <2>2. Len(NoSequence.esc_values) = 0 /\ ~NoSequence.control_sequence /\ ~NoSequence.osc /\ ~NoSequence.csi
    BY NoValues DEF NoSequence
  <2> QED BY <2>1, <2>2, Limits DEF Init, ParserOK
<1>4. PenOK(pen)
  BY PlainPenOK DEF Init
<1>5. SavedOK(saved)
  <2> DEFINE p == [PlainPen EXCEPT !.text_fg = 0, !.text_bg = 0,
                                   !.current_primary = 0, !.current_bg = 0]
  <2>1. /\ p.text_fg = 0 /\ p.text_bg = 0 /\ p.current_primary = 0 /\ p.current_bg = 0
        /\ p \in Pens
    <3>1. PlainPen \in Pens
      BY PlainPenOK DEF PenOK
    <3>2. 0 \in Int /\ 0 \in -1..7
      OBVIOUS
    <3>3. \A q \in Pens : LET r == [q EXCEPT !.text_fg = 0, !.text_bg = 0,
                                           !.current_primary = 0, !.current_bg = 0]
                          IN /\ r.text_fg = 0 /\ r.text_bg = 0 /\ r.current_primary = 0
                             /\ r.current_bg = 0 /\ r \in Pens
      BY <3>2 DEF Pens
    <3> QED BY <3>1, <3>3, Zenon
  <2>2. saved.pen = p /\ saved.current_charset = 1 /\ saved.cursor = <<0, 0>>
        /\ saved = [pen |-> p, current_charset |-> 1, cursor |-> <<0, 0>>]
    BY DEF Init
  <2> HIDE DEF p
  <2>3. StandsFor(0, 0)
    BY DEF StandsFor, Bright, ansi_colours
  <2>4. Inked(p)
    BY <2>1, <2>3, InkedIs DEF Front, Behind
  <2>5. <<0, 0>> \in (0..cols) \X (0..(cols - 1))
    BY Measures
  <2> QED BY <2>1, <2>2, <2>4, <2>5 DEF SavedOK, Saved
<1>6. input = NULL /\ writes = 0
  BY DEF Init
<1> QED BY <1>1, <1>2, <1>3, <1>4, <1>5, <1>6, Limits DEF TermInv

LEMMA FlushFrames ==
  ASSUME TermInv
  PROVE  LET g == double_buffer_flush(fb, term.cursor_enabled)
         IN Framed(g) /\ SameCursor(fb, g)
<1> DEFINE on == term.cursor_enabled
           d == Drain(IF on THEN draw_cursor(fb) ELSE fb)
           h == EraseCursor(d, on)
           g == double_buffer_flush(fb, on)
<1>1. on \in BOOLEAN /\ Counted(fb) /\ fb \in Context
  BY DEF TermInv, TermOK, Terms, Framed, Counted
<1>2. Counted(g)
  BY <1>1, FlushCounted
<1>3. g = [h EXCEPT !.old_cursor_x = fb.cursor_x, !.old_cursor_y = fb.cursor_y, !.queue_i = 0]
  BY DEF double_buffer_flush
<1>4. h.cursor_x = d.cursor_x /\ h.cursor_y = d.cursor_y
  <2> HIDE DEF d
  <2> QED BY DEF EraseCursor
<1>5. d.cursor_x = fb.cursor_x /\ d.cursor_y = fb.cursor_y
  BY DEF Drain, draw_cursor
<1> HIDE DEF h, d
<1>6. SameCursor(fb, g)
  BY <1>3, <1>4, <1>5 DEF SameCursor
<1> QED BY <1>2, <1>6 DEF Framed, SameCursor, TermInv

LEMMA FrameTypes == TermInv /\ Next => Framed(fb')
<1> SUFFICES ASSUME TermInv, Next PROVE Framed(fb')
  OBVIOUS
<1>1. CASE flanterm_write \/ SetColour
  BY <1>1 DEF flanterm_write, SetColour, TermInv
<1>2. CASE Flush
  BY <1>2, FlushFrames DEF Flush
<1>3. CASE ClearScreen
  BY <1>3, ClearFrames DEF ClearScreen, TermInv, Frames
<1>4. CASE Bytewise
  BY <1>4, BytewiseFrames DEF Frames
<1> QED BY <1>1, <1>2, <1>3, <1>4, StepKinds

LEMMA InvStep == TermInv /\ [Next]_vars => TermInv'
<1> SUFFICES ASSUME TermInv, [Next]_vars PROVE TermInv'
  OBVIOUS
<1>1. CASE Next
  BY <1>1, FrameTypes, TermTypes, ParserTypes, PenTypes, SavedTypes, InputTypes DEF TermInv
<1>2. CASE UNCHANGED vars
  BY <1>2 DEF vars, TermInv
<1> QED BY <1>1, <1>2

LEMMA AlwaysInv == Spec => []TermInv
  BY InitInv, InvStep, PTL DEF Spec

(* The terminal keeps its types: in particular the margins always enclose  *)
(* at least two rows, or all of the screen, the cursor stays where the     *)
(* queue can take it, and a sequence never holds more values than there is *)
(* room for (flanterm.c:371-1092).                                         *)
THEOREM TypeCorrect == Spec => []TypeOK
<1>1. TermInv => TypeOK
  <2> SUFFICES ASSUME TermInv PROVE TypeOK
    OBVIOUS
  <2>1. fb.grid \in [Cell -> Char] /\ \A p \in Cell : fb.map[p] \in Char \cup {NULL}
    BY DEF TermInv, Framed, Counted, Context, Grids, Maps
  <2>2. fb.cursor_x \in 0..cols /\ fb.cursor_y \in 0..(cols - 1)
    BY DEF TermInv, Framed
  <2>3. term \in Terms /\ (top < bottom - 1 \/ (top = 0 /\ bottom = rows))
    BY DEF TermInv, TermOK, top, bottom
  <2>4. /\ parser \in Parsers /\ Len(parser.esc_values) <= MAX_ESC_VALUES
        /\ parser.control_sequence \/ parser.osc \/ parser.csi => parser.escape
    BY DEF TermInv, ParserOK
  <2>5. /\ pen \in Pens
        /\ saved \in [pen : Pens, current_charset : {1, 2}, cursor : (0..cols) \X (0..(cols - 1))]
        /\ input \in Seq(STRING) \cup {NULL} /\ writes \in 0..MaxWrites
    BY DEF TermInv, PenOK, SavedOK, Saved
  <2> QED BY <2>1, <2>2, <2>3, <2>4, <2>5 DEF TypeOK
<1> QED BY <1>1, AlwaysInv, PTL

(* Whatever is written, the queue of the backend has one item for each     *)
(* cell that is to change and never outgrows its rows * cols places        *)
(* (fb.c:287-305, 957-1023).                                               *)
THEOREM QueueFitsText == Spec => []QueueFits
<1>1. TermInv => QueueFits
  BY CountedFits DEF TermInv, Framed, Counted, Pending, QueueFits
<1> QED BY <1>1, AlwaysInv, PTL

(* The text is drawn in the colours last asked for, through reverse video, *)
(* save and restore, bold and the defaults (flanterm.c:264-482, fb.c:      *)
(* 594-636).                                                               *)
THEOREM InkAlwaysRecorded == Spec => []InkIsRecorded
<1>1. TermInv => InkIsRecorded
  BY DEF TermInv, PenOK, InkIsRecorded
<1> QED BY <1>1, AlwaysInv, PTL

-----------------------------------------------------------------------------
(* Text stays in the scroll region. *)
InRegion(f) == CursorY(f) \in top..(bottom - 1)
SameOutside(f, g) == \A p \in Cell : p[2] \notin top..(bottom - 1) => Content(g, p) = Content(f, p)

LEMMA PutInRegion ==
  ASSUME TermInv, NEW f, Framed(f), InRegion(f), NEW g \in Glyph
  PROVE  Framed(Put(f, g)) /\ InRegion(Put(f, g)) /\ SameOutside(f, Put(f, g))
<1> DEFINE m == Region(TRUE)
           k == Put(f, g)
           y == PutY(f, m)
<1>1. m \in Margins /\ m.scroll_enabled /\ m.top = top /\ m.bottom = bottom
  BY RegionType
<1>2. k = raw_putchar(f, m, Ch(g)) /\ Ch(g) \in Char
  BY ChType DEF Put
<1>3. /\ Framed(k) /\ k.cursor_y = y
      /\ \A p \in Cell : Content(k, p) = PutText(f, m, Ch(g), p)
  <2> HIDE DEF m, k
  <2> QED BY <1>1, <1>2, RawPut
<1> HIDE DEF m, k
<1>4. /\ f.cursor_y \in 0..(cols - 1) /\ top \in Nat /\ bottom \in 1..rows /\ rows \in Nat
      /\ cols \in Nat /\ rows <= cols
  BY Places, Measures DEF Framed
<1>5. \/ f.cursor_y < rows /\ f.cursor_y \in top..(bottom - 1)
      \/ f.cursor_y >= rows /\ bottom = rows /\ top <= rows - 1
  BY <1>4 DEF InRegion, CursorY
<1>6. \/ y < rows /\ y \in top..(bottom - 1)
      \/ y >= rows /\ y \in Nat /\ bottom = rows /\ top <= rows - 1
  BY <1>1, <1>4, <1>5 DEF PutY, NextY
<1>7. InRegion(k)
  BY <1>3, <1>4, <1>6 DEF InRegion, CursorY
<1>8. ASSUME NEW p \in Cell, p[2] \notin top..(bottom - 1) PROVE Content(k, p) = Content(f, p)
  <2>1. p[2] \in 0..(rows - 1)
    BY CellParts
  <2>2. p[2] # y
    BY <1>4, <1>6, <1>8, <2>1
  <2>3. p # <<PutX(f), y>>
    BY <2>2
  <2>4. NextText(f, m, [Ch(g) EXCEPT !.c = " "], p) = Content(f, p)
    BY <1>1, <1>8 DEF NextText
  <2> HIDE DEF y
  <2>5. Content(k, p) = PutText(f, m, Ch(g), p)
    BY <1>3
  <2> QED BY <2>3, <2>4, <2>5, Zenon DEF PutText, y
<1> QED BY <1>2, <1>3, <1>7, <1>8 DEF SameOutside, k

LEMMA MoveInRegion ==
  ASSUME TermInv, NEW f, Framed(f), NEW x \in Int, NEW y \in top..(bottom - 1)
  PROVE  InRegion(set_cursor_pos(f, x, y)) /\ SameOutside(f, set_cursor_pos(f, x, y))
<1> DEFINE g == set_cursor_pos(f, x, y)
<1>1. top \in Nat /\ bottom \in 1..rows /\ rows \in Nat /\ y \in Int /\ y >= 0 /\ y < rows
  BY Places, Measures
<1>2. SameText(f, g) /\ g.cursor_y = (IF y < 0 THEN 0 ELSE IF y >= rows THEN rows - 1 ELSE y)
  BY <1>1, CursorSet
<1> HIDE DEF g
<1>3. g.cursor_y = y
  BY <1>1, <1>2
<1>4. InRegion(g) /\ SameOutside(f, g)
  BY <1>1, <1>2, <1>3 DEF InRegion, CursorY, SameText, SameOutside
<1> QED BY <1>4 DEF g

LEMMA DownInRegion ==
  ASSUME TermInv, InRegion(fb), NEW c \in Int, Down(c)
  PROVE  InRegion(fb') /\ SameOutside(fb, fb')
<1> DEFINE s == scroll(fb, top, bottom, Space)
<1>1. Framed(fb) /\ Y \in top..(bottom - 1) /\ top \in Int /\ bottom \in Int /\ bottom <= rows
  <2>1. Y \in top..(bottom - 1)
    BY DEF InRegion, Y
  <2> QED BY <2>1, Places, Measures DEF TermInv
<1>2. fb' = IF Y = bottom - 1 THEN set_cursor_pos(s, c, Y) ELSE set_cursor_pos(fb, c, Y + 1)
  BY DEF Down, top, bottom
<1>3. CASE Y = bottom - 1
  <2>1. Framed(s) /\ \A p \in Cell : Content(s, p) =
               IF p[2] \notin top..(bottom - 1) THEN Content(fb, p)
               ELSE IF p[2] < bottom - 1 THEN Content(fb, <<p[1], p[2] + 1>>) ELSE Space
    BY <1>1, SpaceType, Scrolled
  <2> HIDE DEF s
  <2>2. SameOutside(fb, s)
    BY <2>1 DEF SameOutside
  <2>3. InRegion(set_cursor_pos(s, c, Y)) /\ SameOutside(s, set_cursor_pos(s, c, Y))
    BY <1>1, <2>1, MoveInRegion
  <2> QED BY <1>2, <1>3, <2>2, <2>3 DEF SameOutside
<1>4. CASE Y # bottom - 1
  <2>1. Y + 1 \in top..(bottom - 1)
    BY <1>1, <1>4
  <2>2. InRegion(set_cursor_pos(fb, c, Y + 1)) /\ SameOutside(fb, set_cursor_pos(fb, c, Y + 1))
    BY <1>1, <2>1, MoveInRegion
  <2> QED BY <1>2, <1>4, <2>2
<1> QED BY <1>3, <1>4

LEMMA ShiftInRegion ==
  ASSUME TermInv, InRegion(fb)
  PROVE  LET f == Shifted(fb, 1) IN Framed(f) /\ InRegion(f) /\ SameOutside(fb, f)
<1> DEFINE S == {q \in Cell : q[2] = Y /\ q[1] >= X + 1}
           new == [p \in S |-> Content(fb, <<p[1] - 1, Y>>)]
           f == Shifted(fb, 1)
<1>1. \A p \in S : p[1] - 1 \in 0..(cols - 1) /\ p[2] = Y
  BY Places, CellParts, Measures
<1>2. S \in SUBSET Cell
  OBVIOUS
<1>3. f = PushAll(fb, new)
  BY DEF Shifted
<1> HIDE DEF S, f
<1>4. new \in [S -> Char]
  BY <1>1, LineText
<1> HIDE DEF new
<1>5. /\ Framed(f) /\ SameCursor(fb, f)
      /\ \A p \in Cell : Content(f, p) = IF p \in S THEN new[p] ELSE Content(fb, p)
  BY <1>2, <1>3, <1>4, Pushed DEF TermInv
<1>6. Y \in top..(bottom - 1)
  BY DEF InRegion, Y
<1>7. SameOutside(fb, f)
  BY <1>1, <1>5, <1>6 DEF SameOutside
<1>8. InRegion(f)
  BY <1>5 DEF InRegion, CursorY, SameCursor
<1> QED BY <1>5, <1>7, <1>8 DEF f

LEMMA TextOnly ==
  ASSUME Next, InText \/ Continues
  PROVE  \/ UNCHANGED fb \/ LastByte \/ Tab \/ LineFeed \/ Backspace \/ Return \/ Character
<1> USE DEF Reading, Plain, InEscape, InSequence, InOsc, InText, Choosing, EscapeEnds, EndSequence,
            Final, Command
<1>1. CASE flanterm_write \/ Flush \/ ClearScreen \/ SetColour
  BY <1>1 DEF flanterm_write, Flush, ClearScreen, SetColour, Continues
<1>2. CASE Discard \/ LeadByte \/ MoreBytes \/ LastByte
  BY <1>2 DEF Discard, LeadByte, MoreBytes
<1>3. CASE Silent \/ Escape \/ Tab \/ LineFeed \/ Backspace \/ Return \/ ShiftCharset \/ Character
  BY <1>3 DEF Silent, Escape, ShiftCharset
<1>4. CASE \/ ChooseCharset \/ BeginSequence \/ BeginOsc \/ OscByte \/ save_state \/ restore_state
           \/ Reset
  BY <1>4 DEF ChooseCharset, BeginSequence, BeginOsc, OscByte, save_state, restore_state, Reset
<1>5. CASE Index \/ NewLine \/ ReverseIndex \/ SelectCharset \/ OtherEscape
  BY <1>5 DEF Index, NewLine, ReverseIndex, SelectCharset, OtherEscape
<1>6. CASE SkipNext \/ PrivateMark \/ Digit \/ Separator \/ DecPrivate \/ mode_toggle
  BY <1>6 DEF SkipNext, PrivateMark, Digit, Separator, DecPrivate, mode_toggle
<1>7. CASE CursorUp \/ CursorDown \/ CursorTo \/ SaveCursor \/ DeleteLines \/ InsertLines
  BY <1>7 DEF CursorUp, CursorDown, CursorTo, SaveCursor, DeleteLines, InsertLines
<1>8. CASE \/ EraseDisplay \/ EraseLine \/ InsertChars \/ EraseChars \/ SetRegion \/ SelectGraphics
           \/ OtherCommand
  BY <1>8 DEF EraseDisplay, EraseLine, InsertChars, EraseChars, SetRegion, SelectGraphics,
              OtherCommand
<1> QED BY <1>1, <1>2, <1>3, <1>4, <1>5, <1>6, <1>7, <1>8 DEF Next

LEMMA TextInRegion ==
  ASSUME TermInv, Next, InText \/ Continues, InRegion(fb)
  PROVE  InRegion(fb') /\ SameOutside(fb, fb')
<1>1. Framed(fb) /\ Y \in top..(bottom - 1) /\ X \in Int /\ X - 1 \in Int /\ cols \in Int
  <2>1. Y \in top..(bottom - 1)
    BY DEF InRegion, Y
  <2> QED BY <2>1, Places, Measures DEF TermInv
<1>2. \A x : x \in Int /\ MoveTo(x, Y) => InRegion(fb') /\ SameOutside(fb, fb')
  BY <1>1, MoveInRegion DEF MoveTo
<1>3. CASE UNCHANGED fb
  BY <1>3 DEF InRegion, SameOutside
<1>4. CASE LastByte
  <2> DEFINE s == Put(fb, "fe")
             n == CodePoint
  <2>1. unicode_to_cp437(n) # NULL => /\ InRegion(Put(fb, unicode_to_cp437(n)))
                                      /\ SameOutside(fb, Put(fb, unicode_to_cp437(n)))
    BY <1>1, GlyphType, PutInRegion, Zenon
  <2>2. Framed(s) /\ InRegion(s) /\ SameOutside(fb, s)
    BY <1>1, GlyphType, PutInRegion
  <2>3. InRegion(Put(s, " ")) /\ SameOutside(s, Put(s, " "))
    <3>1. " " \in Glyph
      BY Sizes
    <3> HIDE DEF s
    <3> QED BY <2>2, <3>1, PutInRegion
  <2>4. SameOutside(fb, Put(s, " "))
    <3> HIDE DEF s
    <3> QED BY <2>2, <2>3 DEF SameOutside
  <2>5. \/ unicode_to_cp437(n) # NULL /\ fb' = Put(fb, unicode_to_cp437(n))
        \/ fb' = fb \/ fb' = s \/ fb' = Put(s, " ")
    BY <1>4, LastByteText
  <2> HIDE DEF s, n
  <2> QED BY <1>3, <2>1, <2>2, <2>3, <2>4, <2>5
<1>5. CASE Character
  <2> DEFINE f == IF term.insert_mode THEN Shifted(fb, 1) ELSE fb
  <2>1. Framed(f) /\ InRegion(f) /\ SameOutside(fb, f)
    BY <1>1, ShiftInRegion DEF SameOutside
  <2>2. fb' = f \/ \E g \in Glyph : fb' = Put(f, g)
    BY <1>5, CharacterText
  <2> HIDE DEF f
  <2>3. ASSUME NEW g \in Glyph, fb' = Put(f, g) PROVE InRegion(fb') /\ SameOutside(fb, fb')
    <3>1. InRegion(Put(f, g)) /\ SameOutside(f, Put(f, g))
      BY <2>1, PutInRegion
    <3> QED BY <2>1, <2>3, <3>1 DEF SameOutside
  <2> QED BY <2>1, <2>2, <2>3
<1>6. CASE LineFeed
  BY <1>6, DownInRegion DEF LineFeed
<1>7. CASE Tab
  <2> DEFINE x == IF X \div tab_size + 1 >= cols THEN cols - 1 ELSE (X \div tab_size + 1) * tab_size
  <2>1. MoveTo(x, Y)
    BY <1>7 DEF Tab
  <2>2. x \in Int
    BY <1>1 DEF tab_size
  <2> HIDE DEF x
  <2> QED BY <2>1, <2>2, <1>2
<1>8. CASE Backspace
  BY <1>1, <1>2, <1>8 DEF Backspace
<1>9. CASE Return
  BY <1>1, <1>2, <1>9 DEF Return
<1> QED BY <1>3, <1>4, <1>5, <1>6, <1>7, <1>8, <1>9, TextOnly

(* Text that starts inside the scroll region leaves the rest of the screen *)
(* alone and ends inside it, whatever its length, its line ends, the       *)
(* characters it inserts and the code points that take two cells           *)
(* (flanterm.c:1244-1345, fb.c:716-756).                                   *)
THEOREM TextKeepsToRegion == Spec => RegionOnly
<1> DEFINE A == (InText \/ Continues) /\ Y \in top..(bottom - 1) =>
                   /\ CursorY(fb') \in top..(bottom - 1)
                   /\ \A p \in Cell : p[2] \notin top..(bottom - 1) =>
                         Content(fb', p) = Content(fb, p)
<1>1. TermInv /\ [Next]_vars => [A]_vars
  <2> SUFFICES ASSUME TermInv, Next, InText \/ Continues, Y \in top..(bottom - 1)
               PROVE  /\ CursorY(fb') \in top..(bottom - 1)
                      /\ \A p \in Cell : p[2] \notin top..(bottom - 1) =>
                            Content(fb', p) = Content(fb, p)
    OBVIOUS
  <2>1. InRegion(fb)
    BY DEF InRegion, Y
  <2> QED BY <2>1, TextInRegion DEF InRegion, SameOutside
<1>2. [][A]_vars => RegionOnly
  BY PTL DEF RegionOnly
<1> QED BY <1>1, <1>2, AlwaysInv, PTL DEF Spec

-----------------------------------------------------------------------------
(* The pixels.  A pixel belongs to the cell that CellAt gives, at the dot  *)
(* that Within gives, and to no other.                                     *)
LEMMA Division ==
  ASSUME NEW a \in Int, NEW n \in Nat \ {0}
  PROVE  a \div n \in Int /\ a % n \in 0..(n - 1) /\ a = n * (a \div n) + (a % n)
  OBVIOUS

LEMMA OneQuotient ==
  ASSUME NEW n \in Nat \ {0}, NEW q \in Int, NEW d \in Int, NEW r \in 0..(n - 1), NEW s \in 0..(n - 1),
         n * q + r = n * d + s
  PROVE  q = d /\ r = s
<1>1. ASSUME NEW u \in Int, NEW v \in Int, NEW x \in 0..(n - 1), NEW y \in 0..(n - 1),
             n * u + x = n * v + y
      PROVE  ~(u < v)
  <2> SUFFICES ASSUME u < v PROVE FALSE
    OBVIOUS
  <2>1. PICK k \in Nat : v = u + 1 + k
    <3>1. v - u - 1 \in Nat /\ v = u + 1 + (v - u - 1)
      OBVIOUS
    <3> QED BY <3>1
  <2>2. n * u \in Int /\ n * k \in Nat /\ n * v = n * u + n + n * k
    BY <2>1
  <2> QED BY <1>1, <2>2
<1>2. ~(q < d) /\ ~(d < q)
  BY <1>1
<1>3. q = d
  BY <1>2
<1>4. n * q \in Int /\ n * d = n * q
  BY <1>3
<1> QED BY <1>3, <1>4

LEMMA PixelSizes ==
  /\ glyph_width \in Nat \ {0} /\ FontHeight \in Nat \ {0} /\ offset_x \in Int /\ offset_y \in Int
  /\ Width \in Nat /\ Height \in Nat
<1>1. /\ Width \in Nat /\ Height \in Nat /\ Spacing \in Nat
      /\ FontWidth \in Nat \ {0} /\ FontHeight \in Nat \ {0}
  BY FramebufferAssumption, Zenon DEF FramebufferAssumption
<1>2. glyph_width \in Nat \ {0}
  BY <1>1 DEF glyph_width
<1>3. Width % glyph_width \in Int /\ Height % FontHeight \in Int
  BY <1>1, <1>2
<1> QED BY <1>1, <1>2, <1>3 DEF offset_x, offset_y

LEMMA OfCell ==
  ASSUME NEW px \in Pixel, NEW p \in Cell
  PROVE  /\ (px[1] - Corner(p)[1] \in 0..(glyph_width - 1) /\ px[2] - Corner(p)[2] \in 0..(FontHeight - 1))
              <=> p = CellAt(px)
         /\ p = CellAt(px) => <<px[1] - Corner(p)[1], px[2] - Corner(p)[2]>> = Within(px)
<1> DEFINE x == px[1] - offset_x
           y == px[2] - offset_y
           w == glyph_width
           h == FontHeight
           r == px[1] - Corner(p)[1]
           s == px[2] - Corner(p)[2]
<1>1. w \in Nat \ {0} /\ h \in Nat \ {0} /\ px[1] \in Int /\ px[2] \in Int /\ x \in Int /\ y \in Int
  BY PixelSizes DEF Pixel
<1>2. p[1] \in Int /\ p[2] \in Int /\ p = <<p[1], p[2]>>
  BY Measures DEF Cell
<1>3. CellAt(px) = <<x \div w, y \div h>> /\ Within(px) = <<x % w, y % h>>
  BY DEF CellAt, Within
<1>4. r \in Int /\ s \in Int /\ x = w * p[1] + r /\ y = h * p[2] + s
  BY <1>1, <1>2, PixelSizes DEF Corner
<1> HIDE DEF x, y, w, h, r, s
<1>5. x = w * (x \div w) + (x % w) /\ x \div w \in Int /\ x % w \in 0..(w - 1)
  BY <1>1, Division
<1>6. y = h * (y \div h) + (y % h) /\ y \div h \in Int /\ y % h \in 0..(h - 1)
  BY <1>1, Division
<1>7. ASSUME r \in 0..(w - 1), s \in 0..(h - 1) PROVE p = CellAt(px)
  <2>1. p[1] = x \div w
    <3>1. w * p[1] + r = w * (x \div w) + (x % w)
      BY <1>4, <1>5
    <3> QED BY <1>1, <1>2, <1>5, <1>7, <3>1, OneQuotient
  <2>2. p[2] = y \div h
    <3>1. h * p[2] + s = h * (y \div h) + (y % h)
      BY <1>4, <1>6
    <3> QED BY <1>1, <1>2, <1>6, <1>7, <3>1, OneQuotient
  <2> QED BY <1>2, <1>3, <2>1, <2>2
<1>8. ASSUME p = CellAt(px) PROVE r = x % w /\ s = y % h
  <2>1. p[1] = x \div w /\ p[2] = y \div h
    BY <1>3, <1>8
  <2>2. w * p[1] = w * (x \div w) /\ h * p[2] = h * (y \div h)
    BY <2>1
  <2>3. w * p[1] \in Int /\ h * p[2] \in Int
    BY <1>1, <1>2
  <2> QED BY <1>4, <1>5, <1>6, <2>2, <2>3
<1>9. (r \in 0..(w - 1) /\ s \in 0..(h - 1)) <=> p = CellAt(px)
  BY <1>5, <1>6, <1>7, <1>8
<1>10. p = CellAt(px) => <<r, s>> = Within(px)
  BY <1>3, <1>8
<1> QED BY <1>9, <1>10 DEF r, s, w, h

(* What cell p of this text shows at dot at.                               *)
Shown(chars, c, on, p, at) == Dot(IF p = c /\ on THEN Inverted(chars[p]) ELSE chars[p], at)

LEMMA PictureAt ==
  ASSUME NEW px \in Pixel, NEW chars, NEW c, NEW on
  PROVE  Picture(chars, c, on)[px] = IF CellAt(px) \in Cell
                                     THEN Shown(chars, c, on, CellAt(px), Within(px))
                                     ELSE default_bg
<1> DEFINE Of == {q \in Cell : /\ px[1] - Corner(q)[1] \in 0..(glyph_width - 1)
                               /\ px[2] - Corner(q)[2] \in 0..(FontHeight - 1)}
           p == CHOOSE q \in Of : TRUE
           ch == IF p = c /\ on THEN Inverted(chars[p]) ELSE chars[p]
<1>1. Picture(chars, c, on)[px]
        = IF Of = {} THEN default_bg ELSE Dot(ch, <<px[1] - Corner(p)[1], px[2] - Corner(p)[2]>>)
  BY DEF Picture
<1>2. \A q \in Cell : q \in Of <=> q = CellAt(px)
  BY OfCell
<1>3. Of \subseteq Cell
  OBVIOUS
<1> HIDE DEF Of
<1>4. CASE CellAt(px) \in Cell
  <2>1. Of = {CellAt(px)}
    BY <1>2, <1>3, <1>4
  <2>2. p = CellAt(px)
    BY <2>1
  <2>3. <<px[1] - Corner(p)[1], px[2] - Corner(p)[2]>> = Within(px)
    BY <1>4, <2>2, OfCell
  <2>4. Of # {}
    BY <2>1
  <2> HIDE DEF p
  <2> QED BY <1>1, <1>4, <2>2, <2>3, <2>4, Zenon DEF Shown
<1>5. CASE CellAt(px) \notin Cell
  <2>1. Of = {}
    BY <1>2, <1>3, <1>5
  <2> QED BY <1>1, <1>5, <2>1
<1> QED BY <1>4, <1>5

(* The three steps of a flush, dot by dot.                                 *)
LEMMA DrawAt ==
  ASSUME NEW f \in Context, NEW px \in Pixel
  PROVE  /\ draw_cursor(f) \in Context
         /\ SameText(f, draw_cursor(f))
         /\ Cursor(f) \in Cell => draw_cursor(f).map[Cursor(f)] = NULL
         /\ \A p \in Cell : p # Cursor(f) => /\ draw_cursor(f).map[p] = f.map[p]
                                             /\ draw_cursor(f).grid[p] = f.grid[p]
         /\ Cursor(draw_cursor(f)) = Cursor(f) /\ OldCursor(draw_cursor(f)) = OldCursor(f)
         /\ draw_cursor(f).framebuffer[px] =
               IF CellAt(px) \in Cell /\ CellAt(px) = Cursor(f)
               THEN Dot(Inverted(Content(f, CellAt(px))), Within(px)) ELSE f.framebuffer[px]
<1> DEFINE p == Cursor(f)
           g == draw_cursor(f)
           lit == [q \in {p} |-> Inverted(Content(f, p))]
           screen == plot_char(f.framebuffer, lit)
<1>1. g \in Context
  BY DrawCursorContext
<1>2. CASE p \in Cell
  <2>1. g = [f EXCEPT !.framebuffer = screen,
                      !.grid = [f.grid EXCEPT ![p] = Content(f, p)],
                      !.map = [f.map EXCEPT ![p] = NULL]]
    BY <1>2 DEF draw_cursor, Context
  <2>2. f.grid \in [Cell -> Char] /\ f.map \in [Cell -> Char \cup {NULL}]
    BY DEF Context, Grids, Maps
  <2>3. /\ g.framebuffer = screen /\ g.grid = [f.grid EXCEPT ![p] = Content(f, p)]
        /\ g.map = [f.map EXCEPT ![p] = NULL]
        /\ g.cursor_x = f.cursor_x /\ g.cursor_y = f.cursor_y
        /\ g.old_cursor_x = f.old_cursor_x /\ g.old_cursor_y = f.old_cursor_y
    <3> HIDE DEF p, screen, g
    <3> QED BY <2>1 DEF Context
  <2>4. g.map[p] = NULL /\ g.grid[p] = Content(f, p)
    <3> HIDE DEF p, g
    <3> QED BY <1>2, <2>2, <2>3
  <2>5. \A q \in Cell : q # p => g.map[q] = f.map[q] /\ g.grid[q] = f.grid[q]
    <3> HIDE DEF p, g
    <3> QED BY <1>2, <2>2, <2>3
  <2>6. SameText(f, g)
    <3> HIDE DEF p, g
    <3> QED BY <2>4, <2>5 DEF SameText, Content
  <2>7. g.framebuffer[px] = IF CellAt(px) = p THEN Dot(Inverted(Content(f, p)), Within(px))
                            ELSE f.framebuffer[px]
    <3>1. screen[px] = IF CellAt(px) \in DOMAIN lit THEN Dot(lit[CellAt(px)], Within(px))
                       ELSE f.framebuffer[px]
      BY DEF plot_char
    <3>2. DOMAIN lit = {p} /\ lit[p] = Inverted(Content(f, p))
      OBVIOUS
    <3> HIDE DEF lit, screen, p, g
    <3> QED BY <2>3, <3>1, <3>2
  <2>8. Cursor(g) = p /\ OldCursor(g) = OldCursor(f)
    <3> HIDE DEF g
    <3> QED BY <2>3 DEF Cursor, OldCursor
  <2> HIDE DEF lit, screen
  <2> QED BY <1>1, <1>2, <2>4, <2>5, <2>6, <2>7, <2>8
<1>3. CASE p \notin Cell
  BY <1>3 DEF draw_cursor, SameText
<1> QED BY <1>2, <1>3

LEMMA DrainAt ==
  ASSUME NEW f \in Context, NEW px \in Pixel
  PROVE  /\ Drain(f).grid = [p \in Cell |-> Content(f, p)]
         /\ Cursor(Drain(f)) = Cursor(f) /\ OldCursor(Drain(f)) = OldCursor(f)
         /\ CellAt(px) \notin Cell => Drain(f).framebuffer[px] = f.framebuffer[px]
         /\ CellAt(px) \in Cell /\ f.map[CellAt(px)] = NULL
              => Drain(f).framebuffer[px] = f.framebuffer[px]
         /\ CellAt(px) \in Cell /\ f.map[CellAt(px)] # NULL
              => \/ Drain(f).framebuffer[px] = Dot(Content(f, CellAt(px)), Within(px))
                 \/ /\ Drain(f).framebuffer[px] = f.framebuffer[px]
                    /\ Dot(Content(f, CellAt(px)), Within(px)) = Dot(f.grid[CellAt(px)], Within(px))
<1> DEFINE p == CellAt(px)
           at == Within(px)
           Queued == {q \in Cell : f.map[q] # NULL}
           Quick == {q \in Queued : f.map[q].fg = f.grid[q].fg /\ f.map[q].bg = f.grid[q].bg}
           slow == [q \in Queued \ Quick |-> f.map[q]]
           quick == [q \in Quick |-> f.map[q]]
           drawn == plot_char(f.framebuffer, slow)
           screen == plot_char_fast(drawn, f.grid, quick)
           g == Drain(f)
           text == [q \in Cell |-> Content(f, q)]
<1>1. g = [f EXCEPT !.framebuffer = screen, !.grid = text, !.map = [q \in Cell |-> NULL]]
  BY DEF Drain
<1>2. /\ g.framebuffer = screen /\ g.grid = text
      /\ g.cursor_x = f.cursor_x /\ g.cursor_y = f.cursor_y
      /\ g.old_cursor_x = f.old_cursor_x /\ g.old_cursor_y = f.old_cursor_y
  <2> HIDE DEF screen, text, g
  <2> QED BY <1>1 DEF Context
<1>3. drawn[px] = IF p \in Queued \ Quick THEN Dot(slow[p], at) ELSE f.framebuffer[px]
  BY DEF plot_char
<1>4. screen[px] = IF /\ p \in Quick
                      /\ (at \in font_bool[f.grid[p].c]) # (at \in font_bool[quick[p].c])
                   THEN Dot(quick[p], at) ELSE drawn[px]
  BY DEF plot_char_fast
<1>5. /\ p \in Queued \ Quick => slow[p] = f.map[p]
      /\ p \in Quick => quick[p] = f.map[p] /\ p \in Queued
      /\ p \in Queued => p \in Cell /\ f.map[p] # NULL
      /\ p \in Cell /\ f.map[p] # NULL => p \in Queued
      /\ p \in Quick => f.map[p].fg = f.grid[p].fg /\ f.map[p].bg = f.grid[p].bg
  OBVIOUS
<1>6. f.map[p] # NULL => Content(f, p) = f.map[p]
  BY DEF Content
<1> HIDE DEF p, at, Queued, Quick, slow, quick, drawn, screen, g
<1>7. p \notin Queued => g.framebuffer[px] = f.framebuffer[px]
  BY <1>2, <1>3, <1>4, <1>5
<1>8. ASSUME p \in Queued
      PROVE  \/ g.framebuffer[px] = Dot(Content(f, p), at)
             \/ g.framebuffer[px] = f.framebuffer[px] /\ Dot(Content(f, p), at) = Dot(f.grid[p], at)
  <2>1. Content(f, p) = f.map[p]
    BY <1>5, <1>6, <1>8
  <2>2. CASE p \notin Quick
    BY <1>2, <1>3, <1>4, <1>5, <1>8, <2>1, <2>2
  <2>3. CASE p \in Quick /\ (at \in font_bool[f.grid[p].c]) # (at \in font_bool[quick[p].c])
    BY <1>2, <1>4, <1>5, <2>1, <2>3
  <2>4. CASE p \in Quick /\ ((at \in font_bool[f.grid[p].c]) <=> (at \in font_bool[quick[p].c]))
    <3>1. g.framebuffer[px] = f.framebuffer[px]
      BY <1>2, <1>3, <1>4, <2>4
    <3>2. Dot(f.map[p], at) = Dot(f.grid[p], at)
      BY <1>5, <2>4 DEF Dot
    <3> QED BY <2>1, <3>1, <3>2
  <2> QED BY <2>2, <2>3, <2>4
<1>9. Cursor(g) = Cursor(f) /\ OldCursor(g) = OldCursor(f)
  BY <1>2 DEF Cursor, OldCursor
<1>10. p \notin Cell \/ f.map[p] = NULL => g.framebuffer[px] = f.framebuffer[px]
  BY <1>5, <1>7
<1>11. p \in Cell /\ f.map[p] # NULL => p \in Queued
  BY <1>5
<1> HIDE DEF text
<1>12. g.grid = text
  BY <1>2
<1> QED BY <1>8, <1>9, <1>10, <1>11, <1>12 DEF g, p, at, text

LEMMA EraseAt ==
  ASSUME NEW f \in Context, NEW px \in Pixel, NEW on
  PROVE  /\ EraseCursor(f, on).grid = f.grid
         /\ EraseCursor(f, on).framebuffer[px] =
               IF (Cursor(f) # OldCursor(f) \/ ~on) /\ OldCursor(f) \in Cell /\ CellAt(px) = OldCursor(f)
               THEN Dot(f.grid[CellAt(px)], Within(px)) ELSE f.framebuffer[px]
<1> DEFINE p == OldCursor(f)
           old == [q \in {p} |-> f.grid[q]]
           screen == plot_char(f.framebuffer, old)
           g == EraseCursor(f, on)
<1>1. CASE (Cursor(f) # p \/ ~on) /\ p \in Cell
  <2>1. g = [f EXCEPT !.framebuffer = screen]
    BY <1>1 DEF EraseCursor
  <2>2. g.framebuffer = screen /\ g.grid = f.grid
    <3> HIDE DEF screen, g
    <3> QED BY <2>1 DEF Context
  <2>3. screen[px] = IF CellAt(px) \in DOMAIN old THEN Dot(old[CellAt(px)], Within(px))
                     ELSE f.framebuffer[px]
    BY DEF plot_char
  <2>4. DOMAIN old = {p} /\ old[p] = f.grid[p]
    OBVIOUS
  <2> HIDE DEF screen, old, g, p
  <2>5. g.framebuffer[px] = IF CellAt(px) = p THEN Dot(f.grid[CellAt(px)], Within(px))
                            ELSE f.framebuffer[px]
    BY <2>2, <2>3, <2>4
  <2> QED BY <1>1, <2>2, <2>5, Zenon DEF g, p
<1>2. CASE ~((Cursor(f) # p \/ ~on) /\ p \in Cell)
  <2>1. g = f
    BY <1>2, Zenon DEF EraseCursor
  <2> HIDE DEF g
  <2> QED BY <1>2, <2>1, Zenon DEF g
<1> QED BY <1>1, <1>2

LEMMA SomePixel == Pixel # {}
<1>1. Width \in Nat \ {0} /\ Height \in Nat \ {0}
  <2>1. Width >= glyph_width /\ Height >= FontHeight
    <3>1. Width \div glyph_width # 0 /\ Height \div FontHeight # 0
      BY Measures DEF cols, rows
    <3> QED BY <3>1, PixelSizes
  <2> QED BY <2>1, PixelSizes
<1>2. <<0, 0>> \in Pixel
  BY <1>1 DEF Pixel
<1> QED BY <1>2

LEMMA PictureDomain ==
  ASSUME NEW chars, NEW c, NEW on
  PROVE  \E b : Picture(chars, c, on) = [px \in Pixel |-> b[px]]
<1>1. Picture(chars, c, on) = [px \in Pixel |-> Picture(chars, c, on)[px]]
  BY DEF Picture
<1> QED BY <1>1

(* From a screen that shows what is committed, with the cursor inverted or *)
(* not where it was last drawn, a flush makes one that shows the text.     *)
LEMMA FlushPicture ==
  ASSUME NEW f \in Context, NEW was, NEW on \in BOOLEAN,
         f.framebuffer = Picture(f.grid, OldCursor(f), was)
  PROVE  LET g == double_buffer_flush(f, on)
             text == [p \in Cell |-> Content(f, p)]
         IN /\ g.framebuffer = Picture(text, Cursor(f), on)
            /\ g.grid = text /\ OldCursor(g) = Cursor(f)
<1> DEFINE e == IF on THEN draw_cursor(f) ELSE f
           d == Drain(e)
           h == EraseCursor(d, on)
           g == double_buffer_flush(f, on)
           text == [p \in Cell |-> Content(f, p)]
           Cur == Cursor(f)
           Old == OldCursor(f)
<1>1. /\ e \in Context /\ SameText(f, e) /\ Cursor(e) = Cur /\ OldCursor(e) = Old
      /\ on /\ Cur \in Cell => e.map[Cur] = NULL
      /\ \A p \in Cell : ~(p = Cur /\ on) => e.map[p] = f.map[p] /\ e.grid[p] = f.grid[p]
      /\ \A px \in Pixel : e.framebuffer[px] =
            IF on /\ CellAt(px) \in Cell /\ CellAt(px) = Cur
            THEN Dot(Inverted(Content(f, CellAt(px))), Within(px)) ELSE f.framebuffer[px]
  <2>1. draw_cursor(f) \in Context
    BY DrawCursorContext
  <2>2. CASE on
    <3>1. e = draw_cursor(f)
      BY <2>2
    <3>2. Pixel # {} => SameText(f, e) /\ Cursor(e) = Cur /\ OldCursor(e) = Old
                        /\ (Cur \in Cell => e.map[Cur] = NULL)
                        /\ \A p \in Cell : p # Cur => e.map[p] = f.map[p] /\ e.grid[p] = f.grid[p]
      <4> HIDE DEF e
      <4> QED BY <3>1, DrawAt
    <3>3. \A px \in Pixel : e.framebuffer[px] =
              IF CellAt(px) \in Cell /\ CellAt(px) = Cur
              THEN Dot(Inverted(Content(f, CellAt(px))), Within(px)) ELSE f.framebuffer[px]
      <4> HIDE DEF e
      <4> QED BY <3>1, DrawAt
    <3>4. Pixel # {}
      BY SomePixel
    <3> HIDE DEF e, Cur, Old
    <3> QED BY <2>1, <2>2, <3>1, <3>2, <3>3, <3>4
  <2>3. CASE ~on
    BY <2>3 DEF SameText
  <2> QED BY <2>2, <2>3
<1> HIDE DEF e
<1>2. /\ d.grid = [p \in Cell |-> Content(e, p)] /\ Cursor(d) = Cur /\ OldCursor(d) = Old
      /\ d \in Context
  <2>1. d \in Context
    BY <1>1, DrainContext
  <2>2. PICK px \in Pixel : TRUE
    BY SomePixel
  <2> HIDE DEF Cur, Old
  <2> QED BY <1>1, <2>1, <2>2, DrainAt
<1>3. d.grid = text
  BY <1>1, <1>2 DEF SameText
<1>4. h \in Context /\ h.grid = text
  <2>1. PICK px \in Pixel : TRUE
    BY SomePixel
  <2> HIDE DEF d, text
  <2> QED BY <1>2, <1>3, <2>1, EraseContext, EraseAt
<1>5. g = [h EXCEPT !.old_cursor_x = f.cursor_x, !.old_cursor_y = f.cursor_y, !.queue_i = 0]
  BY DEF double_buffer_flush, e
<1>6. /\ g.framebuffer = h.framebuffer /\ g.grid = text
      /\ g.old_cursor_x = f.cursor_x /\ g.old_cursor_y = f.cursor_y
  <2> HIDE DEF h, g, text
  <2> QED BY <1>4, <1>5 DEF Context
<1>7. OldCursor(g) = Cur
  BY <1>6 DEF OldCursor, Cursor
<1>8. ASSUME NEW px \in Pixel PROVE h.framebuffer[px] = Picture(text, Cur, on)[px]
  <2> DEFINE p == CellAt(px)
             at == Within(px)
             C == Content(f, p)
  <2>1. Picture(text, Cur, on)[px] = IF p \in Cell THEN Shown(text, Cur, on, p, at) ELSE default_bg
    BY PictureAt
  <2>2. f.framebuffer[px] = IF p \in Cell THEN Shown(f.grid, Old, was, p, at) ELSE default_bg
    BY PictureAt
  <2>3. e.framebuffer[px] = IF on /\ p \in Cell /\ p = Cur THEN Dot(Inverted(C), at)
                            ELSE f.framebuffer[px]
    BY <1>1
  <2>4. /\ p \notin Cell => d.framebuffer[px] = e.framebuffer[px]
        /\ p \in Cell /\ e.map[p] = NULL => d.framebuffer[px] = e.framebuffer[px]
        /\ p \in Cell /\ e.map[p] # NULL
              => \/ d.framebuffer[px] = Dot(Content(e, p), at)
                 \/ /\ d.framebuffer[px] = e.framebuffer[px]
                    /\ Dot(Content(e, p), at) = Dot(e.grid[p], at)
    BY <1>1, DrainAt
  <2>5. h.framebuffer[px] = IF (Cur # Old \/ ~on) /\ Old \in Cell /\ p = Old
                            THEN Dot(d.grid[p], at) ELSE d.framebuffer[px]
    <3> HIDE DEF d, Cur, Old
    <3> QED BY <1>2, EraseAt
  <2>6. p \in Cell => text[p] = C /\ d.grid[p] = C /\ Content(e, p) = C
    <3>1. p \in Cell => text[p] = C
      OBVIOUS
    <3>2. p \in Cell => Content(e, p) = C
      BY <1>1 DEF SameText
    <3> HIDE DEF d, text, p
    <3> QED BY <1>3, <3>1, <3>2
  <2> HIDE DEF p, at, C, d, h, text, Cur, Old, g
  <2>7. CASE p \notin Cell
    BY <2>1, <2>2, <2>3, <2>4, <2>5, <2>7
  <2>8. CASE p \in Cell /\ p = Cur /\ on
    <3>1. Shown(text, Cur, on, p, at) = Dot(Inverted(C), at)
      BY <2>6, <2>8 DEF Shown
    <3>2. e.map[p] = NULL
      BY <1>1, <2>8
    <3> QED BY <2>1, <2>3, <2>4, <2>5, <2>8, <3>1, <3>2
  <2>9. CASE p \in Cell /\ ~(p = Cur /\ on)
    <3>1. Shown(text, Cur, on, p, at) = Dot(C, at)
      BY <2>6, <2>9 DEF Shown
    <3>2. CASE p = Old
      <4>1. h.framebuffer[px] = Dot(d.grid[p], at)
        BY <2>5, <2>9, <3>2
      <4> QED BY <2>1, <2>6, <2>9, <3>1, <4>1
    <3>3. CASE p # Old
      <4>1. Shown(f.grid, Old, was, p, at) = Dot(f.grid[p], at)
        BY <3>3 DEF Shown
      <4>2. e.framebuffer[px] = Dot(f.grid[p], at) /\ h.framebuffer[px] = d.framebuffer[px]
        BY <2>2, <2>3, <2>5, <2>9, <3>3, <4>1
      <4>3. e.map[p] = f.map[p] /\ e.grid[p] = f.grid[p]
        BY <1>1, <2>9
      <4>4. f.map[p] = NULL => C = f.grid[p]
        BY DEF Content, C
      <4>5. d.framebuffer[px] = Dot(C, at)
        BY <2>4, <2>6, <2>9, <4>2, <4>3, <4>4
      <4> QED BY <2>1, <2>9, <3>1, <4>2, <4>5
    <3> QED BY <3>2, <3>3
  <2> QED BY <2>7, <2>8, <2>9 DEF p
<1>9. h.framebuffer = Picture(text, Cur, on)
  <2>1. h.framebuffer \in [Pixel -> Int]
    <3> HIDE DEF h
    <3> QED BY <1>4 DEF Context, Screens
  <2> HIDE DEF h, text, Cur
  <2>2. \E b : Picture(text, Cur, on) = [px \in Pixel |-> b[px]]
    BY PictureDomain
  <2> QED BY <1>8, <2>1, <2>2
<1> HIDE DEF h
<1> QED BY <1>6, <1>7, <1>9

(* Until a flush the pixels are those of the text it last drew.            *)
Drawn == \E on \in BOOLEAN : fb.framebuffer = Picture(fb.grid, OldCursor(fb), on)

LEMMA InitDrawn == Init => Drawn
<1> SUFFICES ASSUME Init PROVE Drawn
  OBVIOUS
<1> DEFINE grid == [p \in Cell |-> Blank(default_fg, Transparent)]
           dark == [px \in Pixel |-> default_bg]
           f == [grid |-> grid, map |-> [p \in Cell |-> NULL], queue_i |-> 0, framebuffer |-> dark,
                 cursor_x |-> 0, cursor_y |-> 0, old_cursor_x |-> 0, old_cursor_y |-> 0]
           screen == plot_char(dark, grid)
           g == [f EXCEPT !.framebuffer = screen]
           h == draw_cursor(g)
<1>1. fb = h
  BY DEF Init, flanterm_fb_init, full_refresh
<1>2. grid \in Grids /\ DOMAIN grid = Cell
  BY Sizes, Defaults DEF Grids, Blank, Char
<1>3. dark \in Screens /\ \A px \in Pixel : dark[px] = default_bg
  BY DEF Screens, default_bg
<1>4. screen \in Screens
  <2> HIDE DEF dark, grid
  <2> QED BY <1>2, <1>3, PlotIsScreen DEF Grids
<1>5. [p \in Cell |-> NULL] \in Maps /\ \A p \in Cell : [q \in Cell |-> NULL][p] = NULL
  BY DEF Maps
<1>6. /\ g \in Context /\ g.grid = grid /\ g.framebuffer = screen /\ g.map = [p \in Cell |-> NULL]
      /\ Cursor(g) = <<0, 0>> /\ OldCursor(g) = <<0, 0>>
  <2> HIDE DEF grid, dark, screen
  <2>1. g \in Context
    BY <1>2, <1>3, <1>4, <1>5 DEF Context
  <2>2. /\ g.grid = grid /\ g.framebuffer = screen /\ g.map = [p \in Cell |-> NULL]
        /\ g.cursor_x = 0 /\ g.cursor_y = 0 /\ g.old_cursor_x = 0 /\ g.old_cursor_y = 0
    OBVIOUS
  <2> HIDE DEF g
  <2> QED BY <2>1, <2>2 DEF Cursor, OldCursor
<1>7. <<0, 0>> \in Cell
  BY Measures DEF Cell
<1>8. \A p \in Cell : Content(g, p) = grid[p]
  <2> HIDE DEF g, grid
  <2> QED BY <1>5, <1>6 DEF Content
<1> HIDE DEF g
<1>9. h \in Context /\ OldCursor(h) = <<0, 0>>
  BY <1>6, DrawCursorContext, DrawAt, SomePixel
<1>10. h.grid = grid
  <2>1. h.grid = [g.grid EXCEPT ![<<0, 0>>] = Content(g, <<0, 0>>)]
    <3> HIDE DEF grid
    <3> QED BY <1>6, <1>7 DEF draw_cursor, Context
  <2> HIDE DEF h, grid
  <2> QED BY <1>2, <1>6, <1>7, <1>8, <2>1 DEF Grids
<1>11. ASSUME NEW px \in Pixel PROVE h.framebuffer[px] = Picture(grid, <<0, 0>>, TRUE)[px]
  <2> DEFINE p == CellAt(px)
             at == Within(px)
  <2>1. Picture(grid, <<0, 0>>, TRUE)[px]
          = IF p \in Cell THEN Shown(grid, <<0, 0>>, TRUE, p, at) ELSE default_bg
    <3> HIDE DEF grid
    <3> QED BY PictureAt
  <2>2. h.framebuffer[px] = IF p \in Cell /\ p = <<0, 0>> THEN Dot(Inverted(Content(g, p)), at)
                            ELSE g.framebuffer[px]
    BY <1>6, DrawAt
  <2>3. g.framebuffer[px] = IF p \in Cell THEN Dot(grid[p], at) ELSE default_bg
    <3>1. screen[px] = IF p \in DOMAIN grid THEN Dot(grid[p], at) ELSE dark[px]
      BY DEF plot_char
    <3> HIDE DEF grid, dark, screen
    <3> QED BY <1>2, <1>3, <1>6, <3>1
  <2> HIDE DEF h, p, at, grid
  <2> QED BY <1>8, <2>1, <2>2, <2>3 DEF Shown
<1>12. h.framebuffer = Picture(grid, <<0, 0>>, TRUE)
  <2> HIDE DEF h, grid
  <2>1. h.framebuffer \in [Pixel -> Int]
    BY <1>9 DEF Context, Screens
  <2>2. \E b : Picture(grid, <<0, 0>>, TRUE) = [px \in Pixel |-> b[px]]
    BY PictureDomain
  <2> QED BY <1>11, <2>1, <2>2
<1> HIDE DEF h, grid
<1> QED BY <1>1, <1>9, <1>10, <1>12 DEF Drawn

LEMMA KeptDrawn == Kept(fb, fb') /\ Drawn => Drawn'
<1> SUFFICES ASSUME Kept(fb, fb'), Drawn PROVE Drawn'
  OBVIOUS
<1>1. PICK on \in BOOLEAN : fb.framebuffer = Picture(fb.grid, OldCursor(fb), on)
  BY DEF Drawn
<1>2. OldCursor(fb') = OldCursor(fb) /\ fb'.grid = fb.grid /\ fb'.framebuffer = fb.framebuffer
  BY DEF Kept, OldCursor
<1> QED BY <1>1, <1>2 DEF Drawn

LEMMA FlushShows ==
  ASSUME TermInv, Drawn, Flush
  PROVE  /\ fb'.framebuffer = Picture([p \in Cell |-> Content(fb, p)], Cursor(fb), term.cursor_enabled)
         /\ Drawn'
<1> DEFINE on == term.cursor_enabled
           text == [p \in Cell |-> Content(fb, p)]
<1>1. PICK was \in BOOLEAN : fb.framebuffer = Picture(fb.grid, OldCursor(fb), was)
  BY DEF Drawn
<1>2. fb \in Context /\ on \in BOOLEAN
  BY DEF TermInv, TermOK, Terms, Framed, Counted
<1>3. fb' = double_buffer_flush(fb, on)
  BY DEF Flush
<1> HIDE DEF on
<1>4. /\ fb'.framebuffer = Picture(text, Cursor(fb), on)
      /\ fb'.grid = text /\ OldCursor(fb') = Cursor(fb)
  BY <1>1, <1>2, <1>3, FlushPicture
<1> HIDE DEF text
<1>5. Drawn'
  BY <1>2, <1>4 DEF Drawn
<1> QED BY <1>4, <1>5 DEF on, text

LEMMA DrawnStep == TermInv /\ Drawn /\ [Next]_vars => Drawn'
<1> SUFFICES ASSUME TermInv, Drawn, [Next]_vars PROVE Drawn'
  OBVIOUS
<1>1. CASE flanterm_write \/ SetColour \/ UNCHANGED vars
  BY <1>1, KeptDrawn DEF flanterm_write, SetColour, vars, Kept
<1>2. CASE Flush
  BY <1>2, FlushShows
<1>3. CASE ClearScreen
  BY <1>3, ClearFrames, KeptDrawn DEF ClearScreen, TermInv, Frames
<1>4. CASE Bytewise
  BY <1>4, BytewiseFrames, KeptDrawn DEF Frames
<1> QED BY <1>1, <1>2, <1>3, <1>4, StepKinds

(* When a write is over the pixels of the screen are those of its text and *)
(* of the cursor where it now is, whatever was queued, scrolled, erased,   *)
(* moved or shown inverted before (fb.c:306-486, 660-699).                 *)
THEOREM FlushShowsText == Spec => WriteShows
<1> DEFINE A == input # NULL /\ input' = NULL =>
                  fb'.framebuffer = Picture([p \in Cell |-> Content(fb, p)], Cursor(fb),
                                            term.cursor_enabled)
<1>1. TermInv /\ Drawn /\ [Next]_vars => [A]_vars
  <2> SUFFICES ASSUME TermInv, Drawn, Next, input # NULL, input' = NULL
               PROVE  fb'.framebuffer = Picture([p \in Cell |-> Content(fb, p)], Cursor(fb),
                                                term.cursor_enabled)
    OBVIOUS
  <2>1. CASE flanterm_write \/ ClearScreen \/ SetColour
    BY <2>1 DEF flanterm_write, ClearScreen, SetColour
  <2>2. CASE Flush
    BY <2>2, FlushShows
  <2>3. CASE Bytewise
    <3>1. input \in Seq(STRING) /\ input # <<>> /\ input' = Tail(input)
      BY <2>3, ReadsOne DEF Reading, Read, TermInv
    <3>2. input' \in Seq(STRING)
      BY <3>1, TailType
    <3>3. NULL \notin Seq(STRING)
      BY TerminalAssumption, Zenon DEF TerminalAssumption
    <3> QED BY <3>2, <3>3
  <2> QED BY <2>1, <2>2, <2>3, StepKinds
<1>2. [][A]_vars => WriteShows
  BY PTL DEF WriteShows
<1>3. Spec => []Drawn
  <2>1. Init => Drawn
    BY InitDrawn
  <2> QED BY <2>1, AlwaysInv, DrawnStep, PTL DEF Spec
<1> QED BY <1>1, <1>2, <1>3, AlwaysInv, PTL DEF Spec

-----------------------------------------------------------------------------
(* The console: what the terminal is when the system prints one character  *)
(* to a write, closed by a NUL, and never the byte 9b, which would open a  *)
(* control sequence that the NUL does not end.                             *)
Printed == /\ "NUL" \notin DOMAIN Payload
           /\ \A w \in Writes : \E b \in STRING : b # "9b" /\ w = <<b, "NUL">>

(* The whole screen is the region, nothing is inserted, and whatever a     *)
(* character left open, its NUL closes.                                    *)
PlainTerm(t) == /\ t.scroll_top_margin = 0 /\ t.scroll_bottom_margin = rows
                /\ ~t.insert_mode /\ t.g_select = 0
PlainParser(p) == ~p.discard_next /\ ~p.osc /\ ~p.csi /\ ~p.control_sequence
Idle(p) == ~p.escape /\ p.unicode_remaining = 0
PlainInput(i, p) ==
    /\ i = NULL \/ i = <<>> => Idle(p)
    /\ \/ i = NULL \/ i = <<>> \/ i = <<"NUL">>
       \/ \E b \in STRING : b # "9b" /\ i = <<b, "NUL">> /\ Idle(p)
Console == /\ TermInv /\ PlainTerm(term) /\ PlainParser(parser) /\ PlainInput(input, parser)
           /\ fb.cursor_y \in 0..(rows - 1)

LEMMA TwoBytes ==
  /\ \A b \in STRING : /\ <<b, "NUL">> # <<>> /\ Head(<<b, "NUL">>) = b
                       /\ Tail(<<b, "NUL">>) = <<"NUL">>
  /\ <<"NUL">> # <<>> /\ Head(<<"NUL">>) = "NUL" /\ Tail(<<"NUL">>) = <<>>
  OBVIOUS

(* The steps that a console takes, and what they read. *)
LEMMA ConsoleReads ==
  ASSUME Printed, Console, Reading
  PROVE  /\ parser.escape \/ parser.unicode_remaining # 0 => Byte = "NUL"
         /\ Byte = "NUL" => Byte \notin DOMAIN Payload
         /\ Byte # "9b"
         /\ Read => \/ input' = <<"NUL">>
                    \/ input' = <<>> /\ Byte = "NUL"
<1>1. CASE input = <<"NUL">>
  BY <1>1, TwoBytes DEF Byte, Read, Printed
<1>2. CASE \E b \in STRING : b # "9b" /\ input = <<b, "NUL">> /\ Idle(parser)
  BY <1>2, TwoBytes DEF Byte, Read, Printed, Idle
<1> QED BY <1>1, <1>2 DEF Reading, Console, PlainInput

LEMMA ConsoleBytes ==
  ASSUME Printed, Console, Bytewise
  PROVE  \/ Discard \/ LeadByte \/ Silent \/ Escape \/ Tab \/ LineFeed \/ Backspace \/ Return
         \/ ShiftCharset \/ Character \/ OtherEscape
<1> USE DEF Plain, InEscape, InSequence, InOsc, Choosing, EscapeEnds, Final, Command
<1>1. Reading
  BY ReadsOne
<1>2. /\ ~parser.osc /\ ~parser.csi /\ ~parser.control_sequence /\ term.g_select = 0
      /\ parser.escape => Byte = "NUL"
  BY <1>1, ConsoleReads DEF Console, PlainParser, PlainTerm
<1>3. ~Continues
  BY <1>1, ConsoleReads DEF Continues, Continuation
<1>4. CASE MoreBytes \/ LastByte \/ ChooseCharset \/ BeginSequence \/ BeginOsc \/ OscByte
  BY <1>2, <1>3, <1>4 DEF MoreBytes, LastByte, ChooseCharset, BeginSequence, BeginOsc, OscByte
<1>5. CASE save_state \/ restore_state \/ Reset \/ Index \/ NewLine \/ ReverseIndex \/ SelectCharset
  BY <1>2, <1>5 DEF save_state, restore_state, Reset, Index, NewLine, ReverseIndex, SelectCharset
<1>6. CASE SkipNext \/ PrivateMark \/ Digit \/ Separator \/ DecPrivate \/ mode_toggle
  BY <1>2, <1>6 DEF SkipNext, PrivateMark, Digit, Separator, DecPrivate, mode_toggle
<1>7. CASE CursorUp \/ CursorDown \/ CursorTo \/ SaveCursor \/ DeleteLines \/ InsertLines
  BY <1>2, <1>7 DEF CursorUp, CursorDown, CursorTo, SaveCursor, DeleteLines, InsertLines
<1>8. CASE \/ EraseDisplay \/ EraseLine \/ InsertChars \/ EraseChars \/ SetRegion \/ SelectGraphics
           \/ OtherCommand
  BY <1>2, <1>8 DEF EraseDisplay, EraseLine, InsertChars, EraseChars, SetRegion, SelectGraphics,
              OtherCommand
<1> QED BY <1>4, <1>5, <1>6, <1>7, <1>8 DEF Bytewise

(* What the parser and the modes of a console become. *)
LEMMA ConsoleParser ==
  ASSUME Printed, Console, Bytewise
  PROVE  PlainTerm(term') /\ PlainParser(parser') /\ PlainInput(input', parser')
<1>1. /\ Reading /\ Read /\ parser \in Parsers /\ term \in Terms
      /\ PlainTerm(term) /\ PlainParser(parser)
  BY ReadsOne DEF Console, TermInv, ParserOK, TermOK
<1>2. /\ parser.escape \/ parser.unicode_remaining # 0 => Byte = "NUL"
      /\ Byte = "NUL" => Byte \notin DOMAIN Payload
      /\ Byte # "9b"
      /\ input' = <<"NUL">> \/ (input' = <<>> /\ Byte = "NUL")
      /\ input' # NULL
  <2>1. input \in Seq(STRING) /\ input # <<>> /\ input' = Tail(input)
    BY <1>1 DEF Reading, Read, Console, TermInv
  <2>2. input' \in Seq(STRING)
    BY <2>1, TailType
  <2>3. NULL \notin Seq(STRING)
    BY TerminalAssumption, Zenon DEF TerminalAssumption
  <2> QED BY <1>1, <2>2, <2>3, ConsoleReads
<1>3. PlainTerm(term')
  <2>1. \/ term' = term \/ term' = [term EXCEPT !.g_select = 0]
        \/ \E n \in {1, 2} : term' = [term EXCEPT !.current_charset = n]
    BY ConsoleBytes DEF Discard, LeadByte, Silent, Escape, Tab, LineFeed, Backspace, Return,
                        ShiftCharset, Character, OtherEscape
  <2> QED BY <1>1, <2>1 DEF PlainTerm, Terms
<1>4. PlainParser(Done) /\ Idle(Done)
  BY DEF PlainParser, Idle, Done, NoSequence
<1>5. PlainParser(Parser) /\ (~parser.escape => Idle(Parser))
  BY <1>1 DEF PlainParser, Idle, Parser, Parsers
<1>6. CASE Discard \/ OtherEscape
  <2>1. parser' = Done
    BY <1>6 DEF Discard, OtherEscape, EndSequence
  <2> QED BY <1>2, <1>3, <1>4, <2>1 DEF PlainInput
<1>7. CASE Silent \/ Tab \/ LineFeed \/ Backspace \/ Return \/ ShiftCharset \/ Character
  <2>1. parser' = Parser /\ ~parser.escape
    BY <1>7 DEF Silent, Tab, LineFeed, Backspace, Return, ShiftCharset, Character, InText
  <2> QED BY <1>2, <1>3, <1>5, <2>1 DEF PlainInput
<1>8. CASE LeadByte
  <2>1. Byte # "NUL"
    <3>1. Byte \in DOMAIN Lead
      BY <1>8 DEF LeadByte, Leads
    <3> QED BY <1>2, <3>1, LeadType
  <2>2. PlainParser(parser')
    BY <1>1, <1>8 DEF LeadByte, PlainParser, Parsers
  <2> QED BY <1>2, <1>3, <2>1, <2>2 DEF PlainInput
<1>9. CASE Escape
  <2>1. Byte # "NUL"
    BY <1>9 DEF Escape
  <2>2. PlainParser(parser')
    BY <1>1, <1>2, <1>9 DEF Escape, Parser, PlainParser, Parsers
  <2> QED BY <1>2, <1>3, <2>1, <2>2 DEF PlainInput
<1> QED BY <1>6, <1>7, <1>8, <1>9, ConsoleBytes

(* The screen as text. *)
Blankness == " "
TextOf(f) == [l \in 0..(rows - 1) |-> [c \in 0..(cols - 1) |-> Content(f, <<c, l>>).c]]
PlaceOf(f) == [column |-> f.cursor_x, line |-> f.cursor_y]
Texts == [0..(rows - 1) -> [0..(cols - 1) -> Glyph]]

LEMMA TextType ==
  ASSUME NEW f \in Context
  PROVE  /\ TextOf(f) \in Texts
         /\ \A l \in 0..(rows - 1), c \in 0..(cols - 1) : TextOf(f)[l][c] = Content(f, <<c, l>>).c
<1>1. \A l \in 0..(rows - 1), c \in 0..(cols - 1) : Content(f, <<c, l>>).c \in Glyph
  <2> TAKE l \in 0..(rows - 1), c \in 0..(cols - 1)
  <2>1. <<c, l>> \in Cell
    BY DEF Cell
  <2>2. Content(f, <<c, l>>) \in Char
    BY <2>1, ContentIsChar
  <2> QED BY <2>2 DEF Char
<1> QED BY <1>1 DEF TextOf, Texts

LEMMA SameFunction ==
  ASSUME NEW D, NEW E, NEW f \in [D -> E], NEW h \in [D -> E], \A d \in D : f[d] = h[d]
  PROVE  f = h
  OBVIOUS

LEMMA TextSame ==
  ASSUME NEW T \in Texts, NEW U \in Texts,
         \A l \in 0..(rows - 1), c \in 0..(cols - 1) : T[l][c] = U[l][c]
  PROVE  T = U
<1> DEFINE L == 0..(rows - 1)
           C == 0..(cols - 1)
<1>1. T \in [L -> [C -> Glyph]] /\ U \in [L -> [C -> Glyph]]
  BY DEF Texts
<1>2. \A l \in L, c \in C : T[l][c] = U[l][c]
  OBVIOUS
<1> HIDE DEF L, C
<1>3. ASSUME NEW l \in L PROVE T[l] = U[l]
  <2>1. T[l] \in [C -> Glyph] /\ U[l] \in [C -> Glyph]
    BY <1>1
  <2>2. \A c \in C : T[l][c] = U[l][c]
    BY <1>2
  <2> QED BY <2>1, <2>2, SameFunction
<1> QED BY <1>1, <1>3, SameFunction

LEMMA ConsolePlaces ==
  ASSUME Console
  PROVE  /\ X \in 0..(cols - 1) /\ Y = fb.cursor_y /\ Y \in 0..(rows - 1)
         /\ X = IF fb.cursor_x = cols THEN cols - 1 ELSE fb.cursor_x
         /\ top = 0 /\ bottom = rows /\ Framed(fb) /\ fb \in Context
         /\ fb.cursor_x \in 0..cols /\ fb.cursor_y \in 0..(rows - 1)
<1>1. Framed(fb) /\ fb.cursor_y \in 0..(rows - 1) /\ fb.cursor_x \in 0..cols /\ fb \in Context
  BY DEF Console, TermInv, Framed, Counted
<1>2. top = 0 /\ bottom = rows
  BY DEF Console, PlainTerm, top, bottom
<1>3. Y = fb.cursor_y
  BY <1>1, Measures DEF Y, CursorY
<1>4. X = (IF fb.cursor_x = cols THEN cols - 1 ELSE fb.cursor_x) /\ X \in 0..(cols - 1)
  BY <1>1, Measures DEF X, CursorX
<1> QED BY <1>1, <1>2, <1>3, <1>4

(* A character on a console: in its line, on the next, or on the last one  *)
(* after the others went up.                                               *)
LEMMA ConsolePut ==
  ASSUME Console, NEW g \in Glyph, NEW k, k = Put(fb, g)
  PROVE  /\ Framed(k)
         /\ fb.cursor_x # cols =>
              /\ k.cursor_x = fb.cursor_x + 1 /\ k.cursor_y = fb.cursor_y
              /\ \A p \in Cell : Content(k, p).c =
                    IF p = <<fb.cursor_x, fb.cursor_y>> THEN g ELSE Content(fb, p).c
         /\ fb.cursor_x = cols /\ fb.cursor_y # rows - 1 =>
              /\ k.cursor_x = 1 /\ k.cursor_y = fb.cursor_y + 1
              /\ \A p \in Cell : Content(k, p).c =
                    IF p = <<0, fb.cursor_y + 1>> THEN g ELSE Content(fb, p).c
         /\ fb.cursor_x = cols /\ fb.cursor_y = rows - 1 =>
              /\ k.cursor_x = 1 /\ k.cursor_y = fb.cursor_y
              /\ \A p \in Cell : Content(k, p).c =
                    IF p = <<0, fb.cursor_y>> THEN g
                    ELSE IF p[2] < rows - 1 THEN Content(fb, <<p[1], p[2] + 1>>).c
                    ELSE Blankness
<1> DEFINE m == Region(TRUE)
           ch == Ch(g)
           blank == [ch EXCEPT !.c = " "]
           x == fb.cursor_x
           y == fb.cursor_y
<1>1. TermInv
  BY DEF Console
<1>2. m \in Margins /\ m.scroll_enabled /\ m.top = 0 /\ m.bottom = rows
  BY <1>1, RegionType, ConsolePlaces
<1>3. ch \in Char /\ ch.c = g
  BY <1>1, ChType DEF Ch
<1>4. blank.c = Blankness
  <2> HIDE DEF ch
  <2> QED BY <1>3, Zenon DEF Blankness, Char
<1>5. k = raw_putchar(fb, m, ch)
  BY DEF Put
<1>6. Framed(fb) /\ x \in 0..cols /\ y \in 0..(rows - 1)
  BY ConsolePlaces
<1> HIDE DEF m, ch
<1>7. /\ Framed(k) /\ k.cursor_x = PutX(fb) + 1 /\ k.cursor_y = PutY(fb, m)
      /\ \A p \in Cell : Content(k, p) = PutText(fb, m, ch, p)
  BY <1>2, <1>3, <1>5, <1>6, RawPut
<1>8. \A p : PutText(fb, m, ch, p) =
                IF p = <<PutX(fb), PutY(fb, m)>> THEN ch
                ELSE IF Full_(fb) THEN NextText(fb, m, blank, p) ELSE Content(fb, p)
  BY Zenon DEF PutText
<1> HIDE DEF blank
<1>9. \A p \in Cell : p[2] \in 0..(rows - 1)
  BY CellParts
<1>10. CASE x # cols
  <2>1. ~Full_(fb) /\ PutX(fb) = x /\ PutY(fb, m) = y
    BY <1>10 DEF Full_, PutX, PutY
  <2> QED BY <1>3, <1>7, <1>8, <1>10, <2>1
<1>11. CASE x = cols /\ y # rows - 1
  <2>1. Full_(fb) /\ PutX(fb) = 0 /\ PutY(fb, m) = y + 1
    BY <1>2, <1>6, <1>11, Measures DEF Full_, PutX, PutY, NextY
  <2>2. \A p : NextText(fb, m, blank, p) = Content(fb, p)
    BY <1>2, <1>6, <1>11, Measures DEF NextText
  <2> QED BY <1>3, <1>7, <1>8, <1>11, <2>1, <2>2
<1>12. CASE x = cols /\ y = rows - 1
  <2>1. Full_(fb) /\ PutX(fb) = 0 /\ PutY(fb, m) = y
    BY <1>2, <1>6, <1>12, Measures DEF Full_, PutX, PutY, NextY
  <2>2. \A p \in Cell : NextText(fb, m, blank, p) =
           IF p[2] < rows - 1 THEN Content(fb, <<p[1], p[2] + 1>>) ELSE blank
    BY <1>2, <1>6, <1>9, <1>12, Measures DEF NextText
  <2> QED BY <1>3, <1>4, <1>7, <1>8, <1>12, <2>1, <2>2
<1> QED BY <1>7, <1>10, <1>11, <1>12

(* The same on lines of text. *)
Changed(T, l, c, g) == [T EXCEPT ![l][c] = g]

LEMMA ChangedText ==
  ASSUME NEW T \in Texts, NEW l \in 0..(rows - 1), NEW c \in 0..(cols - 1), NEW g \in Glyph
  PROVE  /\ Changed(T, l, c, g) \in Texts
         /\ \A i \in 0..(rows - 1), j \in 0..(cols - 1) :
               Changed(T, l, c, g)[i][j] = IF i = l /\ j = c THEN g ELSE T[i][j]
  BY DEF Texts, Changed

(* The lines one up, and an empty last one. *)
RaisedText(T) == [l \in 0..(rows - 1) |-> IF l < rows - 1 THEN T[l + 1]
                                          ELSE [c \in 0..(cols - 1) |-> Blankness]]

LEMMA BlankGlyph == Blankness \in Glyph
  BY FramebufferAssumption, Zenon DEF FramebufferAssumption, Blankness

LEMMA RaisedType ==
  ASSUME NEW T \in Texts
  PROVE  /\ RaisedText(T) \in Texts
         /\ \A l \in 0..(rows - 1), c \in 0..(cols - 1) :
               RaisedText(T)[l][c] = IF l < rows - 1 THEN T[l + 1][c] ELSE Blankness
<1> DEFINE L == 0..(rows - 1)
           C == 0..(cols - 1)
           E == [c \in C |-> Blankness]
           line(l) == IF l < rows - 1 THEN T[l + 1] ELSE E
<1>1. E \in [C -> Glyph] /\ \A c \in C : E[c] = Blankness
  BY BlankGlyph
<1>2. RaisedText(T) = [l \in L |-> line(l)]
  BY DEF RaisedText
<1> HIDE DEF E
<1>3. ASSUME NEW l \in L
      PROVE  /\ line(l) \in [C -> Glyph]
             /\ \A c \in C : line(l)[c] = IF l < rows - 1 THEN T[l + 1][c] ELSE Blankness
  <2>1. l < rows - 1 => l + 1 \in L
    BY Measures
  <2>2. T \in [L -> [C -> Glyph]]
    BY DEF Texts
  <2> HIDE DEF C
  <2>3. l < rows - 1 => T[l + 1] \in [C -> Glyph]
    BY <2>1, <2>2
  <2> QED BY <1>1, <2>3
<1> HIDE DEF line
<1>4. RaisedText(T) \in [L -> [C -> Glyph]]
  <2> HIDE DEF C, L
  <2> QED BY <1>2, <1>3
<1> QED BY <1>2, <1>3, <1>4 DEF Texts

LEMMA ScreenNames ==
  /\ Written = TextOf(fb) /\ Place = PlaceOf(fb)
  /\ Written' = TextOf(fb') /\ Place' = PlaceOf(fb')
  /\ Place.column = fb.cursor_x /\ Place.line = fb.cursor_y
  /\ Screen!Raised = RaisedText(TextOf(fb))
<1>1. Written = TextOf(fb) /\ Written' = TextOf(fb')
  BY DEF Written, TextOf
<1>2. Place = PlaceOf(fb) /\ Place' = PlaceOf(fb')
  BY DEF Place, PlaceOf
<1>3. Place.column = fb.cursor_x /\ Place.line = fb.cursor_y
  BY DEF Place
<1>4. Screen!Raised = RaisedText(Written)
  BY DEF Screen!Raised, Screen!Empty, RaisedText, Blankness
<1> QED BY <1>1, <1>2, <1>3, <1>4

LEMMA PutRefines ==
  ASSUME Console, NEW g \in Glyph, fb' = Put(fb, g)
  PROVE  fb'.cursor_y \in 0..(rows - 1) /\ (Screen!Write(g) \/ Screen!WriteBelow(g))
<1> DEFINE k == fb'
           x == fb.cursor_x
           y == fb.cursor_y
           T == TextOf(fb)
           U == TextOf(k)
<1>1. x \in 0..cols /\ y \in 0..(rows - 1) /\ fb \in Context /\ rows \in Nat /\ cols \in Nat /\ 0 < cols
  BY ConsolePlaces, Measures
<1>2. Framed(k)
  BY ConsolePut
<1>3. /\ T \in Texts /\ U \in Texts
      /\ \A l \in 0..(rows - 1), c \in 0..(cols - 1) :
            T[l][c] = Content(fb, <<c, l>>).c /\ U[l][c] = Content(k, <<c, l>>).c
  <2>1. k \in Context
    BY <1>2 DEF Framed, Counted
  <2> QED BY <1>1, <2>1, TextType
<1>4. \A l \in 0..(rows - 1), c \in 0..(cols - 1) : <<c, l>> \in Cell
  BY DEF Cell
<1> HIDE DEF T, U, k
<1>5. CASE x # cols
  <2> DEFINE V == Changed(T, y, x, g)
  <2>1. /\ k.cursor_x = x + 1 /\ k.cursor_y = y
        /\ \A p \in Cell : Content(k, p).c = IF p = <<x, y>> THEN g ELSE Content(fb, p).c
    BY <1>5, ConsolePut DEF k
  <2>2. /\ V \in Texts
        /\ \A i \in 0..(rows - 1), j \in 0..(cols - 1) :
              V[i][j] = IF i = y /\ j = x THEN g ELSE T[i][j]
    <3>1. y \in 0..(rows - 1) /\ x \in 0..(cols - 1) /\ T \in Texts
      BY <1>1, <1>3, <1>5
    <3> HIDE DEF x, y
    <3> QED BY <3>1, ChangedText
  <2> HIDE DEF V
  <2>3. ASSUME NEW i \in 0..(rows - 1), NEW j \in 0..(cols - 1) PROVE U[i][j] = V[i][j]
    <3>1. U[i][j] = IF j = x /\ i = y THEN g ELSE Content(fb, <<j, i>>).c
      BY <1>3, <1>4, <2>1
    <3> QED BY <1>3, <2>2, <3>1
  <2>4. U = V
    BY <1>3, <2>2, <2>3, TextSame
  <2>5. Screen!Write(g)
    <3>1. PlaceOf(k) = [PlaceOf(fb) EXCEPT !.column = @ + 1]
      BY <2>1 DEF PlaceOf
    <3>2. x < cols
      BY <1>1, <1>5
    <3> QED BY <2>4, <3>1, <3>2, ScreenNames DEF Screen!Write, V, Changed, U, T, k
  <2> QED BY <1>1, <2>1, <2>5 DEF k
<1>6. CASE x = cols /\ y # rows - 1
  <2> DEFINE V == Changed(T, y + 1, 0, g)
  <2>1. /\ k.cursor_x = 1 /\ k.cursor_y = y + 1
        /\ \A p \in Cell : Content(k, p).c = IF p = <<0, y + 1>> THEN g ELSE Content(fb, p).c
    BY <1>6, ConsolePut DEF k
  <2>2. y + 1 \in 0..(rows - 1) /\ 0 \in 0..(cols - 1) /\ y < rows - 1
    BY <1>1, <1>6
  <2>3. /\ V \in Texts
        /\ \A i \in 0..(rows - 1), j \in 0..(cols - 1) :
              V[i][j] = IF i = y + 1 /\ j = 0 THEN g ELSE T[i][j]
    BY <1>3, <2>2, ChangedText
  <2> HIDE DEF V
  <2>4. ASSUME NEW i \in 0..(rows - 1), NEW j \in 0..(cols - 1) PROVE U[i][j] = V[i][j]
    <3>1. U[i][j] = IF j = 0 /\ i = y + 1 THEN g ELSE Content(fb, <<j, i>>).c
      BY <1>3, <1>4, <2>1
    <3> QED BY <1>3, <2>3, <3>1
  <2>5. U = V
    BY <1>3, <2>3, <2>4, TextSame
  <2>6. Screen!WriteBelow(g)
    <3>1. PlaceOf(k) = [column |-> 1, line |-> y + 1]
      BY <2>1 DEF PlaceOf
    <3> QED BY <1>6, <2>2, <2>5, <3>1, ScreenNames
            DEF Screen!WriteBelow, Screen!HasNext, V, Changed, U, T, k
  <2> QED BY <2>1, <2>2, <2>6 DEF k
<1>7. CASE x = cols /\ y = rows - 1
  <2> DEFINE R == RaisedText(T)
             V == Changed(R, y, 0, g)
  <2>1. /\ k.cursor_x = 1 /\ k.cursor_y = y
        /\ \A p \in Cell : Content(k, p).c =
              IF p = <<0, y>> THEN g
              ELSE IF p[2] < rows - 1 THEN Content(fb, <<p[1], p[2] + 1>>).c ELSE Blankness
    BY <1>7, ConsolePut DEF k
  <2>2. /\ R \in Texts
        /\ \A l \in 0..(rows - 1), c \in 0..(cols - 1) :
              R[l][c] = IF l < rows - 1 THEN T[l + 1][c] ELSE Blankness
    BY <1>3, RaisedType
  <2> HIDE DEF R
  <2>3. 0 \in 0..(cols - 1) /\ ~(y < rows - 1)
    BY <1>1, <1>7
  <2>4. /\ V \in Texts
        /\ \A i \in 0..(rows - 1), j \in 0..(cols - 1) :
              V[i][j] = IF i = y /\ j = 0 THEN g ELSE R[i][j]
    <3>1. y \in 0..(rows - 1) /\ 0 \in 0..(cols - 1) /\ R \in Texts
      BY <1>1, <2>2, <2>3
    <3> HIDE DEF x, y
    <3> QED BY <3>1, ChangedText
  <2> HIDE DEF V
  <2>5. ASSUME NEW i \in 0..(rows - 1), NEW j \in 0..(cols - 1) PROVE U[i][j] = V[i][j]
    <3>1. U[i][j] = IF j = 0 /\ i = y THEN g
                    ELSE IF i < rows - 1 THEN Content(fb, <<j, i + 1>>).c ELSE Blankness
      BY <1>3, <1>4, <2>1
    <3>2. i < rows - 1 => T[i + 1][j] = Content(fb, <<j, i + 1>>).c
      BY <1>1, <1>3
    <3> QED BY <2>2, <2>4, <3>1, <3>2
  <2>6. U = V
    BY <1>3, <2>4, <2>5, TextSame
  <2>7. Screen!WriteBelow(g)
    <3>1. PlaceOf(k) = [column |-> 1, line |-> y]
      BY <2>1 DEF PlaceOf
    <3>2. Written' = [Screen!Raised EXCEPT ![Place.line][0] = g]
      BY <2>6, ScreenNames DEF V, Changed, U, T, R, k
    <3>3. Place' = [column |-> 1, line |-> Place.line]
      BY <3>1, ScreenNames DEF k
    <3>4. Place.column = cols /\ ~Screen!HasNext
      BY <1>7, <2>3, ScreenNames DEF Screen!HasNext
    <3> QED BY <3>2, <3>3, <3>4 DEF Screen!WriteBelow
  <2> QED BY <1>1, <2>1, <2>7 DEF k
<1> QED BY <1>5, <1>6, <1>7

LEMMA SameTextRefines ==
  ASSUME fb' \in Context, fb \in Context, SameText(fb, fb') PROVE Written' = Written
<1>1. /\ TextOf(fb) \in Texts /\ TextOf(fb') \in Texts
      /\ \A l \in 0..(rows - 1), c \in 0..(cols - 1) :
            TextOf(fb)[l][c] = Content(fb, <<c, l>>).c /\ TextOf(fb')[l][c] = Content(fb', <<c, l>>).c
  BY TextType
<1> DEFINE T == TextOf(fb)
           U == TextOf(fb')
<1>2. T \in Texts /\ U \in Texts
  BY <1>1
<1>3. ASSUME NEW l \in 0..(rows - 1), NEW c \in 0..(cols - 1) PROVE U[l][c] = T[l][c]
  <2>1. <<c, l>> \in Cell
    BY DEF Cell
  <2>2. Content(fb', <<c, l>>) = Content(fb, <<c, l>>)
    BY <2>1 DEF SameText
  <2> QED BY <1>1, <2>2
<1> HIDE DEF T, U
<1>4. U = T
  BY <1>2, <1>3, TextSame
<1> QED BY <1>4, ScreenNames DEF T, U

(* The cursor on a console: within its line, to the start, back, to a tab. *)
LEMMA GotoRefines ==
  ASSUME Console, NEW x \in Int, MoveTo(x, Y)
  PROVE  /\ fb'.cursor_y \in 0..(rows - 1)
         /\ Screen!Goto(IF x < 0 THEN 0 ELSE IF x >= cols THEN cols - 1 ELSE x)
<1> DEFINE c == IF x < 0 THEN 0 ELSE IF x >= cols THEN cols - 1 ELSE x
           g == set_cursor_pos(fb, x, Y)
<1>1. Framed(fb) /\ fb \in Context /\ Y \in 0..(rows - 1) /\ Y = fb.cursor_y /\ Y \in Int
  BY ConsolePlaces, Measures
<1>2. /\ Framed(g) /\ SameText(fb, g) /\ g.cursor_x = c
      /\ g.cursor_y = IF Y < 0 THEN 0 ELSE IF Y >= rows THEN rows - 1 ELSE Y
  BY <1>1, CursorSet
<1>3. g = fb'
  BY DEF MoveTo
<1> HIDE DEF g, c
<1>4. g.cursor_y = fb.cursor_y
  BY <1>1, <1>2, Measures
<1>5. Written' = Written
  BY <1>1, <1>2, <1>3, SameTextRefines DEF Framed, Counted
<1>6. PlaceOf(fb') = [PlaceOf(fb) EXCEPT !.column = c]
  BY <1>2, <1>3, <1>4 DEF PlaceOf
<1>7. Screen!Goto(c)
  BY <1>5, <1>6, ScreenNames DEF Screen!Goto
<1> QED BY <1>1, <1>3, <1>4, <1>7 DEF c

LEMMA MoveRefines ==
  ASSUME Console, Tab \/ Backspace \/ Return
  PROVE  fb'.cursor_y \in 0..(rows - 1) /\ Screen!Move
<1>1. X \in 0..(cols - 1) /\ X \in Int /\ cols \in Nat /\ 0 < cols
  BY ConsolePlaces, Measures
<1>2. Screen!Column = X
  <2>1. X = IF fb.cursor_x = cols THEN cols - 1 ELSE fb.cursor_x
    BY ConsolePlaces
  <2> QED BY <2>1, ScreenNames DEF Screen!Column
<1>3. CASE Tab
  <2> DEFINE stop == (X \div 8 + 1) * 8
             x == IF X \div tab_size + 1 >= cols THEN cols - 1 ELSE (X \div tab_size + 1) * tab_size
  <2>1. MoveTo(x, Y)
    BY <1>3 DEF Tab
  <2>2. /\ x \in Int
        /\ (IF x < 0 THEN 0 ELSE IF x >= cols THEN cols - 1 ELSE x)
              = (IF stop < cols THEN stop ELSE cols - 1)
    BY <1>1 DEF tab_size
  <2>3. Screen!Tab = IF stop < cols THEN stop ELSE cols - 1
    BY <1>2 DEF Screen!Tab
  <2> HIDE DEF x, stop
  <2>4. /\ fb'.cursor_y \in 0..(rows - 1)
        /\ Screen!Goto(IF x < 0 THEN 0 ELSE IF x >= cols THEN cols - 1 ELSE x)
    BY <2>1, <2>2, GotoRefines
  <2>5. Screen!Goto(Screen!Tab)
    BY <2>2, <2>3, <2>4
  <2> QED BY <2>4, <2>5 DEF Screen!Move
<1>4. CASE Backspace
  <2>1. MoveTo(X - 1, Y) /\ X - 1 \in Int
    BY <1>1, <1>4 DEF Backspace
  <2> DEFINE x == X - 1
  <2>2. (IF x < 0 THEN 0 ELSE IF x >= cols THEN cols - 1 ELSE x) = IF X = 0 THEN 0 ELSE X - 1
    BY <1>1
  <2>3. /\ fb'.cursor_y \in 0..(rows - 1)
        /\ Screen!Goto(IF x < 0 THEN 0 ELSE IF x >= cols THEN cols - 1 ELSE x)
    <3>1. x \in Int /\ MoveTo(x, Y)
      BY <2>1
    <3> HIDE DEF x
    <3> QED BY <3>1, GotoRefines
  <2> HIDE DEF x
  <2>4. Screen!Goto(IF Screen!Column = 0 THEN 0 ELSE Screen!Column - 1)
    BY <1>2, <2>2, <2>3
  <2> QED BY <2>3, <2>4 DEF Screen!Move
<1>5. CASE Return
  <2>1. MoveTo(0, Y) /\ 0 \in Int
    BY <1>5 DEF Return
  <2>2. (IF 0 < 0 THEN 0 ELSE IF 0 >= cols THEN cols - 1 ELSE 0) = 0
    BY <1>1
  <2>3. /\ fb'.cursor_y \in 0..(rows - 1)
        /\ Screen!Goto(IF 0 < 0 THEN 0 ELSE IF 0 >= cols THEN cols - 1 ELSE 0)
    BY <2>1, GotoRefines
  <2> QED BY <2>2, <2>3 DEF Screen!Move
<1> QED BY <1>3, <1>4, <1>5

LEMMA FeedRefines ==
  ASSUME Console, Down(0) PROVE fb'.cursor_y \in 0..(rows - 1) /\ Screen!Feed
<1> DEFINE s == scroll(fb, top, bottom, Space)
           low == set_cursor_pos(s, 0, Y)
           next == set_cursor_pos(fb, 0, Y + 1)
<1>1. /\ Framed(fb) /\ fb \in Context /\ Y \in 0..(rows - 1) /\ Y = fb.cursor_y /\ Y \in Int
      /\ Y + 1 \in Int /\ 0 \in Int /\ top = 0 /\ bottom = rows /\ rows \in Nat /\ 0 < rows
      /\ cols \in Nat /\ 0 < cols
  BY ConsolePlaces, Measures
<1>2. fb' = IF Y = rows - 1 THEN low ELSE next
  BY <1>1 DEF Down, top, bottom
<1>3. CASE Y = rows - 1
  <2>1. Space \in Char /\ Space.c = Blankness
    <3>1. Space \in Char
      BY SpaceType DEF Console
    <3> QED BY <3>1, Zenon DEF Space, Ch, Blankness
  <2>2. /\ Framed(s)
        /\ \A p \in Cell : Content(s, p) =
               IF p[2] \notin 0..(rows - 1) THEN Content(fb, p)
               ELSE IF p[2] < rows - 1 THEN Content(fb, <<p[1], p[2] + 1>>) ELSE Space
    <3>1. top \in Int /\ bottom \in Int /\ bottom <= rows /\ Framed(fb)
      BY <1>1
    <3>2. Framed(s) /\ \A p \in Cell : Content(s, p) =
               IF p[2] \notin top..(bottom - 1) THEN Content(fb, p)
               ELSE IF p[2] < bottom - 1 THEN Content(fb, <<p[1], p[2] + 1>>) ELSE Space
      BY <2>1, <3>1, Scrolled
    <3> HIDE DEF s
    <3> QED BY <1>1, <3>2
  <2> HIDE DEF s
  <2>3. /\ Framed(low) /\ SameText(s, low)
        /\ low.cursor_x = (IF 0 < 0 THEN 0 ELSE IF 0 >= cols THEN cols - 1 ELSE 0)
        /\ low.cursor_y = (IF Y < 0 THEN 0 ELSE IF Y >= rows THEN rows - 1 ELSE Y)
    BY <1>1, <2>2, CursorSet
  <2>4. fb' = low
    BY <1>2, <1>3
  <2> HIDE DEF low
  <2>5. low.cursor_x = 0 /\ low.cursor_y = Y
    BY <1>1, <2>3
  <2> DEFINE T == TextOf(fb)
             U == TextOf(low)
             R == RaisedText(T)
  <2>6. /\ T \in Texts /\ U \in Texts
        /\ \A l \in 0..(rows - 1), c \in 0..(cols - 1) :
              T[l][c] = Content(fb, <<c, l>>).c /\ U[l][c] = Content(low, <<c, l>>).c
    BY <1>1, <2>3, TextType DEF Framed, Counted
  <2> HIDE DEF T, U
  <2>7. /\ R \in Texts
        /\ \A l \in 0..(rows - 1), c \in 0..(cols - 1) :
              R[l][c] = IF l < rows - 1 THEN T[l + 1][c] ELSE Blankness
    BY <2>6, RaisedType
  <2> HIDE DEF R
  <2>8. ASSUME NEW l \in 0..(rows - 1), NEW c \in 0..(cols - 1) PROVE U[l][c] = R[l][c]
    <3>1. <<c, l>> \in Cell
      BY DEF Cell
    <3>2. Content(low, <<c, l>>) = IF l < rows - 1 THEN Content(fb, <<c, l + 1>>) ELSE Space
      BY <2>2, <2>3, <3>1 DEF SameText
    <3>3. l < rows - 1 => T[l + 1][c] = Content(fb, <<c, l + 1>>).c
      BY <1>1, <2>6
    <3> QED BY <2>1, <2>6, <2>7, <3>2, <3>3
  <2>9. U = R
    BY <2>6, <2>7, <2>8, TextSame
  <2>10. Written' = Screen!Raised
    BY <2>4, <2>9, ScreenNames DEF U, R, T
  <2>11. Place' = [column |-> 0, line |-> Place.line]
    BY <1>1, <2>4, <2>5, ScreenNames DEF PlaceOf
  <2>12. ~Screen!HasNext
    <3>1. ~(fb.cursor_y < rows - 1)
      BY <1>1, <1>3
    <3> QED BY <3>1, ScreenNames DEF Screen!HasNext
  <2> QED BY <1>1, <2>4, <2>5, <2>10, <2>11, <2>12 DEF Screen!Feed
<1>4. CASE Y # rows - 1
  <2>1. /\ Framed(next) /\ SameText(fb, next)
        /\ next.cursor_x = (IF 0 < 0 THEN 0 ELSE IF 0 >= cols THEN cols - 1 ELSE 0)
        /\ next.cursor_y = (IF Y + 1 < 0 THEN 0 ELSE IF Y + 1 >= rows THEN rows - 1 ELSE Y + 1)
    BY <1>1, CursorSet
  <2>2. fb' = next
    BY <1>2, <1>4
  <2> HIDE DEF next
  <2>3. next.cursor_x = 0 /\ next.cursor_y = Y + 1 /\ Y + 1 \in 0..(rows - 1) /\ Y < rows - 1
    BY <1>1, <1>4, <2>1
  <2>4. Written' = Written
    BY <1>1, <2>1, <2>2, SameTextRefines DEF Framed, Counted
  <2>5. Place' = [column |-> 0, line |-> Place.line + 1]
    BY <1>1, <2>2, <2>3, ScreenNames DEF PlaceOf
  <2>6. Screen!HasNext
    BY <1>1, <2>3, ScreenNames DEF Screen!HasNext
  <2> QED BY <2>2, <2>3, <2>4, <2>5, <2>6 DEF Screen!Feed
<1> QED BY <1>3, <1>4

LEMMA ClearRefines ==
  ASSUME Console, fb' = clear(fb, TRUE, Space)
  PROVE  fb'.cursor_y \in 0..(rows - 1) /\ Screen!Clear
<1>1. Space \in Char /\ Space.c = Blankness /\ Framed(fb)
  <2>1. Space \in Char /\ Framed(fb)
    BY SpaceType, ConsolePlaces DEF Console
  <2> QED BY <2>1, Zenon DEF Space, Ch, Blankness
<1> DEFINE g == clear(fb, TRUE, Space)
           T == [l \in 0..(rows - 1) |-> [c \in 0..(cols - 1) |-> Blankness]]
           U == TextOf(g)
<1>2. /\ Framed(g) /\ g.cursor_x = 0 /\ g.cursor_y = 0
      /\ \A p \in Cell : Content(g, p) = Space
  BY <1>1, Cleared
<1> HIDE DEF g
<1>3. /\ U \in Texts
      /\ \A l \in 0..(rows - 1), c \in 0..(cols - 1) : U[l][c] = Content(g, <<c, l>>).c
  BY <1>2, TextType DEF Framed, Counted
<1>4. /\ T \in Texts
      /\ \A l \in 0..(rows - 1), c \in 0..(cols - 1) : T[l][c] = Blankness
  BY BlankGlyph DEF Texts
<1>5. \A l \in 0..(rows - 1), c \in 0..(cols - 1) : <<c, l>> \in Cell
  BY DEF Cell
<1> HIDE DEF T, U
<1>6. U = T
  <2>1. ASSUME NEW l \in 0..(rows - 1), NEW c \in 0..(cols - 1) PROVE U[l][c] = T[l][c]
    <3>1. Content(g, <<c, l>>) = Space
      BY <1>2, <1>5
    <3> QED BY <1>1, <1>3, <1>4, <3>1
  <2> QED BY <1>3, <1>4, <2>1, TextSame
<1>7. fb' = g
  BY DEF g
<1>8. Written' = [l \in 0..(rows - 1) |-> Screen!Empty]
  BY <1>6, <1>7, ScreenNames, Zenon DEF T, U, Screen!Empty, Blankness
<1>9. Place' = [column |-> 0, line |-> 0]
  BY <1>2, <1>7, ScreenNames DEF PlaceOf
<1>10. 0 \in 0..(rows - 1)
  BY Measures
<1> QED BY <1>2, <1>7, <1>8, <1>9, <1>10 DEF Screen!Clear

(* A flush draws what is queued, and leaves the text and the cursor. *)
LEMMA FlushKeepsText ==
  ASSUME NEW f \in Context, NEW was, NEW on \in BOOLEAN,
         f.framebuffer = Picture(f.grid, OldCursor(f), was)
  PROVE  LET g == double_buffer_flush(f, on) IN g \in Context /\ SameText(f, g)
<1> DEFINE e == IF on THEN draw_cursor(f) ELSE f
           d == Drain(e)
           h == EraseCursor(d, on)
           g == double_buffer_flush(f, on)
<1>1. e \in Context
  BY DrawCursorContext
<1>2. g = [h EXCEPT !.old_cursor_x = f.cursor_x, !.old_cursor_y = f.cursor_y, !.queue_i = 0]
  BY DEF double_buffer_flush, e
<1>3. g.grid = [p \in Cell |-> Content(f, p)]
  BY FlushPicture
<1> HIDE DEF e
<1>4. d \in Context /\ d.map = [p \in Cell |-> NULL]
  BY <1>1, DrainContext
<1> HIDE DEF d
<1>5. h \in Context /\ h.map = [p \in Cell |-> NULL]
  BY <1>4, EraseContext
<1> HIDE DEF h, g
<1>6. g.map = [p \in Cell |-> NULL]
  BY <1>2, <1>5 DEF Context
<1>7. SameText(f, g)
  BY <1>3, <1>6 DEF SameText, Content
<1>8. g \in Context
  <2>1. h.framebuffer = g.framebuffer
    BY <1>2
  <2> QED BY <1>2, <1>5 DEF Context
<1> QED BY <1>7, <1>8 DEF g

(* Every step of a console is a step of the plain one or leaves it alone. *)
ConsoleStep ==
    /\ PlainTerm(term') /\ PlainParser(parser') /\ PlainInput(input', parser')
    /\ fb'.cursor_y \in 0..(rows - 1)
    /\ Screen!Next \/ (Written' = Written /\ Place' = Place)

LEMMA SameScreen == ASSUME fb' = fb PROVE Written' = Written /\ Place' = Place
  BY ScreenNames

LEMMA BetweenWrites ==
  ASSUME Printed, Console, Drawn, flanterm_write \/ Flush \/ ClearScreen \/ SetColour
  PROVE  ConsoleStep
<1>1. /\ PlainTerm(term) /\ PlainParser(parser) /\ PlainInput(input, parser)
      /\ fb.cursor_y \in 0..(rows - 1) /\ TermInv
  BY DEF Console
<1>2. term' = term /\ parser' = parser
  BY DEF flanterm_write, Flush, ClearScreen, SetColour
<1>3. input = NULL \/ input = <<>> => Idle(parser)
  BY <1>1 DEF PlainInput
<1>4. PlainTerm(term') /\ PlainParser(parser')
  BY <1>1, <1>2
<1>5. CASE flanterm_write
  <2>1. PICK w \in Writes : input' = w /\ input = NULL /\ fb' = fb
    BY <1>5 DEF flanterm_write
  <2>2. w # NULL /\ \E b \in STRING : b # "9b" /\ w = <<b, "NUL">>
    <3>1. Writes \subseteq Seq(STRING) /\ NULL \notin Seq(STRING)
      BY TerminalAssumption, Zenon DEF TerminalAssumption
    <3> QED BY <3>1 DEF Printed
  <2>3. PlainInput(input', parser')
    BY <1>2, <1>3, <2>1, <2>2 DEF PlainInput
  <2> QED BY <1>1, <1>4, <2>1, <2>3, SameScreen DEF ConsoleStep
<1>6. CASE SetColour
  <2>1. fb' = fb /\ input' = input
    BY <1>6 DEF SetColour
  <2> QED BY <1>1, <1>2, <1>4, <2>1, SameScreen DEF ConsoleStep
<1>7. CASE Flush
  <2>1. fb' = double_buffer_flush(fb, term.cursor_enabled) /\ input = <<>> /\ input' = NULL
    BY <1>7 DEF Flush
  <2>2. fb \in Context /\ term.cursor_enabled \in BOOLEAN
    BY <1>1 DEF TermInv, TermOK, Terms, Framed, Counted
  <2>3. fb' \in Context /\ SameText(fb, fb')
    BY <2>1, <2>2, FlushKeepsText DEF Drawn
  <2>4. SameCursor(fb, fb')
    BY <1>1, <2>1, FlushFrames
  <2>5. Written' = Written
    BY <2>2, <2>3, SameTextRefines
  <2>6. Place' = Place
    BY <2>4, ScreenNames DEF PlaceOf, SameCursor
  <2>7. PlainInput(input', parser')
    BY <1>2, <1>3, <2>1 DEF PlainInput
  <2> QED BY <1>1, <1>4, <2>4, <2>5, <2>6, <2>7 DEF ConsoleStep, SameCursor
<1>8. CASE ClearScreen
  <2>1. fb' = clear(fb, TRUE, Space) /\ input' = input
    BY <1>8 DEF ClearScreen
  <2>2. fb'.cursor_y \in 0..(rows - 1) /\ Screen!Clear
    BY <2>1, ClearRefines
  <2> QED BY <1>1, <1>2, <1>4, <2>1, <2>2 DEF ConsoleStep, Screen!Next
<1> QED BY <1>5, <1>6, <1>7, <1>8

LEMMA WithinWrites ==
  ASSUME Printed, Console, Bytewise
  PROVE  ConsoleStep
<1>1. /\ PlainTerm(term') /\ PlainParser(parser') /\ PlainInput(input', parser')
      /\ fb.cursor_y \in 0..(rows - 1) /\ ~term.insert_mode
  BY ConsoleParser DEF Console, PlainTerm
<1>2. CASE fb' = fb
  BY <1>1, <1>2, SameScreen DEF ConsoleStep
<1>3. CASE Tab \/ Backspace \/ Return
  BY <1>1, <1>3, MoveRefines DEF ConsoleStep, Screen!Next
<1>4. CASE LineFeed
  <2>1. Down(0)
    BY <1>4 DEF LineFeed
  <2> QED BY <1>1, <2>1, FeedRefines DEF ConsoleStep, Screen!Next
<1>5. CASE Character
  <2>1. fb' = fb \/ \E g \in Glyph : fb' = Put(fb, g)
    BY <1>1, <1>5, CharacterText
  <2>2. ASSUME NEW g \in Glyph, fb' = Put(fb, g) PROVE ConsoleStep
    BY <1>1, <2>2, PutRefines DEF ConsoleStep, Screen!Next
  <2> QED BY <1>2, <2>1, <2>2
<1>6. CASE Discard \/ LeadByte \/ Silent \/ Escape \/ ShiftCharset \/ OtherEscape
  BY <1>2, <1>6 DEF Discard, LeadByte, Silent, Escape, ShiftCharset, OtherEscape
<1> QED BY <1>3, <1>4, <1>5, <1>6, ConsoleBytes

LEMMA InitConsole == Init => Console /\ Screen!Init
<1> SUFFICES ASSUME Init PROVE Console /\ Screen!Init
  OBVIOUS
<1>1. TermInv /\ Drawn
  BY InitInv, InitDrawn
<1>2. PlainTerm(term) /\ PlainParser(parser) /\ Idle(parser) /\ input = NULL
  BY DEF Init, NewTerm, NoSequence, PlainTerm, PlainParser, Idle
<1> DEFINE blank == Blank(default_fg, Transparent)
           dark == [px \in Pixel |-> default_bg]
           f == [grid |-> [p \in Cell |-> blank], map |-> [p \in Cell |-> NULL],
                 queue_i |-> 0, framebuffer |-> dark,
                 cursor_x |-> 0, cursor_y |-> 0, old_cursor_x |-> 0, old_cursor_y |-> 0]
           screen == plot_char(dark, [p \in Cell |-> blank])
           g == [f EXCEPT !.framebuffer = screen]
           h == draw_cursor(g)
<1>3. fb = h
  BY DEF Init, flanterm_fb_init, full_refresh
<1>4. g \in Context /\ \A p \in Cell : Content(g, p) = blank
  <2>1. blank \in Char /\ [p \in Cell |-> blank] \in Grids
    BY Sizes, Defaults DEF Grids, Blank, Char
  <2>2. dark \in Screens
    BY DEF Screens, default_bg
  <2>3. screen \in Screens
    <3> HIDE DEF dark, blank
    <3> QED BY <2>1, <2>2, PlotIsScreen DEF Grids
  <2>4. [p \in Cell |-> NULL] \in Maps
    BY DEF Maps
  <2> HIDE DEF dark, screen, blank
  <2>5. g \in Context
    BY <2>1, <2>2, <2>3, <2>4 DEF Context
  <2>6. g.map = [p \in Cell |-> NULL] /\ g.grid = [p \in Cell |-> blank]
    OBVIOUS
  <2> HIDE DEF g
  <2> QED BY <2>5, <2>6 DEF Content
<1>5. Cursor(g) = <<0, 0>> /\ g.cursor_x = 0 /\ g.cursor_y = 0
  BY DEF Cursor
<1> HIDE DEF g
<1>6. SameText(g, fb) /\ fb.cursor_x = 0 /\ fb.cursor_y = 0
  <2>1. SameText(g, h)
    BY <1>4, SomePixel, DrawAt
  <2>2. h.cursor_x = 0 /\ h.cursor_y = 0
    BY <1>5 DEF draw_cursor
  <2> HIDE DEF h
  <2> QED BY <1>3, <2>1, <2>2
<1>7. blank.c = Blankness
  BY Zenon DEF Blank, Blankness
<1> HIDE DEF h, blank
<1> DEFINE T == [l \in 0..(rows - 1) |-> [c \in 0..(cols - 1) |-> Blankness]]
           U == TextOf(fb)
<1>8. /\ U \in Texts
      /\ \A l \in 0..(rows - 1), c \in 0..(cols - 1) : U[l][c] = Content(fb, <<c, l>>).c
  <2>1. fb \in Context
    BY <1>1 DEF TermInv, Framed, Counted
  <2> QED BY <2>1, TextType
<1>9. /\ T \in Texts
      /\ \A l \in 0..(rows - 1), c \in 0..(cols - 1) : T[l][c] = Blankness
  BY BlankGlyph DEF Texts
<1> HIDE DEF T, U
<1>10. ASSUME NEW l \in 0..(rows - 1), NEW c \in 0..(cols - 1) PROVE U[l][c] = T[l][c]
  <2>1. <<c, l>> \in Cell
    BY DEF Cell
  <2>2. Content(fb, <<c, l>>) = blank
    BY <1>4, <1>6, <2>1 DEF SameText
  <2> QED BY <1>7, <1>8, <1>9, <2>2
<1>11. U = T
  BY <1>8, <1>9, <1>10, TextSame
<1>12. Written = [l \in 0..(rows - 1) |-> Screen!Empty]
  BY <1>11, ScreenNames, Zenon DEF T, U, Screen!Empty, Blankness
<1>13. Place = [column |-> 0, line |-> 0]
  BY <1>6, ScreenNames DEF PlaceOf
<1>14. Screen!Init
  BY <1>12, <1>13 DEF Screen!Init
<1>15. 0 \in 0..(rows - 1)
  BY Measures
<1>16. Console
  BY <1>1, <1>2, <1>6, <1>15 DEF Console, PlainInput
<1> QED BY <1>14, <1>16

(* What the system prints, a character to a write that a NUL ends, appears *)
(* as on a plain console: whatever the queue, the flushes, the wrapping    *)
(* and the scrolling do with it, and with system calls in between, each    *)
(* step is one step of TextScreen or none (kernel/main.c:116-119).         *)
THEOREM ConsoleIsPlain == ASSUME Printed PROVE Spec => PlainText
<1>1. Console /\ Drawn /\ TermInv' /\ [Next]_vars
        => Console' /\ [Screen!Next]_<<Written, Place>>
  <2> SUFFICES ASSUME Console, Drawn, TermInv', [Next]_vars
               PROVE  Console' /\ [Screen!Next]_<<Written, Place>>
    OBVIOUS
  <2>1. CASE UNCHANGED vars
    <3>1. /\ fb' = fb /\ term' = term /\ parser' = parser /\ input' = input
      BY <2>1 DEF vars
    <3>2. PlainTerm(term') /\ PlainParser(parser') /\ PlainInput(input', parser')
          /\ fb'.cursor_y \in 0..(rows - 1)
      BY <3>1 DEF Console
    <3> QED BY <3>1, <3>2, SameScreen DEF Console
  <2>2. CASE Next
    <3>1. ConsoleStep
      BY <2>2, StepKinds, BetweenWrites, WithinWrites
    <3> QED BY <3>1 DEF ConsoleStep, Console
  <2> QED BY <2>1, <2>2
<1>2. TermInv /\ [Next]_vars => TermInv'
  BY InvStep
<1>3. TermInv /\ Drawn /\ [Next]_vars => Drawn'
  BY DrawnStep
<1>4. Init => Console /\ Drawn /\ TermInv /\ Screen!Init
  BY InitConsole, InitDrawn, InitInv
<1> QED BY <1>1, <1>2, <1>3, <1>4, PTL DEF Spec, PlainText, Screen!Spec
=============================================================================
