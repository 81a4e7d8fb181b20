---------------------------- MODULE InputProofs ----------------------------
(***************************************************************************)
(* Proofs about module Input: keys are fetched in order and at most once,  *)
(* the arguments the shell makes of a line spell it as it was typed, and   *)
(* the line is on the screen while it is tidy, for any number of keys,     *)
(* sizes of the buffers and width of the terminal.                         *)
(***************************************************************************)
EXTENDS Input, FiniteSetTheorems, SequenceTheorems, WellFoundedInduction, TLAPS

(* A set of naturals that is not empty has a least member.                 *)
LEMMA Least == ASSUME NEW T, T \subseteq Nat, T # {}
               PROVE  \E n \in T : \A k \in T : n <= k
<1> DEFINE I == {0..n : n \in T}
<1>1. \A n \in T : IsFiniteSet(0..n)
  BY FS_Interval
<1>2. I \subseteq FiniteSubsetsOf(Nat) /\ I # {}
  <2>1. \A n \in T : 0..n \in SUBSET Nat
    OBVIOUS
  <2>2. I # {}
    OBVIOUS
  <2> QED BY <1>1, <2>1, <2>2 DEF FiniteSubsetsOf
<1>3. IsWellFoundedOn(StrictSubsetOrdering(Nat), FiniteSubsetsOf(Nat))
  BY FS_StrictSubsetOrderingWellFounded
<1>4. PICK J \in I : \A y \in I : ~(<<y, J>> \in StrictSubsetOrdering(Nat))
  <2> HIDE DEF I
  <2> QED BY <1>2, <1>3, WFMin
<1>5. PICK n \in T : J = 0..n
  BY <1>4
<1>6. \A k \in T : n <= k
  <2> SUFFICES ASSUME NEW k \in T, k < n PROVE FALSE
    OBVIOUS
  <2>1. 0..k \in I /\ (0..k) \subseteq (0..n) /\ 0..k # 0..n
    BY <1>5
  <2>2. <<0..k, J>> \in StrictSubsetOrdering(Nat)
    BY <2>1, <1>5 DEF StrictSubsetOrdering
  <2> QED BY <2>1, <2>2, <1>4
<1> QED BY <1>6

(* Induction over the naturals, by the set of those it reached.            *)
LEMMA SetInduction == ASSUME NEW T, T \subseteq Nat, 0 \in T, \A n \in T : n + 1 \in T
                      PROVE  T = Nat
<1> SUFFICES ASSUME Nat \ T # {} PROVE FALSE
  OBVIOUS
<1>1. PICK n \in Nat \ T : \A k \in Nat \ T : n <= k
  <2> HIDE DEF Nat
  <2>1. Nat \ T \subseteq Nat OBVIOUS
  <2> QED BY <2>1, Least
<1>2. n - 1 \in Nat
  BY <1>1
<1>3. n - 1 \in T
  BY <1>1, <1>2
<1> QED BY <1>1, <1>3

(* Steps of an iteration over S, and the sequence of its results. *)
Steps(S_, N) == [S_ \X (1..N) -> S_]
IsRun(f, S_, s0, N, g) ==
    /\ f \in [0..N -> S_] /\ f[0] = s0
    /\ \A n \in 1..N : f[n] = g[<< f[n - 1], n >>]

(* A definition by recursion over 0..N has a solution. *)
LEMMA Iteration ==
  ASSUME NEW S_, NEW s0 \in S_, NEW N \in Nat, NEW g \in Steps(S_, N)
  PROVE  \E f : IsRun(f, S_, s0, N, g)
<1> USE DEF Steps
<1> DEFINE P(f, k) == /\ f \in [0..k -> S_] /\ f[0] = s0 
                      /\ \A n \in 1..k : f[n] = g[<<f[n - 1], n>>]
           T == {k \in Nat : k <= N => \E f \in [0..k -> S_] : P(f, k)}
<1>1. 0 \in T
  <2> [n \in 0..0 |-> s0] \in [0..0 -> S_]
    OBVIOUS
  <2> P([n \in 0..0 |-> s0], 0)
    OBVIOUS
  <2> QED OBVIOUS
<1>2. ASSUME NEW k \in T PROVE k + 1 \in T
  <2> SUFFICES ASSUME k + 1 <= N PROVE \E f \in [0..(k + 1) -> S_] : P(f, k + 1)
    OBVIOUS
  <2>1. PICK f \in [0..k -> S_] : P(f, k)
    OBVIOUS
  <2> DEFINE h == [n \in 0..(k + 1) |-> IF n <= k THEN f[n] ELSE g[<<f[k], k + 1>>]]
  <2>2. <<f[k], k + 1>> \in S_ \X (1..N)
    BY <2>1
  <2>3. h \in [0..(k + 1) -> S_]
    BY <2>1, <2>2
  <2>4. ASSUME NEW n \in 1..(k + 1) PROVE h[n] = g[<<h[n - 1], n>>]
    <3>1. n - 1 \in 0..(k + 1) /\ n - 1 <= k /\ h[n - 1] = f[n - 1]
      OBVIOUS
    <3>2. CASE n <= k
      <4>1. n \in 1..k /\ h[n] = f[n]
        BY <3>2
      <4> HIDE DEF h
      <4> QED BY <4>1, <3>1, <2>1
    <3>3. CASE n = k + 1
      <4>1. h[n] = g[<<f[k], k + 1>>] /\ n - 1 = k
        BY <3>3
      <4> HIDE DEF h
      <4> QED BY <4>1, <3>1, <3>3
    <3>4. n <= k \/ n = k + 1
      OBVIOUS
    <3> QED BY <3>2, <3>3, <3>4
  <2>5. h[0] = s0
    BY <2>1
  <2> HIDE DEF h
  <2> QED BY <2>3, <2>4, <2>5
<1>3. T = Nat
  <2> HIDE DEF T
  <2>1. T \subseteq Nat BY DEF T
  <2> QED BY <1>1, <1>2, <2>1, SetInduction
<1>4. N \in T
  BY <1>3
<1> QED BY <1>4 DEF IsRun

-----------------------------------------------------------------------------
(* The arguments.                                                          *)
Word == Seq(Char)
Words == Seq(Word)

LEMMA SomeWords ==
  ASSUME NEW list \in Words, list # << >>
  PROVE  Len(list) \in Nat \ {0} /\ \A n \in 1..Len(list) : list[n] \in Word
<1> HIDE DEF Word
<1>1. list \in Seq(Word)
  BY DEF Words
<1>2. Len(list) \in Nat \ {0}
  BY <1>1, EmptySeq
<1>3. \A n \in 1..Len(list) : list[n] \in Word
  BY <1>1, ElementOfSeq
<1> QED BY <1>2, <1>3

(* Two pieces of text with a space between them.                           *)
Spaced(x, y) == x \o << "space" >> \o y

LEMMA SpacedWord ==
  ASSUME NEW a \in Word, NEW b \in Word PROVE Spaced(a, b) \in Word
<1>1. << "space" >> \in Word
  BY DEF Char, Word
<1> QED BY <1>1 DEF Word, Spaced

LEMMA SpacedAssociates ==
  ASSUME NEW a \in Word, NEW b \in Word, NEW c \in Word
  PROVE  Spaced(Spaced(a, b), c) = Spaced(a, Spaced(b, c))
<1> DEFINE sp == << "space" >>
           d == a \o sp
           e == b \o sp
<1>1. sp \in Seq(Char) /\ a \in Seq(Char) /\ b \in Seq(Char) /\ c \in Seq(Char)
  BY DEF Char, Word
<1>2. Spaced(Spaced(a, b), c) = ((d \o b) \o sp) \o c /\ Spaced(a, Spaced(b, c)) = d \o (e \o c)
  BY DEF Spaced
<1> HIDE DEF sp
<1>3. d \in Seq(Char) /\ e \in Seq(Char) /\ d \o b \in Seq(Char)
  BY <1>1, ConcatProperties
<1>4. (d \o b) \o sp = d \o e
  <2> HIDE DEF d
  <2> QED BY <1>1, <1>3, ConcatAssociative
<1> HIDE DEF d, e
<1>5. (d \o e) \o c = d \o (e \o c)
  BY <1>1, <1>3, ConcatAssociative, SMTT(30)
<1> QED BY <1>2, <1>4, <1>5

(* The recursion of Joined has a solution.                                 *)
Joins(u, list, N) ==
    /\ u \in [1..N -> Word] /\ u[1] = list[1]
    /\ \A n \in 2..N : u[n] = Spaced(u[n - 1], list[n])

LEMMA JoinSteps ==
  ASSUME NEW N \in Nat \ {0}, NEW list, \A n \in 1..N : list[n] \in Word
  PROVE  \E u : Joins(u, list, N)
<1> DEFINE g == [x \in Word \X (1..(N - 1)) |-> Spaced(x[1], list[x[2] + 1])]
<1>0. N - 1 \in Nat /\ 1 \in 1..N /\ \A n \in 1..(N - 1) : n + 1 \in 1..N
  OBVIOUS
<1>1. g \in Steps(Word, N - 1)
  <2>1. ASSUME NEW x \in Word \X (1..(N - 1)) PROVE Spaced(x[1], list[x[2] + 1]) \in Word
    <3>1. x[1] \in Word /\ x[2] \in 1..(N - 1)
      OBVIOUS
    <3>2. list[x[2] + 1] \in Word
      BY <1>0, <3>1
    <3> QED BY <3>1, <3>2, SpacedWord
  <2> QED BY <2>1 DEF Steps
<1>2. PICK f : IsRun(f, Word, list[1], N - 1, g)
  <2> HIDE DEF g
  <2> QED BY <1>0, <1>1, Iteration
<1>3. f \in [0..(N - 1) -> Word] /\ f[0] = list[1] /\ \A n \in 1..(N - 1) : f[n] = g[<< f[n - 1], n >>]
  BY <1>2 DEF IsRun
<1>4. ASSUME NEW n \in 1..(N - 1) PROVE f[n] = Spaced(f[n - 1], list[n + 1])
  <2>1. f[n - 1] \in Word /\ f[n] = g[<< f[n - 1], n >>]
    <3>1. n - 1 \in 0..(N - 1)
      OBVIOUS
    <3> HIDE DEF g
    <3> QED BY <3>1, <1>3
  <2>2. << f[n - 1], n >> \in Word \X (1..(N - 1))
    BY <2>1
  <2> QED BY <2>1, <2>2
<1> DEFINE u == [n \in 1..N |-> f[n - 1]]
<1> HIDE DEF g
<1>5. u \in [1..N -> Word]
  <2>1. \A n \in 1..N : n - 1 \in 0..(N - 1)
    OBVIOUS
  <2> QED BY <2>1, <1>3
<1>6. u[1] = list[1]
  BY <1>0, <1>3
<1>7. ASSUME NEW n \in 2..N PROVE u[n] = Spaced(u[n - 1], list[n])
  <2>1. n \in 1..N /\ n - 1 \in 1..N /\ n - 1 \in 1..(N - 1) /\ n - 1 + 1 = n
    OBVIOUS
  <2>2. u[n] = f[n - 1] /\ u[n - 1] = f[n - 1 - 1]
    BY <2>1
  <2>3. f[n - 1] = Spaced(f[n - 1 - 1], list[n - 1 + 1])
    BY <2>1, <1>4
  <2> HIDE DEF u
  <2> QED BY <2>1, <2>2, <2>3
<1> HIDE DEF u
<1> QED BY <1>5, <1>6, <1>7 DEF Joins

(* There is but one.                                                       *)
LEMMA JoinsOne ==
  ASSUME NEW N \in Nat \ {0}, NEW list, NEW u, Joins(u, list, N), NEW v, v[1] = list[1],
         \A n \in 2..N : v[n] = Spaced(v[n - 1], list[n])
  PROVE  v[N] = u[N]
<1> DEFINE T == {k \in Nat : k + 1 <= N => v[k + 1] = u[k + 1]}
<1>1. 0 \in T
  <2>1. v[1] = u[1]
    BY DEF Joins
  <2> QED BY <2>1
<1>2. ASSUME NEW k \in T PROVE k + 1 \in T
  <2> SUFFICES ASSUME k + 1 + 1 <= N PROVE v[k + 1 + 1] = u[k + 1 + 1]
    OBVIOUS
  <2>1. k \in Nat /\ k + 1 + 1 \in 2..N /\ k + 1 + 1 - 1 = k + 1 /\ v[k + 1] = u[k + 1]
    OBVIOUS
  <2> HIDE DEF T
  <2>2. \A n \in 2..N : u[n] = Spaced(u[n - 1], list[n])
    BY DEF Joins
  <2>3. /\ u[k + 1 + 1] = Spaced(u[k + 1 + 1 - 1], list[k + 1 + 1])
        /\ v[k + 1 + 1] = Spaced(v[k + 1 + 1 - 1], list[k + 1 + 1])
    BY <2>1, <2>2
  <2> QED BY <2>1, <2>3
<1>3. T = Nat
  <2>1. T \subseteq Nat
    OBVIOUS
  <2> HIDE DEF T
  <2> QED BY <1>1, <1>2, <2>1, SetInduction
<1>4. N - 1 + 1 <= N => v[N - 1 + 1] = u[N - 1 + 1]
  <2>1. N - 1 \in Nat
    OBVIOUS
  <2>2. N - 1 \in T
    <3> HIDE DEF T
    <3> QED BY <2>1, <1>3
  <2> QED BY <2>2
<1>5. N - 1 + 1 = N /\ N <= N
  OBVIOUS
<1> HIDE DEF T
<1> QED BY <1>4, <1>5

LEMMA JoinedBy ==
  ASSUME NEW list \in Words, list # << >>
  PROVE  \E u : Joins(u, list, Len(list)) /\ Joined(list) = u[Len(list)]
<1> DEFINE N == Len(list)
           body(u, n) == IF n = 1 THEN list[1] ELSE u[n - 1] \o << "space" >> \o list[n]
           Eq(u) == u = [n \in 1..N |-> body(u, n)]
           upTo == CHOOSE u : Eq(u)
<1>1. N \in Nat \ {0} /\ \A n \in 1..N : list[n] \in Word
  BY SomeWords
<1>2. Joined(list) = upTo[N]
  BY DEF Joined
<1> HIDE DEF N
<1>3. PICK u : Joins(u, list, N)
  BY <1>1, JoinSteps
<1>4. \A f, n : body(f, n) = IF n = 1 THEN list[1] ELSE Spaced(f[n - 1], list[n])
  BY DEF Spaced
<1>5. 1 \in 1..N /\ \A n \in 1..N : n = 1 \/ n \in 2..N
  BY <1>1
<1>6. \A n \in 2..N : n \in 1..N /\ n # 1
  BY <1>1
<1> HIDE DEF body
<1>7. Eq(u)
  <2>1. \A n \in 1..N : u[n] = body(u, n)
    BY <1>3, <1>4, <1>5 DEF Joins
  <2>2. u \in [1..N -> Word]
    BY <1>3 DEF Joins
  <2> QED BY <2>1, <2>2
<1>8. Eq(upTo)
  <2> HIDE DEF Eq
  <2> QED BY <1>7
<1> HIDE DEF upTo
<1>9. \A n \in 1..N : upTo[n] = body(upTo, n)
  BY <1>8
<1> HIDE DEF Eq
<1>10. upTo[1] = list[1] /\ \A n \in 2..N : upTo[n] = Spaced(upTo[n - 1], list[n])
  BY <1>4, <1>5, <1>6, <1>9
<1>11. upTo[N] = u[N]
  BY <1>1, <1>3, <1>10, JoinsOne
<1> QED BY <1>2, <1>3, <1>11 DEF N

(* One argument more at the front.                                         *)
LEMMA JoinedOne ==
  ASSUME NEW a \in Word PROVE << a >> \in Words /\ << a >> # << >> /\ Joined(<< a >>) = a
<1>1. << a >> \in Words /\ << a >> # << >> /\ Len(<< a >>) = 1 /\ << a >>[1] = a
  BY DEF Words
<1>2. PICK u : Joins(u, << a >>, 1) /\ Joined(<< a >>) = u[1]
  BY <1>1, JoinedBy
<1> QED BY <1>1, <1>2 DEF Joins

LEMMA JoinsMore ==
  ASSUME NEW N \in Nat \ {0}, NEW a \in Word, NEW list, NEW bs, NEW u, NEW v,
         Joins(u, list, N), Joins(v, bs, N + 1), bs[1] = a,
         \A n \in 1..N : bs[n + 1] = list[n] /\ list[n] \in Word
  PROVE  v[N + 1] = Spaced(a, u[N])
<1> DEFINE T == {k \in Nat : k + 1 <= N => v[k + 1 + 1] = Spaced(a, u[k + 1])}
<1>1. 0 \in T
  <2>1. 2 \in 2..(N + 1) /\ 2 - 1 = 1 /\ 1 \in 1..N /\ 1 + 1 = 2
    OBVIOUS
  <2>2. v[2] = Spaced(v[1], bs[2]) /\ v[1] = a /\ bs[2] = list[1] /\ u[1] = list[1]
    BY <2>1 DEF Joins
  <2>3. v[0 + 1 + 1] = Spaced(a, u[0 + 1])
    BY <2>2
  <2> QED BY <2>3
<1>2. ASSUME NEW k \in T PROVE k + 1 \in T
  <2> SUFFICES ASSUME k + 1 + 1 <= N PROVE v[k + 1 + 1 + 1] = Spaced(a, u[k + 1 + 1])
    OBVIOUS
  <2>1. /\ k + 1 + 1 + 1 \in 2..(N + 1) /\ k + 1 + 1 + 1 - 1 = k + 1 + 1
        /\ k + 1 + 1 \in 1..N /\ k + 1 + 1 \in 2..N /\ k + 1 + 1 - 1 = k + 1 /\ k + 1 \in 1..N
    OBVIOUS
  <2>2. v[k + 1 + 1] = Spaced(a, u[k + 1])
    BY <2>1
  <2> HIDE DEF T
  <2>3. /\ v[k + 1 + 1 + 1] = Spaced(v[k + 1 + 1], list[k + 1 + 1])
        /\ u[k + 1 + 1] = Spaced(u[k + 1], list[k + 1 + 1])
    BY <2>1 DEF Joins
  <2>4. u[k + 1] \in Word /\ list[k + 1 + 1] \in Word
    BY <2>1 DEF Joins
  <2> QED BY <2>2, <2>3, <2>4, SpacedAssociates
<1>3. T = Nat
  <2>1. T \subseteq Nat
    OBVIOUS
  <2> HIDE DEF T
  <2> QED BY <1>1, <1>2, <2>1, SetInduction
<1>4. N - 1 + 1 <= N => v[N - 1 + 1 + 1] = Spaced(a, u[N - 1 + 1])
  <2>1. N - 1 \in Nat
    OBVIOUS
  <2>2. N - 1 \in T
    <3> HIDE DEF T
    <3> QED BY <2>1, <1>3
  <2> QED BY <2>2
<1>5. N - 1 + 1 = N /\ N <= N
  OBVIOUS
<1> HIDE DEF T
<1> QED BY <1>4, <1>5

LEMMA JoinedCons ==
  ASSUME NEW a \in Word, NEW list \in Words, list # << >>
  PROVE  /\ << a >> \o list \in Words /\ << a >> \o list # << >>
         /\ Joined(<< a >> \o list) = Spaced(a, Joined(list))
<1> DEFINE bs == << a >> \o list
           N == Len(list)
<1>1. N \in Nat \ {0} /\ \A n \in 1..N : list[n] \in Word
  BY SomeWords
<1>2. list \in Seq(Word) /\ << a >> \in Seq(Word) /\ Len(<< a >>) = 1 /\ << a >>[1] = a
  <2> HIDE DEF Word
  <2> QED BY DEF Words
<1>3. /\ bs \in Seq(Word) /\ Len(bs) = 1 + N
      /\ \A n \in 1..(1 + N) : bs[n] = IF n <= 1 THEN << a >>[n] ELSE list[n - 1]
  BY <1>2, ConcatProperties
<1> HIDE DEF bs, N
<1>4. 1 + N = N + 1 /\ 1 \in 1..(1 + N)
  BY <1>1
<1>5. \A n \in 1..N : n + 1 \in 1..(1 + N) /\ ~(n + 1 <= 1) /\ n + 1 - 1 = n
  BY <1>1
<1>6. bs[1] = a /\ \A n \in 1..N : bs[n + 1] = list[n] /\ list[n] \in Word
  BY <1>1, <1>2, <1>3, <1>4, <1>5
<1>7. bs # << >> /\ bs \in Words
  <2>1. Len(bs) # 0
    BY <1>1, <1>3
  <2> QED BY <1>3, <2>1 DEF Words
<1>8. PICK u : Joins(u, list, N) /\ Joined(list) = u[N]
  BY JoinedBy DEF N
<1>9. PICK v : Joins(v, bs, N + 1) /\ Joined(bs) = v[N + 1]
  <2>1. Len(bs) = N + 1
    BY <1>3, <1>4
  <2> QED BY <1>7, <2>1, JoinedBy
<1>10. v[N + 1] = Spaced(a, u[N])
  BY <1>1, <1>6, <1>8, <1>9, JoinsMore
<1> QED BY <1>7, <1>8, <1>9, <1>10 DEF bs

-----------------------------------------------------------------------------
(* The arguments of a line, from ci on, when the first of them began at    *)
(* start: the body of the loop, and that the loop exists.                  *)
Splits(loop, line, N, ci, start) ==
    IF ci > N THEN << SubSeq(line, start, ci - 1) >>
    ELSE IF line[ci] = "space" THEN << SubSeq(line, start, ci - 1) >> \o loop[ci + 1][ci + 1]
    ELSE loop[ci + 1][start]

LEMMA Piece ==
  ASSUME NEW line \in Word, NEW start \in 1..(Len(line) + 1), NEW end \in 0..Len(line)
  PROVE  SubSeq(line, start, end) \in Word /\ << SubSeq(line, start, end) >> \in Words
<1>1. line \in Seq(Char)
  BY DEF Word
<1>2. SubSeq(line, start, end) \in Seq(Char)
  BY <1>1, SubSeqProperties, LenProperties
<1> QED BY <1>2 DEF Word, Words

LEMMA LoopExists ==
  ASSUME NEW line \in Word, NEW N \in Nat, N = Len(line)
  PROVE  \E loop : loop = [ci \in 1..(N + 1) |-> [start \in 1..(N + 1) |-> Splits(loop, line, N, ci, start)]]
<1> DEFINE D == 1..(N + 1)
           Rows == [D -> Words]
           piece(start, end) == << SubSeq(line, start, end) >>
           last == [start \in D |-> piece(start, N)]
           row(r, k) == [start \in D |-> IF line[N + 1 - k] = "space" THEN piece(start, N - k) \o r[N + 2 - k]
                                        ELSE r[start]]
           g == [x \in Rows \X (1..N) |-> row(x[1], x[2])]
<1>1. \A start \in D, end \in 0..N : piece(start, end) \in Words
  BY Piece
<1> HIDE DEF piece
<1>2. last \in Rows
  BY <1>1
<1>3. ASSUME NEW r \in Rows, NEW k \in 1..N PROVE row(r, k) \in Rows
  <2>1. N - k \in 0..N /\ N + 2 - k \in D
    OBVIOUS
  <2>2. r[N + 2 - k] \in Words
    BY <2>1
  <2>3. \A start \in D : piece(start, N - k) \in Words
    BY <1>1, <2>1
  <2>4. \A x, y \in Words : x \o y \in Words
    <3> HIDE DEF Word
    <3> QED BY ConcatProperties DEF Words
  <2>5. \A start \in D : row(r, k)[start] \in Words
    BY <2>2, <2>3, <2>4
  <2> QED BY <2>5
<1>4. g \in Steps(Rows, N)
  <2> HIDE DEF row
  <2> QED BY <1>3 DEF Steps
<1>5. PICK f : IsRun(f, Rows, last, N, g)
  <2> HIDE DEF Rows, g, last
  <2> QED BY <1>2, <1>4, Iteration
<1>6. f \in [0..N -> Rows] /\ f[0] = last /\ \A k \in 1..N : f[k] = row(f[k - 1], k)
  <2>1. f \in [0..N -> Rows] /\ f[0] = last /\ \A k \in 1..N : f[k] = g[<< f[k - 1], k >>]
    BY <1>5 DEF IsRun
  <2>2. ASSUME NEW k \in 1..N PROVE f[k - 1] \in Rows
    <3>1. k - 1 \in 0..N
      OBVIOUS
    <3> HIDE DEF Rows
    <3> QED BY <3>1, <2>1
  <2> HIDE DEF row, Rows, last
  <2>3. \A k \in 1..N : g[<< f[k - 1], k >>] = row(f[k - 1], k)
    BY <2>2
  <2> QED BY <2>1, <2>3
<1> HIDE DEF g
<1> DEFINE L == [ci \in D |-> f[N + 1 - ci]]
<1>7. ASSUME NEW ci \in D PROVE L[ci] = [start \in D |-> Splits(L, line, N, ci, start)]
  <2>1. CASE ci = N + 1
    <3>1. ci > N /\ ci - 1 = N /\ N + 1 - ci = 0
      BY <2>1
    <3>2. L[ci] = last
      BY <3>1, <1>6
    <3>3. \A start \in D : Splits(L, line, N, ci, start) = piece(start, N)
      BY <3>1 DEF Splits, piece
    <3> HIDE DEF L
    <3> QED BY <3>2, <3>3
  <2>2. CASE ci # N + 1
    <3> DEFINE k == N + 1 - ci
    <3>1. /\ k \in 1..N /\ ci + 1 \in D /\ ~(ci > N) /\ N + 1 - (ci + 1) = k - 1
          /\ N + 1 - k = ci /\ N - k = ci - 1 /\ N + 2 - k = ci + 1
      BY <2>2
    <3>2. L[ci] = f[k] /\ L[ci + 1] = f[k - 1]
      BY <3>1
    <3> HIDE DEF L, k
    <3>3. L[ci] = row(L[ci + 1], k)
      <4> HIDE DEF row
      <4> QED BY <3>1, <3>2, <1>6
    <3>4. row(L[ci + 1], k) = [start \in D |-> IF line[ci] = "space" THEN piece(start, ci - 1) \o L[ci + 1][ci + 1]
                                               ELSE L[ci + 1][start]]
      BY <3>1
    <3>5. \A start \in D : Splits(L, line, N, ci, start) = 
             IF line[ci] = "space" THEN piece(start, ci - 1) \o L[ci + 1][ci + 1] ELSE L[ci + 1][start]
      BY <3>1 DEF Splits, piece
    <3> HIDE DEF row
    <3> QED BY <3>3, <3>4, <3>5
  <2> QED BY <2>1, <2>2
<1>8. L = [ci \in D |-> [start \in D |-> Splits(L, line, N, ci, start)]]
  <2>1. L = [ci \in D |-> L[ci]]
    OBVIOUS
  <2> HIDE DEF L
  <2> QED BY <1>7, <2>1
<1> HIDE DEF L
<1> QED BY <1>8

(* What the loop gives, from ci on, spells the line from start on.         *)
LEMMA LoopSpells ==
  ASSUME NEW line \in Word, NEW N \in Nat, N = Len(line), NEW loop,
         \A ci, start \in 1..(N + 1) : loop[ci][start] = Splits(loop, line, N, ci, start)
  PROVE  loop[1][1] \in Words /\ loop[1][1] # << >> /\ Joined(loop[1][1]) = line
<1> DEFINE Rest(start) == SubSeq(line, start, N)
           Right(list, start) == list \in Words /\ list # << >> /\ Joined(list) = Rest(start)
           T == {k \in Nat : k <= N => \A start \in 1..(N + 1 - k) : Right(loop[N + 1 - k][start], start)}
<1>1. \A start \in 1..(N + 1), end \in 0..N : SubSeq(line, start, end) \in Word
  BY Piece
<1>2. 0 \in T
  <2> SUFFICES ASSUME NEW start \in 1..(N + 1) PROVE Right(loop[N + 1][start], start)
    OBVIOUS
  <2>1. loop[N + 1][start] = << Rest(start) >>
    <3>1. N + 1 \in 1..(N + 1) /\ N + 1 > N /\ N + 1 - 1 = N
      OBVIOUS
    <3>2. loop[N + 1][start] = Splits(loop, line, N, N + 1, start)
      BY <3>1
    <3>3. Splits(loop, line, N, N + 1, start) = << SubSeq(line, start, N) >>
      BY <3>1 DEF Splits
    <3> QED BY <3>2, <3>3
  <2>2. Rest(start) \in Word
    BY <1>1
  <2> HIDE DEF Rest
  <2> QED BY <2>1, <2>2, JoinedOne
<1>3. ASSUME NEW k \in T PROVE k + 1 \in T
  <2> HIDE DEF Right
  <2> SUFFICES ASSUME k + 1 <= N, NEW start \in 1..(N + 1 - (k + 1))
               PROVE  Right(loop[N + 1 - (k + 1)][start], start)
    OBVIOUS
  <2> DEFINE ci == N - k
  <2>1. /\ N + 1 - (k + 1) = ci /\ ci \in 1..N /\ N + 1 - k = ci + 1 /\ start \in 1..ci
        /\ ci + 1 \in 1..(ci + 1) /\ start \in 1..(ci + 1) /\ ci \in 1..(N + 1) /\ start \in 1..(N + 1)
        /\ ~(ci > N) /\ ci - 1 \in 0..N /\ ci + 1 \in 1..(N + 1)
    OBVIOUS
  <2>2. \A s \in 1..(ci + 1) : Right(loop[ci + 1][s], s)
    <3>1. k <= N
      OBVIOUS
    <3> HIDE DEF Right
    <3> QED BY <2>1, <3>1
  <2> HIDE DEF ci, T, Right
  <2>3. loop[ci][start] = Splits(loop, line, N, ci, start)
    BY <2>1
  <2>4. CASE line[ci] = "space"
    <3> DEFINE a == SubSeq(line, start, ci - 1)
               list == loop[ci + 1][ci + 1]
    <3>1. loop[ci][start] = << a >> \o list
      BY <2>1, <2>3, <2>4 DEF Splits
    <3>2. a \in Word /\ Right(list, ci + 1)
      BY <1>1, <2>1, <2>2
    <3>3. Spaced(a, Rest(ci + 1)) = Rest(start)
      <4>1. line \in Seq(Char) /\ << line[ci] >> \in Seq(Char)
        <5>1. line \in Seq(Char)
          BY DEF Word
        <5>2. line[ci] \in Char
          BY <5>1, <2>1
        <5> QED BY <5>1, <5>2
      <4>2. SubSeq(line, ci, N) = << line[ci] >> \o Rest(ci + 1)
        <5>1. ci \in 1..Len(line) /\ N \in ci..Len(line)
          BY <2>1
        <5> QED BY <4>1, <5>1, SubSeqRecursiveFirst
      <4>3. a \o SubSeq(line, ci, N) = Rest(start)
        <5>1. /\ start \in 1..(Len(line) + 1) /\ ci - 1 \in (start - 1)..Len(line) /\ N \in (ci - 1)..Len(line)
              /\ ci - 1 + 1 = ci
          BY <2>1
        <5>2. a \o SubSeq(line, ci - 1 + 1, N) = Rest(start)
          BY <4>1, <5>1, ConcatAdjacentSubSeq
        <5> QED BY <5>1, <5>2
      <4>4. a \in Seq(Char) /\ Rest(ci + 1) \in Seq(Char)
        <5>1. a \in Word /\ Rest(ci + 1) \in Word
          BY <1>1, <2>1
        <5> QED BY <5>1 DEF Word
      <4> HIDE DEF a, Rest
      <4>5. (a \o << line[ci] >>) \o Rest(ci + 1) = a \o (<< line[ci] >> \o Rest(ci + 1))
        BY <4>1, <4>4, ConcatAssociative
      <4> QED BY <4>2, <4>3, <4>5, <2>4 DEF Spaced
    <3> HIDE DEF a, list, Rest
    <3> QED BY <3>1, <3>2, <3>3, <2>1, JoinedCons DEF Right
  <2>5. CASE line[ci] # "space"
    <3>1. loop[ci][start] = loop[ci + 1][start]
      BY <2>1, <2>3, <2>5 DEF Splits
    <3> QED BY <2>1, <2>2, <3>1
  <2> QED BY <2>1, <2>4, <2>5
<1>4. T = Nat
  <2>1. T \subseteq Nat
    OBVIOUS
  <2> HIDE DEF T
  <2> QED BY <1>2, <1>3, <2>1, SetInduction
<1>5. \A start \in 1..(N + 1 - N) : Right(loop[N + 1 - N][start], start)
  <2>1. N \in T
    BY <1>4
  <2> HIDE DEF Right
  <2> QED BY <2>1
<1>6. N + 1 - N = 1 /\ 1 \in 1..1
  OBVIOUS
<1>7. Right(loop[1][1], 1)
  <2> HIDE DEF Right, T
  <2> QED BY <1>5, <1>6
<1>8. Rest(1) = line
  <2>1. line \in Seq(Char)
    BY DEF Word
  <2> QED BY <2>1
<1> QED BY <1>7, <1>8

(* The arguments of a line spell it.                                       *)
LEMMA SplitSpells ==
  ASSUME NEW line \in Word
  PROVE  SplitArgs(line) \in Words /\ SplitArgs(line) # << >> /\ Joined(SplitArgs(line)) = line
<1> DEFINE N == Len(line)
           Eq(L) == L = [ci \in 1..(N + 1) |-> [start \in 1..(N + 1) |-> Splits(L, line, N, ci, start)]]
           loop == CHOOSE L : Eq(L)
<1>1. SplitArgs(line) = loop[1][1]
  BY DEF SplitArgs, Splits
<1>2. N \in Nat
  <2>1. line \in Seq(Char)
    BY DEF Word
  <2> QED BY <2>1
<1>3. \E L : Eq(L)
  <2> HIDE DEF N
  <2>1. N = Len(line)
    BY DEF N
  <2> QED BY <1>2, <2>1, LoopExists
<1>4. Eq(loop)
  <2> HIDE DEF Eq
  <2> QED BY <1>3
<1> HIDE DEF loop
<1>5. \A ci, start \in 1..(N + 1) : loop[ci][start] = Splits(loop, line, N, ci, start)
  <2> HIDE DEF N
  <2>1. ASSUME NEW ci \in 1..(N + 1), NEW start \in 1..(N + 1)
        PROVE  loop[ci][start] = Splits(loop, line, N, ci, start)
    <3>1. loop[ci] = [s \in 1..(N + 1) |-> Splits(loop, line, N, ci, s)]
      <4> DEFINE row(c) == [s \in 1..(N + 1) |-> Splits(loop, line, N, c, s)]
      <4>1. loop = [c \in 1..(N + 1) |-> row(c)]
        BY <1>4
      <4> HIDE DEF row, Eq
      <4>2. loop[ci] = row(ci)
        BY <4>1
      <4> QED BY <4>2 DEF row
    <3> HIDE DEF Eq
    <3> QED BY <3>1
  <2> HIDE DEF Eq
  <2> QED BY <2>1
<1>6. loop[1][1] \in Words /\ loop[1][1] # << >> /\ Joined(loop[1][1]) = line
  <2> HIDE DEF N, Eq
  <2>1. N = Len(line)
    BY DEF N
  <2> QED BY <1>2, <1>5, <2>1, LoopSpells
<1> QED BY <1>1, <1>6

-----------------------------------------------------------------------------
(* What holds at every step.                                               *)
Stored == {"a", "A", "space", "tab", "escape"}   \* characters of a line

(* Presses are numbered; what is pending was not fetched.                  *)
OrderInv == /\ fetches <= fetched /\ fetched <= current /\ current <= pressed
            /\ kb_key_pressed => fetched < current

(* The history has what str has below i; until a character is stored, the  *)
(* history is one step ahead.                                              *)
Spells(n) == Len(typed) = n /\ \A k \in 1..n : typed[k] = str[k - 1]
TypedInv ==
    /\ pc \in {"get", "command"} => Spells(i)
    /\ pc \in {"echo", "store"} =>
         \/ ch = "enter" /\ Spells(i)
         \/ ch = "backspace" /\ Spells(IF i > 0 THEN i - 1 ELSE 0)
         \/ /\ ch \in Stored /\ Len(typed) = i + 1 /\ typed[i + 1] = ch
            /\ \A k \in 1..i : typed[k] = str[k - 1]

(* No character of the line is the string's terminator.                    *)
TextInv == /\ \A n \in 0..(StrSize - 1) : n < i => str[n] \in Stored
           /\ pc = "command" => i < StrSize /\ str[i] = NUL

Glyph == Char \cup {">"}
Screens == [cell : UNION {[D -> Glyph] : D \in SUBSET Nat}, place : Nat, edge : Nat]
Upright(s) == s \in Screens /\ Columns <= s.edge /\ s.edge - Columns <= s.place /\ s.place <= s.edge

(* s shows the n characters of text from place h on and nothing after them. *)
Shows(s, h, text, n) ==
    /\ s.place = h + n
    /\ \A k \in 0..(n - 1) : h + k \in DOMAIN s.cell /\ s.cell[h + k] = text[k]
    /\ \A p \in DOMAIN s.cell : p >= h + n => s.cell[p] = "space"

(* The screen has what str has; until a character is stored, the screen is *)
(* one step ahead.                                                         *)
EchoInv ==
    tidy =>
      /\ pc \in {"get", "echo"} => Shows(screen, home, str, i)
      /\ pc = "store" =>
           \/ ch = "enter"
           \/ ch = "backspace" /\ Shows(screen, home, str, IF i > 0 THEN i - 1 ELSE 0)
           \/ ch \in Visible /\ Shows(screen, home, [str EXCEPT ![i] = ch], i + 1)
           \/ ch \in Visible /\ i = StrSize

KeysTypeOK ==
    /\ kb_key_pressed \in BOOLEAN
    /\ kb_current_char \in Char /\ ch \in Char
    /\ pressed \in 0..MaxKeys /\ current \in 0..MaxKeys
    /\ fetched \in 0..MaxKeys /\ fetches \in 0..MaxKeys
    /\ pc \in {"get", "echo", "store", "command", "clear", "beyond"}
    /\ str \in [0..(StrSize - 1) -> Char \cup {Junk}]
    /\ i \in 0..StrSize
    /\ Upright(screen) /\ home \in Nat
    /\ typed \in Seq(Char)
    /\ tidy \in BOOLEAN

LineInv == KeysTypeOK /\ OrderInv /\ TypedInv /\ TextInv /\ EchoInv

(* The arguments are those of the line that was the last one entered.      *)
ArgsInv == args \in Words /\ ArgsSpellLine

-----------------------------------------------------------------------------
(* The screen.                                                             *)
LEMMA InputConstants ==
    /\ MaxKeys \in Nat \ {0} /\ StrSize \in Nat \ {0} /\ Columns \in Nat \ {0}
    /\ TabSize \in Nat \ {0} /\ Left \subseteq 0..Columns
  BY InputAssumption

LEMMA ShowUpright ==
  ASSUME NEW s, Upright(s), NEW c \in Glyph
  PROVE  /\ Upright(Show(s, c))
         /\ Show(s, c).place = s.place + 1
         /\ DOMAIN Show(s, c).cell = DOMAIN s.cell \cup {s.place}
         /\ Show(s, c).cell[s.place] = c
         /\ \A p \in DOMAIN s.cell : p # s.place => Show(s, c).cell[p] = s.cell[p]
         /\ s.place # s.edge => Show(s, c).edge = s.edge
<1> DEFINE D == DOMAIN s.cell \cup {s.place}
           f == [p \in D |-> IF p = s.place THEN c ELSE s.cell[p]]
<1>1. s.place \in Nat /\ s.edge \in Nat /\ Columns \in Nat \ {0}
  BY InputConstants DEF Upright, Screens
<1>2. PICK E \in SUBSET Nat : s.cell \in [E -> Glyph]
  BY DEF Upright, Screens
<1>3. D \in SUBSET Nat /\ f \in [D -> Glyph]
  BY <1>1, <1>2
<1>4. f \in UNION {[X -> Glyph] : X \in SUBSET Nat}
  BY <1>3
<1>5. /\ Show(s, c).cell = f /\ Show(s, c).place = s.place + 1
      /\ Show(s, c).edge = IF s.place = s.edge THEN s.edge + Columns ELSE s.edge
      /\ Show(s, c) = [cell |-> f, place |-> s.place + 1,
                       edge |-> IF s.place = s.edge THEN s.edge + Columns ELSE s.edge]
  BY DEF Show
<1>6. DOMAIN f = D /\ f[s.place] = c /\ \A p \in DOMAIN s.cell : p # s.place => f[p] = s.cell[p]
  OBVIOUS
<1> HIDE DEF f, D
<1>7. Show(s, c) \in Screens
  BY <1>1, <1>4, <1>5 DEF Screens
<1>8. Columns <= s.edge /\ s.edge - Columns <= s.place /\ s.place <= s.edge
  BY DEF Upright
<1>9. Upright(Show(s, c))
  BY <1>1, <1>5, <1>7, <1>8 DEF Upright
<1> QED BY <1>5, <1>6, <1>9 DEF D

LEMMA GotoUpright ==
  ASSUME NEW s, Upright(s), NEW n \in Nat
  PROVE  /\ Upright(Goto(s, n)) /\ Goto(s, n).cell = s.cell /\ Goto(s, n).edge = s.edge
         /\ n < Columns => Goto(s, n).place = s.edge - Columns + n
<1>1. /\ s \in Screens /\ s.edge \in Nat /\ Columns \in Nat \ {0} /\ Columns <= s.edge
  BY InputConstants DEF Upright, Screens
<1> DEFINE to == s.edge - Columns + (IF n >= Columns THEN Columns - 1 ELSE n)
<1>2. to \in Nat /\ s.edge - Columns <= to /\ to <= s.edge
  BY <1>1
<1>3. n < Columns => to = s.edge - Columns + n
  BY <1>1
<1>4. Goto(s, n) = [s EXCEPT !.place = to]
  BY DEF Goto
<1> HIDE DEF to
<1>5. /\ Goto(s, n) \in Screens /\ Goto(s, n).place = to
      /\ Goto(s, n).cell = s.cell /\ Goto(s, n).edge = s.edge
  BY <1>1, <1>2, <1>4 DEF Screens
<1> QED BY <1>1, <1>2, <1>3, <1>5 DEF Upright

LEMMA ColumnIn == ASSUME NEW s, Upright(s)
                  PROVE  /\ Column(s) \in 0..(Columns - 1)
                         /\ s.place # s.edge => Column(s) = s.place - (s.edge - Columns)
  BY InputConstants DEF Column, Upright, Screens

LEMMA BackUpright ==
  ASSUME NEW s, Upright(s)
  PROVE  /\ Upright(Back(s)) /\ Back(s).cell = s.cell /\ Back(s).edge = s.edge
         /\ s.place \notin {s.edge - Columns, s.edge} => Back(s).place = s.place - 1
<1>1. /\ Column(s) \in 0..(Columns - 1) /\ Columns \in Nat \ {0}
      /\ s.place # s.edge => Column(s) = s.place - (s.edge - Columns)
  BY ColumnIn, InputConstants
<1> DEFINE n == IF Column(s) = 0 THEN 0 ELSE Column(s) - 1
<1>2. n \in Nat /\ n < Columns /\ Back(s) = Goto(s, n)
  BY <1>1 DEF Back
<1>3. /\ Upright(Back(s)) /\ Back(s).cell = s.cell /\ Back(s).edge = s.edge
      /\ Back(s).place = s.edge - Columns + n
  <2> HIDE DEF n
  <2> QED BY <1>2, GotoUpright
<1>4. ASSUME s.place \notin {s.edge - Columns, s.edge} PROVE Back(s).place = s.place - 1
  <2>1. s.place \in Nat /\ s.edge \in Nat
    BY DEF Upright, Screens
  <2>2. Column(s) = s.place - (s.edge - Columns) /\ Column(s) # 0
    BY <1>1, <1>4, <2>1
  <2> QED BY <1>1, <1>3, <2>1, <2>2
<1> QED BY <1>3, <1>4

LEMMA TabUpright == ASSUME NEW s, Upright(s) PROVE Upright(Tab(s))
<1>1. Column(s) \in Nat /\ Columns \in Nat \ {0} /\ TabSize \in Nat \ {0}
  BY ColumnIn, InputConstants
<1>2. Column(s) \div TabSize \in Nat
  BY <1>1
<1>3. (Column(s) \div TabSize + 1) * TabSize \in Nat
  BY <1>1, <1>2
<1> DEFINE n == IF Column(s) \div TabSize + 1 >= Columns THEN Columns - 1
                ELSE (Column(s) \div TabSize + 1) * TabSize
<1>4. Columns - 1 \in Nat
  BY <1>1
<1>5. n \in Nat /\ Tab(s) = Goto(s, n)
  BY <1>3, <1>4 DEF Tab
<1> HIDE DEF n
<1> QED BY <1>5, GotoUpright

LEMMA FeedUpright == ASSUME NEW s, Upright(s) PROVE Upright(Feed(s))
<1>1. s \in Screens /\ s.edge \in Nat /\ Columns \in Nat \ {0} /\ Columns <= s.edge
  BY InputConstants DEF Upright, Screens
<1>2. s.edge + Columns \in Nat /\ Feed(s) = [s EXCEPT !.place = s.edge, !.edge = s.edge + Columns]
  BY <1>1 DEF Feed
<1> DEFINE Cells == UNION {[D -> Glyph] : D \in SUBSET Nat}
<1>3. s \in [cell : Cells, place : Nat, edge : Nat]
  BY <1>1 DEF Screens
<1> HIDE DEF Cells
<1>4. /\ Feed(s).place = s.edge /\ Feed(s).edge = s.edge + Columns
      /\ Feed(s) \in [cell : Cells, place : Nat, edge : Nat]
  BY <1>1, <1>2, <1>3
<1>5. Feed(s) \in Screens
  BY <1>4 DEF Cells, Screens
<1> QED BY <1>1, <1>4, <1>5 DEF Upright

(* A new prompt: nothing stands after it.                                  *)
LEMMA PromptShows ==
  ASSUME NEW column \in 0..Columns
  PROVE  /\ Upright(Prompted(column)) /\ Prompted(column).place \in Nat
         /\ \A text : Shows(Prompted(column), Prompted(column).place, text, 0)
<1> DEFINE s == Fresh(column)
           t == Show(s, ">")
           r == Show(t, "space")
<1>1. /\ Upright(s) /\ DOMAIN s.cell = {} /\ s.place \in Nat
  <2>1. Columns \in Nat \ {0} /\ column \in Nat /\ column <= Columns
    BY InputConstants
  <2>2. [p \in {} |-> "space"] \in [{} -> Glyph] /\ {} \in SUBSET Nat
    OBVIOUS
  <2>3. [p \in {} |-> "space"] \in UNION {[D -> Glyph] : D \in SUBSET Nat}
    BY <2>2
  <2>4. s.place = column /\ s.edge = Columns /\ s.cell = [p \in {} |-> "space"] /\ s \in Screens
    BY <2>1, <2>3 DEF Fresh, Screens
  <2> QED BY <2>1, <2>4 DEF Upright
<1>2. ">" \in Glyph /\ "space" \in Glyph
  BY DEF Glyph, Char
<1> HIDE DEF s
<1>3. Upright(t) /\ DOMAIN t.cell = {s.place} /\ t.place = s.place + 1
  <2>1. Upright(t) /\ DOMAIN t.cell = DOMAIN s.cell \cup {s.place} /\ t.place = s.place + 1
    BY <1>1, <1>2, ShowUpright
  <2> QED BY <1>1, <2>1
<1> HIDE DEF t
<1>4. Upright(r) /\ DOMAIN r.cell = {s.place, t.place} /\ r.place = t.place + 1
  BY <1>2, <1>3, ShowUpright
<1>5. r = Prompted(column)
  BY DEF Prompted, s, t
<1> HIDE DEF r
<1>6. \A p \in DOMAIN r.cell : ~(p >= r.place)
  BY <1>1, <1>3, <1>4
<1>7. \A text : Shows(r, r.place, text, 0)
  <2>1. r.place \in Nat
    BY <1>1, <1>3, <1>4
  <2>2. r.place = r.place + 0 /\ 0..(0 - 1) = {}
    BY <2>1
  <2> QED BY <1>6, <2>2 DEF Shows
<1>8. r.place \in Nat
  BY <1>1, <1>3, <1>4
<1> QED BY <1>4, <1>5, <1>7, <1>8

(* The echo of a letter, and of a backspace within its row.                *)
LEMMA ShowShows ==
  ASSUME NEW s, Upright(s), NEW h \in Nat, NEW n \in Nat, NEW text, Shows(s, h, text, n),
         NEW c \in Char, NEW new, new[n] = c, \A k \in 0..(n - 1) : new[k] = text[k]
  PROVE  Shows(Show(s, c), h, new, n + 1)
<1> DEFINE t == Show(s, c)
<1>1. /\ t.place = s.place + 1
      /\ DOMAIN t.cell = DOMAIN s.cell \cup {s.place}
      /\ t.cell[s.place] = c
      /\ \A p \in DOMAIN s.cell : p # s.place => t.cell[p] = s.cell[p]
  BY ShowUpright DEF Glyph
<1>2. DOMAIN s.cell \subseteq Nat
  BY DEF Upright, Screens
<1> HIDE DEF t
<1>3. s.place = h + n /\ t.place = h + (n + 1)
  BY <1>1 DEF Shows
<1>4. ASSUME NEW k \in 0..(n + 1 - 1) PROVE h + k \in DOMAIN t.cell /\ t.cell[h + k] = new[k]
  <2>1. CASE k = n
    BY <1>1, <1>3, <2>1
  <2>2. CASE k \in 0..(n - 1)
    <3>1. h + k \in DOMAIN s.cell /\ s.cell[h + k] = text[k] /\ h + k # s.place
      BY <1>3, <2>2 DEF Shows
    <3> QED BY <1>1, <2>2, <3>1
  <2> QED BY <2>1, <2>2
<1>5. ASSUME NEW p \in DOMAIN t.cell, p >= h + (n + 1) PROVE t.cell[p] = "space"
  <2>1. p \in DOMAIN s.cell /\ p # s.place /\ p >= h + n
    BY <1>1, <1>2, <1>3, <1>5
  <2> QED BY <1>1, <2>1 DEF Shows
<1> QED BY <1>3, <1>4, <1>5 DEF Shows, t

LEMMA EraseShows ==
  ASSUME NEW s, Upright(s), NEW h \in Nat, NEW n \in Nat \ {0}, NEW text, Shows(s, h, text, n),
         s.place \notin {s.edge - Columns, s.edge}
  PROVE  Shows(Back(Show(Back(s), "space")), h, text, n - 1)
<1> DEFINE b == Back(s)
           t == Show(b, "space")
           r == Back(t)
<1>1. Upright(b) /\ b.cell = s.cell /\ b.edge = s.edge /\ b.place = s.place - 1
  BY BackUpright
<1>2. /\ s.place = h + n /\ s.edge \in Nat /\ Columns \in Nat \ {0}
      /\ s.edge - Columns <= s.place /\ s.place <= s.edge /\ DOMAIN s.cell \subseteq Nat
  <2>1. s.place = h + n
    BY DEF Shows
  <2>2. s \in Screens /\ s.edge - Columns <= s.place /\ s.place <= s.edge
    BY DEF Upright
  <2> QED BY <2>1, <2>2, InputConstants DEF Screens
<1> HIDE DEF b
<1>3. /\ Upright(t) /\ t.place = b.place + 1 /\ t.edge = b.edge
      /\ DOMAIN t.cell = DOMAIN b.cell \cup {b.place}
      /\ t.cell[b.place] = "space"
      /\ \A p \in DOMAIN b.cell : p # b.place => t.cell[p] = b.cell[p]
  <2>1. "space" \in Glyph
    BY DEF Glyph, Char
  <2>2. b.place # b.edge
    BY <1>1, <1>2
  <2> QED BY <1>1, <2>1, <2>2, ShowUpright
<1> HIDE DEF t
<1>4. t.place = s.place /\ t.edge = s.edge
  BY <1>1, <1>2, <1>3
<1>5. r.cell = t.cell /\ r.place = s.place - 1
  BY <1>3, <1>4, BackUpright
<1> HIDE DEF r
<1>6. r.place = h + (n - 1) /\ b.place = h + (n - 1)
  BY <1>1, <1>2, <1>5
<1>7. ASSUME NEW k \in 0..(n - 1 - 1) PROVE h + k \in DOMAIN r.cell /\ r.cell[h + k] = text[k]
  <2>1. h + k \in DOMAIN s.cell /\ s.cell[h + k] = text[k] /\ h + k # b.place
    BY <1>6 DEF Shows
  <2> QED BY <1>1, <1>3, <1>5, <2>1
<1>8. ASSUME NEW p \in DOMAIN r.cell, p >= h + (n - 1) PROVE r.cell[p] = "space"
  <2>1. CASE p = b.place
    BY <1>3, <1>5, <2>1
  <2>2. CASE p # b.place
    <3>1. p \in DOMAIN s.cell /\ p >= h + n
      BY <1>1, <1>2, <1>3, <1>5, <1>6, <1>8, <2>2
    <3>2. s.cell[p] = "space"
      BY <3>1 DEF Shows
    <3> QED BY <1>1, <1>3, <1>5, <2>2, <3>1, <3>2
  <2> QED BY <2>1, <2>2
<1> QED BY <1>6, <1>7, <1>8 DEF Shows, b, t, r

-----------------------------------------------------------------------------
(* The steps.                                                              *)
USE InputConstants

LEMMA InitInv == Init => LineInv
<1> SUFFICES ASSUME Init PROVE LineInv
  OBVIOUS
<1>1. Upright(Prompted(0)) /\ Prompted(0).place \in Nat
      /\ \A text : Shows(Prompted(0), Prompted(0).place, text, 0)
  <2>1. 0 \in 0..Columns
    OBVIOUS
  <2> QED BY <2>1, PromptShows
<1>2. KeysTypeOK
  BY <1>1 DEF Init, KeysTypeOK, Char, NUL
<1>3. OrderInv /\ TypedInv /\ TextInv
  BY DEF Init, OrderInv, TypedInv, TextInv, Spells
<1>4. EchoInv
  BY <1>1 DEF Init, EchoInv
<1> QED BY <1>2, <1>3, <1>4 DEF LineInv

(* The keyboard interrupt changes nothing the shell sees but the pending   *)
(* character.                                                              *)
LEMMA KeyInv == LineInv /\ kb_handler => LineInv'
<1> SUFFICES ASSUME LineInv, kb_handler PROVE LineInv'
  OBVIOUS
<1>1. UNCHANGED shellVars
  BY DEF kb_handler, PressKey, ShiftKey, CapsKey
<1>2. TypedInv' /\ TextInv' /\ EchoInv'
  BY <1>1 DEF LineInv, TypedInv, TextInv, EchoInv, Spells, Shows, shellVars, screenVars
<1>3. ASSUME NEW key \in CharKey, PressKey(key) PROVE KeysTypeOK' /\ OrderInv'
  <2>1. kb_map(key) \in Char
    BY DEF kb_map, CharKey, Char
  <2> QED
    BY <1>1, <1>3, <2>1 DEF LineInv, PressKey, KeysTypeOK, Upright, OrderInv, shellVars, screenVars
<1>4. ASSUME CapsKey \/ \E down \in BOOLEAN : ShiftKey(down) PROVE KeysTypeOK' /\ OrderInv'
  BY <1>1, <1>4
     DEF LineInv, CapsKey, ShiftKey, KeysTypeOK, Upright, OrderInv, shellVars, screenVars
<1> QED BY <1>2, <1>3, <1>4 DEF kb_handler, LineInv

LEMMA GetInv == LineInv /\ Get => LineInv'
<1> SUFFICES ASSUME LineInv, Get PROVE LineInv'
  OBVIOUS
<1>1. /\ pc = "get" /\ kb_key_pressed /\ kb_key_pressed' = FALSE
      /\ ch' = kb_current_char /\ ch' \in Char /\ typed' = Typed
      /\ fetched' = current /\ fetches' = fetches + 1
      /\ pc' = IF ch' = NUL THEN "get" ELSE "echo"
      /\ UNCHANGED << kb_current_char, kb_caps, kb_shift, pressed, current >>
      /\ UNCHANGED << str, i, args, screen, home, tidy >>
  BY DEF LineInv, KeysTypeOK, Get, Keep, kb_get_char, screenVars
<1>2. typed \in Seq(Char) /\ i \in Nat /\ i <= StrSize /\ Spells(i)
  BY <1>1 DEF LineInv, KeysTypeOK, TypedInv
<1>3. OrderInv' /\ TextInv' /\ EchoInv' /\ (typed' \in Seq(Char) => KeysTypeOK')
  <2>1. OrderInv' /\ fetched' \in 0..MaxKeys /\ fetches' \in 0..MaxKeys
    BY <1>1 DEF LineInv, KeysTypeOK, OrderInv
  <2>2. Upright(screen)' /\ pc' \in {"get", "echo"}
    BY <1>1 DEF LineInv, KeysTypeOK, Upright
  <2>3. typed' \in Seq(Char) => KeysTypeOK'
    BY <1>1, <2>1, <2>2 DEF LineInv, KeysTypeOK
  <2>4. TextInv' /\ EchoInv'
    BY <1>1 DEF LineInv, TextInv, EchoInv
  <2> QED BY <2>1, <2>3, <2>4
<1>4. CASE ch' \in {NUL, "enter"}
  <2>1. typed' = typed
    BY <1>1, <1>4 DEF Typed, NUL
  <2>2. Spells(i)'
    BY <1>1, <1>2, <2>1 DEF Spells
  <2>3. TypedInv'
    BY <1>1, <1>4, <2>2 DEF TypedInv, NUL
  <2> QED BY <1>2, <1>3, <2>1, <2>3 DEF LineInv
<1>5. CASE ch' = "backspace"
  <2> DEFINE n == IF i > 0 THEN i - 1 ELSE 0
  <2>1. typed' = SubSeq(typed, 1, Len(typed) - 1)
    BY <1>1, <1>5 DEF Typed, NUL
  <2>2. /\ typed' \in Seq(Char) /\ Len(typed') = n /\ n \in Nat /\ n <= i
        /\ \A k \in 1..n : typed'[k] = typed[k]
    BY <1>2, <2>1 DEF Spells
  <2>3. \A k \in 1..n : typed'[k] = str'[k - 1]
    <3> HIDE DEF n
    <3> QED BY <1>1, <1>2, <2>2 DEF Spells
  <2>4. TypedInv'
    BY <1>1, <1>5, <2>2, <2>3 DEF TypedInv, Spells, NUL
  <2> QED BY <1>3, <2>2, <2>4 DEF LineInv
<1>6. CASE ch' \in Stored
  <2>1. typed' = Append(typed, ch')
    BY <1>1, <1>6 DEF Typed, Stored, NUL
  <2>2. /\ typed' \in Seq(Char) /\ Len(typed') = i + 1 /\ typed'[i + 1] = ch'
        /\ \A k \in 1..i : typed'[k] = str'[k - 1]
    BY <1>1, <1>2, <2>1 DEF Spells
  <2>3. TypedInv'
    BY <1>1, <1>6, <2>2 DEF TypedInv, Stored, NUL
  <2> QED BY <1>3, <2>2, <2>3 DEF LineInv
<1> QED BY <1>1, <1>4, <1>5, <1>6 DEF Char, Stored

LEMMA TypeInv == LineInv /\ Type => LineInv'
<1> SUFFICES ASSUME LineInv, Type PROVE LineInv'
  OBVIOUS
<1>1. /\ pc = "echo" /\ pc' = "store" /\ screen' = Echo
      /\ tidy' = (tidy /\ ch \notin {"tab", "escape"} /\ ~Misses)
      /\ UNCHANGED << kb_key_pressed, kb_current_char, kb_caps, kb_shift, pressed, current >>
      /\ UNCHANGED << fetched, fetches, ch, str, i, args, home, typed >>
  BY DEF Type, kbVars
<1>2. /\ Upright(screen) /\ ch \in Char /\ i \in 0..StrSize /\ home \in Nat /\ tidy \in BOOLEAN
      /\ str \in [0..(StrSize - 1) -> Char \cup {Junk}]
  BY DEF LineInv, KeysTypeOK
<1>3. ch \in {"enter", "backspace"} \cup Stored
  BY <1>1 DEF LineInv, TypedInv
<1>4. Upright(screen')
  <2>1. \A c \in Visible : c \in Glyph
    BY DEF Visible, Glyph, Char
  <2>2. "space" \in Glyph
    BY DEF Glyph, Char
  <2>3. Upright(Back(Show(Back(screen), "space")))
    <3>1. Upright(Back(screen))
      BY <1>2, BackUpright
    <3>2. Upright(Show(Back(screen), "space"))
      BY <2>2, <3>1, ShowUpright
    <3> QED BY <3>2, BackUpright
  <2>4. CASE ch \in Visible
    BY <1>1, <1>2, <2>1, <2>4, ShowUpright DEF Echo, Visible
  <2>5. CASE ch \notin Visible
    BY <1>1, <1>2, <1>3, <2>3, <2>5, TabUpright, FeedUpright DEF Echo, Visible
  <2> QED BY <2>4, <2>5
<1>5. KeysTypeOK' /\ OrderInv' /\ TypedInv' /\ TextInv'
  <2>1. tidy' \in BOOLEAN
    BY <1>1
  <2>2. KeysTypeOK'
    BY <1>1, <1>4, <2>1 DEF LineInv, KeysTypeOK
  <2> QED BY <1>1, <2>2 DEF LineInv, OrderInv, TypedInv, TextInv, Spells
<1>6. EchoInv'
  <2> SUFFICES ASSUME tidy' PROVE EchoInv'
    BY DEF EchoInv
  <2>1. tidy /\ ch \notin {"tab", "escape"} /\ ~Misses
    BY <1>1
  <2>2. Shows(screen, home, str, i)
    BY <1>1, <2>1 DEF LineInv, EchoInv
  <2>3. CASE ch = "enter"
    BY <1>1, <2>3 DEF EchoInv
  <2>4. CASE ch = "backspace"
    <3>1. CASE i > 0
      <4>1. /\ screen' = Back(Show(Back(screen), "space")) /\ i \in Nat \ {0}
            /\ screen.place \notin {screen.edge - Columns, screen.edge}
        BY <1>1, <1>2, <2>1, <2>4, <3>1 DEF Echo, Misses, Visible
      <4>2. Shows(screen', home, str, i - 1)
        BY <1>2, <2>2, <4>1, EraseShows
      <4>3. Shows(screen', home', str', i' - 1)
        BY <1>1, <4>2
      <4> QED BY <1>1, <2>4, <3>1, <4>3 DEF EchoInv
    <3>2. CASE ~(i > 0)
      <4>1. i = 0 /\ screen' = screen
        BY <1>1, <1>2, <2>4, <3>2 DEF Echo, Visible
      <4>2. Shows(screen', home', str', 0)
        BY <1>1, <2>2, <4>1
      <4> QED BY <1>1, <2>4, <3>2, <4>2 DEF EchoInv
    <3> QED BY <3>1, <3>2
  <2>5. CASE ch \in Visible
    <3>1. screen' = Show(screen, ch)
      BY <1>1, <2>5 DEF Echo, Visible
    <3>2. CASE i < StrSize
      <4> DEFINE new == [str EXCEPT ![i] = ch]
      <4>1. new[i] = ch /\ \A k \in 0..(i - 1) : new[k] = str[k]
        BY <1>2, <3>2
      <4>2. i \in Nat /\ home \in Nat
        BY <1>2
      <4> HIDE DEF new
      <4>3. Shows(screen', home, new, i + 1)
        BY <1>2, <2>2, <3>1, <4>1, <4>2, ShowShows
      <4>4. Shows(screen', home', [str' EXCEPT ![i'] = ch'], i' + 1)
        BY <1>1, <4>3 DEF new
      <4> QED BY <1>1, <2>5, <4>4 DEF EchoInv
    <3>3. CASE i = StrSize
      BY <1>1, <2>5, <3>3 DEF EchoInv
    <3> QED BY <1>2, <3>2, <3>3
  <2> QED BY <1>3, <2>1, <2>3, <2>4, <2>5 DEF Stored, Visible
<1> QED BY <1>5, <1>6 DEF LineInv

LEMMA StoreInv == LineInv /\ Store => LineInv'
<1> SUFFICES ASSUME LineInv, Store PROVE LineInv'
  OBVIOUS
<1>1. /\ pc = "store" /\ UNCHANGED << kbVars, fetched, fetches, ch, screen, home, tidy, typed >>
      /\ i \in 0..StrSize /\ ch \in Char /\ Upright(screen)
      /\ str \in [0..(StrSize - 1) -> Char \cup {Junk}]
  BY DEF Store, LineInv, KeysTypeOK, screenVars
<1>2. UNCHANGED << kb_key_pressed, kb_current_char, kb_caps, kb_shift, pressed, current >>
  BY <1>1 DEF kbVars
<1>3. ASSUME pc' \in {"get", "command", "beyond"}, i' \in 0..StrSize,
             str' \in [0..(StrSize - 1) -> Char \cup {Junk}]
      PROVE  KeysTypeOK' /\ OrderInv'
  BY <1>1, <1>2, <1>3 DEF LineInv, KeysTypeOK, Upright, OrderInv
<1>4. CASE StoreChar
  <2>1. /\ i < StrSize /\ str' = [str EXCEPT ![i] = ch] /\ i' = i + 1 /\ pc' = "get"
        /\ ch \notin {"enter", "backspace"}
    BY <1>4 DEF StoreChar
  <2>2. /\ i' \in 0..StrSize /\ str' \in [0..(StrSize - 1) -> Char \cup {Junk}]
        /\ str'[i] = ch /\ \A k \in 0..(i - 1) : str'[k] = str[k]
    BY <1>1, <2>1
  <2>3. /\ ch \in Stored /\ Len(typed) = i + 1 /\ typed[i + 1] = ch
        /\ \A k \in 1..i : typed[k] = str[k - 1]
    BY <1>1, <2>1 DEF LineInv, TypedInv
  <2>4. TypedInv'
    <3>1. \A k \in 1..(i + 1) : typed[k] = str'[k - 1]
      BY <1>1, <2>2, <2>3
    <3> QED BY <1>1, <2>1, <2>3, <3>1 DEF TypedInv, Spells
  <2>5. TextInv'
    BY <1>1, <2>1, <2>2, <2>3 DEF LineInv, TextInv
  <2>6. EchoInv'
    <3> SUFFICES ASSUME tidy PROVE Shows(screen, home, str', i')
      BY <1>1, <2>1 DEF EchoInv
    <3>1. Shows(screen, home, [str EXCEPT ![i] = ch], i + 1)
      BY <1>1, <2>1 DEF LineInv, EchoInv
    <3> QED BY <2>1, <3>1
  <2> QED BY <1>3, <2>1, <2>2, <2>4, <2>5, <2>6 DEF LineInv
<1>5. CASE StoreBackspace
  <2>1. /\ ch = "backspace" /\ pc' = "get" /\ i' = IF i > 0 THEN i - 1 ELSE 0
        /\ str' = IF i > 0 THEN [str EXCEPT ![i - 1] = NUL] ELSE str
    BY <1>1, <1>5 DEF StoreBackspace
  <2> DEFINE n == IF i > 0 THEN i - 1 ELSE 0
  <2>2. /\ n \in 0..StrSize /\ i' = n /\ str' \in [0..(StrSize - 1) -> Char \cup {Junk}]
        /\ n <= i /\ \A k \in 0..(n - 1) : str'[k] = str[k]
    BY <1>1, <2>1 DEF Char
  <2>3. TypedInv'
    <3>1. Spells(n)
      BY <1>1, <2>1 DEF LineInv, TypedInv, Stored
    <3> HIDE DEF n
    <3>2. Len(typed) = n /\ \A k \in 1..n : typed[k] = str[k - 1]
      BY <3>1 DEF Spells
    <3>3. ASSUME NEW k \in 1..n PROVE typed[k] = str'[k - 1]
      <4>1. n \in Nat
        BY <2>2
      <4>2. k - 1 \in 0..(n - 1)
        BY <4>1
      <4> QED BY <2>2, <3>2, <4>2
    <3>4. i' = n /\ typed' = typed /\ pc' = "get"
      BY <1>1, <2>1, <2>2
    <3> QED BY <3>2, <3>3, <3>4 DEF TypedInv, Spells
  <2>4. TextInv'
    BY <1>1, <2>1, <2>2 DEF LineInv, TextInv
  <2>5. EchoInv'
    <3> SUFFICES ASSUME tidy PROVE Shows(screen, home, str', i')
      BY <1>1, <2>1 DEF EchoInv
    <3>1. Shows(screen, home, str, n)
      BY <1>1, <2>1 DEF LineInv, EchoInv, Visible
    <3> QED BY <2>2, <3>1 DEF Shows
  <2> QED BY <1>3, <2>1, <2>2, <2>3, <2>4, <2>5 DEF LineInv
<1>6. CASE StoreNewline
  <2>1. /\ ch = "enter" /\ i < StrSize /\ pc' = "command" /\ i' = i
        /\ str' = [str EXCEPT ![i] = NUL]
    BY <1>6 DEF StoreNewline
  <2>2. /\ i' \in 0..StrSize /\ str' \in [0..(StrSize - 1) -> Char \cup {Junk}]
        /\ str'[i] = NUL /\ \A k \in 0..(i - 1) : str'[k] = str[k]
    BY <1>1, <2>1 DEF Char
  <2>3. TypedInv'
    <3>1. Spells(i)
      BY <1>1, <2>1 DEF LineInv, TypedInv, Stored
    <3>2. Len(typed) = i /\ \A k \in 1..i : typed[k] = str'[k - 1]
      BY <1>1, <2>2, <3>1 DEF Spells
    <3> QED BY <1>1, <2>1, <3>2 DEF TypedInv, Spells
  <2>4. TextInv'
    BY <1>1, <2>1, <2>2 DEF LineInv, TextInv
  <2>5. EchoInv'
    BY <2>1 DEF EchoInv
  <2> QED BY <1>3, <2>1, <2>2, <2>3, <2>4, <2>5 DEF LineInv
<1>7. CASE StoreBeyond
  <2>1. pc' = "beyond" /\ i' = i /\ str' = str
    BY <1>7 DEF StoreBeyond
  <2>2. TypedInv' /\ TextInv' /\ EchoInv'
    BY <2>1 DEF LineInv, TypedInv, TextInv, EchoInv
  <2> QED BY <1>1, <1>3, <2>1, <2>2 DEF LineInv
<1> QED BY <1>4, <1>5, <1>6, <1>7 DEF Store

LEMMA CmdInv == LineInv /\ CmdHandler => LineInv'
  BY DEF CmdHandler, LineInv, KeysTypeOK, Upright, OrderInv, TypedInv, TextInv, EchoInv,
     kbVars, screenVars

LEMMA PromptInv == LineInv /\ Prompt => LineInv'
<1> SUFFICES ASSUME LineInv, Prompt PROVE LineInv'
  OBVIOUS
<1>1. /\ str' = [n \in 0..(StrSize - 1) |-> IF n < i THEN NUL ELSE str[n]]
      /\ i' = 0 /\ typed' = << >> /\ tidy' = TRUE /\ pc' = "get"
      /\ UNCHANGED << kb_key_pressed, kb_current_char, kb_caps, kb_shift, pressed, current >>
      /\ UNCHANGED << fetched, fetches, ch, args >>
  BY DEF Prompt, kbVars
<1>2. PICK column \in Left : screen' = Prompted(column) /\ home' = Prompted(column).place
  BY DEF Prompt
<1>3. /\ Upright(screen') /\ home' \in Nat
      /\ \A text : Shows(screen', home', text, 0)
  <2>1. column \in 0..Columns
    OBVIOUS
  <2> QED BY <1>2, <2>1, PromptShows
<1>4. KeysTypeOK' /\ OrderInv'
  <2>1. str' \in [0..(StrSize - 1) -> Char \cup {Junk}]
    BY <1>1 DEF LineInv, KeysTypeOK, Char
  <2> QED BY <1>1, <1>3, <2>1 DEF LineInv, KeysTypeOK, OrderInv
<1>5. TypedInv' /\ TextInv'
  BY <1>1 DEF TypedInv, TextInv, Spells
<1>6. EchoInv'
  <2>1. Shows(screen', home', str', i')
    BY <1>1, <1>3
  <2> QED BY <1>1, <2>1 DEF EchoInv
<1> QED BY <1>4, <1>5, <1>6 DEF LineInv

LEMMA NextInv == LineInv /\ [Next]_vars => LineInv'
<1> SUFFICES ASSUME LineInv, [Next]_vars PROVE LineInv'
  OBVIOUS
<1>1. CASE UNCHANGED vars
  BY <1>1 DEF vars, kbVars, shellVars, screenVars, LineInv, KeysTypeOK, Upright, OrderInv, TypedInv,
     TextInv, EchoInv, Spells, Shows
<1> QED BY <1>1, KeyInv, GetInv, TypeInv, StoreInv, CmdInv, PromptInv DEF Next, Shell

(* At every step: the keys are fetched in the order of their presses, str  *)
(* has the line as it was typed, whatever keys and corrections it was made *)
(* of (kb.c:49-58, shell.c:14-36), and a tidy line is on the screen.       *)
THEOREM Invariance == Spec => []LineInv
  BY InitInv, NextInv, PTL DEF Spec

(* CmdHandler sees the line that was typed.                                *)
LEMMA LineIsTyped ==
  ASSUME LineInv, pc = "command" PROVE Line = typed /\ typed \in Word
<1>1. /\ typed \in Word /\ Len(typed) = i /\ i \in 0..(StrSize - 1)
      /\ \A k \in 1..i : typed[k] = str[k - 1]
      /\ \A n \in 0..(StrSize - 1) : n < i => str[n] \in Stored
      /\ str[i] = NUL
  BY DEF LineInv, KeysTypeOK, TypedInv, Spells, TextInv, Word
<1>2. i \in Nuls /\ \A m \in Nuls : i <= m
  <2>1. ASSUME NEW m \in 0..(StrSize - 1), str[m] = NUL PROVE ~(m < i)
    BY <1>1, <2>1 DEF Stored, NUL
  <2> QED BY <1>1, <2>1 DEF Nuls
<1>3. \A n \in Nuls : (\A m \in Nuls : n <= m) => n = i
  BY <1>1, <1>2 DEF Nuls
<1>4. (CHOOSE n \in Nuls : \A m \in Nuls : n <= m) = i
  BY <1>2, <1>3
<1>5. Line = [k \in 1..i |-> str[k - 1]]
  BY <1>4 DEF Line
<1>6. typed = [k \in 1..i |-> typed[k]]
  BY <1>1 DEF Word
<1> QED BY <1>1, <1>5, <1>6

LEMMA ArgsNext == LineInv /\ ArgsInv /\ [Next]_vars => ArgsInv'
<1> SUFFICES ASSUME LineInv, ArgsInv, [Next]_vars PROVE ArgsInv'
  OBVIOUS
<1>1. CASE CmdHandler
  <2>1. pc = "command" /\ args' = SplitArgs(Line) /\ typed' = typed
    BY <1>1 DEF CmdHandler
  <2>2. args' \in Words /\ args' # << >> /\ Joined(args') = typed
    BY <2>1, LineIsTyped, SplitSpells
  <2> QED BY <2>1, <2>2 DEF ArgsInv, ArgsSpellLine
<1>2. CASE Get \/ Type \/ Store \/ Prompt
  <2>1. args' = args /\ pc' # "clear"
    BY <1>2 DEF Get, Type, Store, StoreChar, StoreBackspace, StoreNewline, StoreBeyond, Prompt
  <2> QED BY <2>1 DEF ArgsInv, ArgsSpellLine
<1>3. CASE kb_handler \/ UNCHANGED vars
  <2>1. UNCHANGED << args, pc, typed >>
    BY <1>3 DEF kb_handler, PressKey, ShiftKey, CapsKey, vars, shellVars
  <2> QED BY <2>1 DEF ArgsInv, ArgsSpellLine
<1> QED BY <1>1, <1>2, <1>3 DEF Next, Shell

(* The arguments spell the line as it was typed, with any keys and         *)
(* corrections and of any length that fits the shell's buffers: str is     *)
(* that line whatever it held before (shell.c:9-36), and CmdHandler's loop *)
(* (shell.c:73-92) neither drops, merges nor invents an argument.          *)
THEOREM ArgumentsSpell == Spec => []ArgsSpellLine
<1>1. Init => ArgsInv
  <2>1. << >> \in Words
    BY DEF Words
  <2> QED BY <2>1 DEF Init, ArgsInv, ArgsSpellLine
<1>2. ArgsInv => ArgsSpellLine
  BY DEF ArgsInv
<1> QED BY <1>1, <1>2, ArgsNext, Invariance, PTL DEF Spec

(* The driver's globals and the shell's variables keep their types, and    *)
(* the cursor stays within its row.                                        *)
THEOREM TypeCorrect == Spec => []TypeOK
<1> DEFINE Locks == kb_caps \in BOOLEAN /\ kb_shift \in BOOLEAN
<1>1. Init => ArgsInv /\ Locks
  <2>1. << >> \in Words
    BY DEF Words
  <2> QED BY <2>1 DEF Init, ArgsInv, ArgsSpellLine
<1>2. Locks /\ [Next]_vars => Locks'
  BY DEF Next, kb_handler, PressKey, ShiftKey, CapsKey, Shell, Get, Keep, Type, Store, CmdHandler,
     Prompt, kbVars, vars
<1>3. LineInv /\ ArgsInv /\ Locks => TypeOK
  <2> SUFFICES ASSUME LineInv, ArgsInv, Locks PROVE TypeOK
    OBVIOUS
  <2>1. /\ DOMAIN screen.cell \subseteq Nat /\ {screen.place, screen.edge, home} \subseteq Nat
        /\ screen.place \in (screen.edge - Columns)..screen.edge
    <3>1. screen \in Screens /\ screen.edge - Columns <= screen.place
          /\ screen.place <= screen.edge /\ home \in Nat
      BY DEF LineInv, KeysTypeOK, Upright
    <3>2. DOMAIN screen.cell \subseteq Nat
      BY <3>1 DEF Screens
    <3>3. screen.place \in Nat /\ screen.edge \in Nat
      BY <3>1 DEF Screens
    <3> QED BY <3>1, <3>2, <3>3
  <2> QED BY <2>1 DEF LineInv, KeysTypeOK, ArgsInv, Words, Word, TypeOK
<1> HIDE DEF Locks
<1> QED BY <1>1, <1>2, <1>3, ArgsNext, Invariance, PTL DEF Spec

(* A key the shell fetches was pressed after every key it fetched before   *)
(* (kb.c:49-58), whenever the interrupts come.                             *)
THEOREM FetchedInOrder == Spec => KeysInOrder
<1>1. LineInv /\ [Next]_vars => [Delivery]_vars
  <2> SUFFICES ASSUME LineInv, Next, fetches' # fetches PROVE fetched' > fetched
    BY DEF Delivery
  <2>1. Get
    BY DEF Next, kb_handler, PressKey, ShiftKey, CapsKey, Shell, Type, Store, CmdHandler,
       Prompt, shellVars
  <2> QED BY <2>1 DEF Get, LineInv, OrderInv, KeysTypeOK
<1> QED BY <1>1, Invariance, PTL DEF Spec, KeysInOrder

(* The line on the screen is the line in str (shell.c:14-36), wherever the *)
(* prompt began and however often the line wraps, until a tab or an escape *)
(* is typed or a backspace meets the end of a row (flanterm.c:1277-1307).  *)
THEOREM EchoIsTheLine == Spec => []LineIsEcho
<1>1. LineInv => LineIsEcho
  BY DEF LineInv, EchoInv, Shows, LineIsEcho
<1> QED BY <1>1, Invariance, PTL
=============================================================================
