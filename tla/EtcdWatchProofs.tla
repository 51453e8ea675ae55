--------------------------- MODULE EtcdWatchProofs ---------------------------
(***************************************************************************)
(* Proofs about EtcdWatch: what comparing a snapshot with the copy yields, *)
(* that the copy and the events not yet seen make up the directory, and    *)
(* that no record slips into the copy unannounced.  At the end, the same   *)
(* of the watch of a node, and the types of the tables NodeSubnets makes   *)
(* of its batches.                                                         *)
(***************************************************************************)
EXTENDS NodeSubnets, SequenceTheorems, FiniteSetTheorems, TLAPS

-----------------------------------------------------------------------------
(* Induction and recursion along 0 .. N. *)

(* Induction, for a set instead of a predicate: it follows from the absence *)
(* of an infinite descent among the intervals 1 .. n.                       *)
LEMMA SetInduction ==
    ASSUME NEW T \in SUBSET Nat, 0 \in T, \A n \in T : n + 1 \in T
    PROVE  T = Nat
<1> SUFFICES ASSUME Nat \ T # {} PROVE FALSE
  OBVIOUS
<1> DEFINE S == {1 .. n : n \in Nat \ T}
           R == StrictSubsetOrdering(Nat)
           F == FiniteSubsetsOf(Nat)
<1>1. IsWellFoundedOn(R, F)
  BY FS_StrictSubsetOrderingWellFounded
<1>2. S \subseteq F /\ S # {}
  <2>1. \A n \in Nat : IsFiniteSet(1 .. n) /\ 1 .. n \subseteq Nat
    BY FS_Interval
  <2> QED BY <2>1 DEF FiniteSubsetsOf
<1>3. PICK x \in S : \A y \in S : ~ (<<y, x>> \in R)
  <2> HIDE DEF S, R, F
  <2> QED BY <1>1, <1>2, WFMin, Zenon
<1>4. PICK n \in Nat \ T : x = 1 .. n
  OBVIOUS
<1>5. n - 1 \in Nat \ T
  OBVIOUS
<1>6. 1 .. n - 1 \in S
  BY <1>5
<1>7. <<1 .. n - 1, 1 .. n>> \in R
  <2>1. n \in 1 .. n /\ n \notin 1 .. n - 1 /\ 1 .. n - 1 \subseteq 1 .. n /\ 1 .. n \subseteq Nat
    BY <1>5
  <2> QED BY <2>1 DEF StrictSubsetOrdering
<1> QED BY <1>3, <1>4, <1>6, <1>7

(* The same up to a bound. *)
LEMMA BoundedInduction ==
    ASSUME NEW N \in Nat, NEW T \in SUBSET (0 .. N),
           0 \in T, \A n \in T : n < N => n + 1 \in T
    PROVE  T = 0 .. N
<1> DEFINE U == {n \in Nat : n <= N => n \in T}
<1>1. 0 \in U
  OBVIOUS
<1>2. ASSUME NEW n \in U PROVE n + 1 \in U
  OBVIOUS
<1>3. U = Nat
  <2>1. U \in SUBSET Nat
    OBVIOUS
  <2> HIDE DEF U
  <2> QED BY <1>1, <1>2, <2>1, SetInduction
<1>4. ASSUME NEW n \in 0 .. N PROVE n \in T
  <2>1. n \in U
    BY <1>3
  <2> QED BY <2>1
<1> QED BY <1>4

(* A set of numbers has a smallest one. *)
LEMMA SmallestNumber ==
    ASSUME NEW S \in SUBSET Nat, S # {}
    PROVE  \E x \in S : \A y \in S : x <= y
<1> DEFINE T == {n \in Nat : \A y \in S : n <= y}
<1> SUFFICES ASSUME \A x \in S : \E y \in S : ~ (x <= y) PROVE FALSE
  OBVIOUS
<1>1. 0 \in T
  OBVIOUS
<1>2. ASSUME NEW n \in T PROVE n + 1 \in T
  <2>1. n \notin S
    OBVIOUS
  <2> QED BY <2>1
<1>3. T = Nat
  <2>1. T \in SUBSET Nat
    OBVIOUS
  <2> HIDE DEF T
  <2> QED BY <1>1, <1>2, <2>1, SetInduction
<1>4. PICK x \in S : TRUE
  OBVIOUS
<1>5. x + 1 \in T
  BY <1>3
<1> QED BY <1>4, <1>5

(* f[n] is what n steps make of base. *)
Iterates(f, base, step, N) == f[0] = base /\ \A n \in 1 .. N : f[n] = step[n][f[n - 1]]

(* There is such a function, whatever the steps. *)
LEMMA Recursion ==
    ASSUME NEW S, NEW base \in S, NEW N \in Nat, NEW step \in [1 .. N -> [S -> S]]
    PROVE  \E f \in [0 .. N -> S] : Iterates(f, base, step, N)
<1> DEFINE Upto(f, k) == Iterates(f, base, step, k)
           T == {k \in 0 .. N : \E f \in [0 .. N -> S] : Upto(f, k)}
<1>1. 0 \in T
  <2>1. [n \in 0 .. N |-> base] \in [0 .. N -> S] /\ Upto([n \in 0 .. N |-> base], 0)
    BY DEF Iterates
  <2> HIDE DEF Upto
  <2> QED BY <2>1
<1>2. ASSUME NEW k \in T, k < N PROVE k + 1 \in T
  <2>1. PICK f \in [0 .. N -> S] : Upto(f, k)
    OBVIOUS
  <2> DEFINE g == [f EXCEPT ![k + 1] = step[k + 1][f[k]]]
  <2>2. g \in [0 .. N -> S]
    BY <1>2
  <2>3. g[0] = base
    BY <2>1 DEF Iterates
  <2>4. ASSUME NEW n \in 1 .. k + 1 PROVE g[n] = step[n][g[n - 1]]
    <3>1. CASE n = k + 1
      <4>1. g[k + 1] = step[k + 1][f[k]] /\ g[k] = f[k]
        BY <1>2
      <4>2. n - 1 = k
        BY <3>1
      <4> QED BY <3>1, <4>1, <4>2
    <3>2. CASE n # k + 1
      <4>1. n \in 1 .. k /\ n - 1 \in 0 .. k /\ n - 1 # k + 1
        BY <3>2
      <4>2. g[n] = f[n] /\ g[n - 1] = f[n - 1]
        BY <4>1
      <4> QED BY <4>1, <4>2, <2>1 DEF Iterates
    <3> QED BY <3>1, <3>2
  <2>5. Upto(g, k + 1)
    BY <2>3, <2>4 DEF Iterates
  <2> HIDE DEF g, Upto
  <2> QED BY <1>2, <2>2, <2>5
<1>3. T = 0 .. N
  <2>1. T \in SUBSET (0 .. N)
    OBVIOUS
  <2> HIDE DEF T
  <2> QED BY <1>1, <1>2, <2>1, BoundedInduction
<1>4. N \in T
  <2> HIDE DEF T
  <2> QED BY <1>3
<1> QED BY <1>4

-----------------------------------------------------------------------------
(* Sequences. *)

(* Where the elements of a concatenation come from. *)
LEMMA Concatenated ==
    ASSUME NEW S, NEW x \in Seq(S), NEW y \in Seq(S)
    PROVE  LET b == x \o y
           IN /\ b \in Seq(S) /\ Len(x) \in Nat
              /\ \A k \in DOMAIN x : k \in DOMAIN b /\ b[k] = x[k]
              /\ \A k \in DOMAIN y : Len(x) + k \in DOMAIN b /\ b[Len(x) + k] = y[k]
              /\ \A k \in DOMAIN b : \/ k \in DOMAIN x /\ b[k] = x[k]
                                     \/ k - Len(x) \in DOMAIN y /\ b[k] = y[k - Len(x)]
              /\ DOMAIN b \subseteq Int
<1> DEFINE b == x \o y
           X == Len(x)
           Y == Len(y)
<1>1. X \in Nat /\ Y \in Nat /\ DOMAIN x = 1 .. X /\ DOMAIN y = 1 .. Y
  OBVIOUS
<1>2. /\ b \in Seq(S) /\ DOMAIN b = 1 .. X + Y
      /\ \A k \in 1 .. X + Y : b[k] = IF k <= X THEN x[k] ELSE y[k - X]
  <2>1. b \in Seq(S) /\ Len(b) = X + Y
    BY ConcatProperties
  <2>2. \A k \in 1 .. X + Y : b[k] = IF k <= X THEN x[k] ELSE y[k - X]
    BY ConcatProperties
  <2> HIDE DEF b, X, Y
  <2> QED BY <1>1, <2>1, <2>2
<1> HIDE DEF b, X, Y
<1>3. ASSUME NEW k \in 1 .. X PROVE k \in DOMAIN b /\ b[k] = x[k]
  BY <1>1, <1>2
<1>4. ASSUME NEW k \in 1 .. Y PROVE X + k \in DOMAIN b /\ b[X + k] = y[k]
  <2>1. X + k \in 1 .. X + Y /\ ~ (X + k <= X) /\ (X + k) - X = k
    BY <1>1
  <2> QED BY <1>2, <2>1
<1>5. ASSUME NEW k \in DOMAIN b
      PROVE  \/ k \in DOMAIN x /\ b[k] = x[k]
             \/ k - X \in DOMAIN y /\ b[k] = y[k - X]
  <2>1. CASE k <= X
    BY <1>1, <1>2, <2>1
  <2>2. CASE ~ (k <= X)
    <3>1. k \in 1 .. X + Y /\ k - X \in 1 .. Y
      BY <1>1, <1>2, <2>2
    <3> QED BY <1>1, <1>2, <2>2, <3>1
  <2> QED BY <2>1, <2>2
<1>6. DOMAIN b \subseteq Int
  BY <1>1, <1>2
<1> QED BY <1>1, <1>2, <1>3, <1>4, <1>5, <1>6 DEF b, X, Y

-----------------------------------------------------------------------------
(* The copy. *)

NamesDiffer(c) == \A i, j \in DOMAIN c : c[i].name = c[j].name => i = j

(* The search finds a record of the name if there is one. *)
LEMMA Found ==
    ASSUME NEW S, NEW c \in Seq(S), NEW name
    PROVE  LET i == IndexOf(c, name)
           IN /\ i \in 0 .. Len(c)
              /\ i # 0 => c[i].name = name
              /\ i = 0 <=> \A j \in DOMAIN c : c[j].name # name
<1> DEFINE I == {i \in 1 .. Len(c) : c[i].name = name}
<1>1. IndexOf(c, name) = IF I # {} THEN Min(I) ELSE 0
  BY DEF IndexOf, SelectInSeq
<1>2. ASSUME I # {} PROVE Min(I) \in I
  <2>1. I \in SUBSET Nat
    OBVIOUS
  <2>2. \E x \in I : \A y \in I : x <= y
    <3> HIDE DEF I
    <3> QED BY <1>2, <2>1, SmallestNumber
  <2> HIDE DEF I
  <2> QED BY <2>2 DEF Min
<1>3. CASE I = {}
  BY <1>1, <1>3
<1>4. CASE I # {}
  BY <1>1, <1>2, <1>4
<1> QED BY <1>3, <1>4

(* A record taken out of the copy is gone, the others stay. *)
LEMMA Deleted ==
    ASSUME NEW S, NEW c \in Seq(S), NEW i \in DOMAIN c
    PROVE  LET d == deleteAt(c, i)
           IN /\ d \in Seq(S)
              /\ \A k \in DOMAIN d : \E j \in DOMAIN c : c[j] = d[k]
              /\ \A j \in DOMAIN c \ {i} : \E k \in DOMAIN d : d[k] = c[j]
              /\ NamesDiffer(c) => /\ NamesDiffer(d)
                                   /\ \A k \in DOMAIN d : d[k].name # c[i].name
<1> DEFINE d == deleteAt(c, i)
<1>1. /\ Len(c) \in Nat \ {0} /\ DOMAIN c = 1 .. Len(c)
      /\ \A k \in 1 .. Len(c) : c[k] \in S
  OBVIOUS
<1>2. d = [k \in 1 .. Len(c) - 1 |-> IF k = i THEN c[Len(c)] ELSE c[k]]
  BY DEF deleteAt, Last
<1>3. d \in Seq(S) /\ DOMAIN d = 1 .. Len(c) - 1
  BY <1>1, <1>2, IsASeq
<1> HIDE DEF d
<1>4. ASSUME NEW j \in DOMAIN c \ {i} PROVE \E k \in DOMAIN d : d[k] = c[j]
  <2>1. CASE j = Len(c)
    <3>1. i \in DOMAIN d /\ d[i] = c[j]
      BY <1>1, <1>2, <1>3, <2>1
    <3> QED BY <3>1
  <2>2. CASE j # Len(c)
    <3>1. j \in DOMAIN d /\ d[j] = c[j]
      BY <1>1, <1>2, <1>3, <2>2
    <3> QED BY <3>1
  <2> QED BY <2>1, <2>2
<1>5. \A k \in DOMAIN d : d[k] = c[IF k = i THEN Len(c) ELSE k]
  BY <1>1, <1>2, <1>3
<1>6. NamesDiffer(c) => NamesDiffer(d) /\ \A k \in DOMAIN d : d[k].name # c[i].name
  BY <1>1, <1>3, <1>5 DEF NamesDiffer
<1>7. \A k \in DOMAIN d : \E j \in DOMAIN c : c[j] = d[k]
  BY <1>1, <1>3, <1>5
<1> QED BY <1>3, <1>4, <1>6, <1>7 DEF d

-----------------------------------------------------------------------------
(* Comparing a snapshot with the copy. *)

EventsOf(S)  == [type : {"Added", "Removed"}, rec : S]
Matchings(S) == [left : Seq(S), batch : Seq(EventsOf(S))]

LEMMA MatchType ==
    ASSUME NEW S, NEW acc \in Matchings(S), NEW r \in S
    PROVE  Match(acc, r) \in Matchings(S)
<1> DEFINE i == IndexOf(acc.left, r.name)
<1>1. acc.left \in Seq(S) /\ acc.batch \in Seq(EventsOf(S))
  BY DEF Matchings
<1>2. CASE i = 0
  <2>1. Added(r) \in EventsOf(S)
    BY DEF Added, EventsOf
  <2>2. Append(acc.batch, Added(r)) \in Seq(EventsOf(S))
    BY <1>1, <2>1, AppendProperties
  <2> QED BY <1>2, <2>2 DEF Match, Matchings
<1>3. CASE i # 0
  <2>1. i \in DOMAIN acc.left
    BY <1>1, <1>3, Found
  <2>2. deleteAt(acc.left, i) \in Seq(S)
    BY <1>1, <2>1, Deleted
  <2> QED BY <1>3, <2>2 DEF Match, Matchings
<1> QED BY <1>2, <1>3

LEMMA MatchesFunction ==
    ASSUME NEW S, NEW c \in Seq(S), NEW s \in Seq(S)
    PROVE  LET m == Matches(c, s)
           IN /\ m \in [0 .. Len(s) -> Matchings(S)]
              /\ m[0] = [left |-> c, batch |-> <<>>]
              /\ \A n \in 1 .. Len(s) : m[n] = Match(m[n - 1], s[n])
<1> DEFINE base == [left |-> c, batch |-> <<>>]
           step == [n \in 1 .. Len(s) |-> [acc \in Matchings(S) |-> Match(acc, s[n])]]
           Body(f) == [n \in 0 .. Len(s) |-> IF n = 0 THEN base ELSE Match(f[n - 1], s[n])]
<1>1. base \in Matchings(S) /\ Len(s) \in Nat
  BY EmptySeq DEF Matchings
<1>2. step \in [1 .. Len(s) -> [Matchings(S) -> Matchings(S)]]
  BY MatchType, ElementOfSeq
<1>3. PICK f \in [0 .. Len(s) -> Matchings(S)] : Iterates(f, base, step, Len(s))
  <2> DEFINE N == Len(s)
             M == Matchings(S)
  <2>1. base \in M /\ N \in Nat /\ step \in [1 .. N -> [M -> M]]
    BY <1>1, <1>2
  <2> HIDE DEF base, step, Body, N, M
  <2>2. \E f \in [0 .. N -> M] : Iterates(f, base, step, N)
    BY <2>1, Recursion
  <2> QED BY <2>2 DEF N, M
<1>4. ASSUME NEW n \in 1 .. Len(s) PROVE f[n] = Match(f[n - 1], s[n])
  <2>1. n - 1 \in 0 .. Len(s)
    BY <1>1
  <2>2. f[n - 1] \in Matchings(S)
    BY <2>1
  <2>3. step[n][f[n - 1]] = Match(f[n - 1], s[n])
    BY <2>2
  <2> QED BY <1>3, <2>3 DEF Iterates
<1>5. f = Body(f)
  <2>1. \A n \in 0 .. Len(s) : f[n] = IF n = 0 THEN base ELSE Match(f[n - 1], s[n])
    BY <1>3, <1>4 DEF Iterates
  <2> QED BY <2>1
<1> DEFINE m == Matches(c, s)
<1>6. m = CHOOSE g : g = Body(g)
  BY DEF Matches
<1>7. m = Body(m)
  <2> HIDE DEF Body, m
  <2> QED BY <1>5, <1>6
<1>8. m[0] = base /\ \A n \in 1 .. Len(s) : m[n] = Match(m[n - 1], s[n])
  <2> HIDE DEF m, base
  <2> QED BY <1>1, <1>7
<1>9. m \in [0 .. Len(s) -> Matchings(S)]
  <2> DEFINE T == {n \in 0 .. Len(s) : m[n] \in Matchings(S)}
  <2>1. 0 \in T
    BY <1>1, <1>8
  <2>2. ASSUME NEW n \in T, n < Len(s) PROVE n + 1 \in T
    <3>1. m[n + 1] = Match(m[n], s[n + 1])
      BY <1>8, <2>2
    <3>2. s[n + 1] \in S
      BY <2>2, ElementOfSeq
    <3> QED BY <2>2, <3>1, <3>2, MatchType
  <2>3. T = 0 .. Len(s)
    <3>1. T \in SUBSET (0 .. Len(s))
      OBVIOUS
    <3> HIDE DEF T
    <3> QED BY <1>1, <2>1, <2>2, <3>1, BoundedInduction
  <2>4. DOMAIN m = 0 .. Len(s) /\ m = [n \in 0 .. Len(s) |-> m[n]]
    <3> HIDE DEF m
    <3> QED BY <1>7
  <2> HIDE DEF m
  <2> QED BY <2>3, <2>4
<1> QED BY <1>8, <1>9

(* The state of the comparison after n records: what is left of the copy has *)
(* none of their names, and each of them was in the copy or is announced.    *)
Compared(c, s, m, n) ==
    /\ \A k \in DOMAIN m.left : \E j \in DOMAIN c : c[j] = m.left[k]
    /\ NamesDiffer(c) => /\ NamesDiffer(m.left)
                         /\ \A k \in DOMAIN m.left : \A i \in 1 .. n : m.left[k].name # s[i].name
    /\ \A j \in DOMAIN c : (\A i \in 1 .. n : c[j].name # s[i].name)
                             => \E k \in DOMAIN m.left : m.left[k] = c[j]
    /\ \A k \in DOMAIN m.batch : \E i \in 1 .. n : m.batch[k] = Added(s[i])
    /\ \A i \in 1 .. n : \/ \E j \in DOMAIN c : c[j].name = s[i].name
                         \/ \E k \in DOMAIN m.batch : m.batch[k] = Added(s[i])

LEMMA MatchCompares ==
    ASSUME NEW S, NEW c \in Seq(S), NEW s \in Seq(S), NEW n \in Nat, n < Len(s),
           NEW m \in Matchings(S), Compared(c, s, m, n)
    PROVE  Compared(c, s, Match(m, s[n + 1]), n + 1)
<1> DEFINE r == s[n + 1]
           i == IndexOf(m.left, r.name)
           x == Match(m, r)
<1>1. /\ m.left \in Seq(S) /\ m.batch \in Seq(EventsOf(S)) /\ r \in S
      /\ m = [left |-> m.left, batch |-> m.batch]
      /\ n + 1 \in 1 .. n + 1 /\ 1 .. n + 1 = 1 .. n \cup {n + 1}
  BY DEF Matchings
<1>2. CASE i = 0
  <2>1. \A k \in DOMAIN m.left : m.left[k].name # r.name
    BY <1>1, <1>2, Found
  <2>2. x.left = m.left /\ x.batch = Append(m.batch, Added(r))
    BY <1>1, <1>2 DEF Match
  <2>3. /\ DOMAIN x.batch = DOMAIN m.batch \cup {Len(m.batch) + 1}
        /\ \A k \in DOMAIN m.batch : x.batch[k] = m.batch[k]
        /\ x.batch[Len(m.batch) + 1] = Added(r)
    BY <1>1, <2>2 DEF EventsOf, Added
  <2> HIDE DEF x, i, r
  <2>4. \A k \in DOMAIN x.batch : \E l \in 1 .. n + 1 : x.batch[k] = Added(s[l])
    BY <1>1, <2>3 DEF Compared, r
  <2>5. \A l \in 1 .. n + 1 : \/ \E j \in DOMAIN c : c[j].name = s[l].name
                              \/ \E k \in DOMAIN x.batch : x.batch[k] = Added(s[l])
    <3> SUFFICES ASSUME NEW l \in 1 .. n + 1, ~ \E j \in DOMAIN c : c[j].name = s[l].name
                 PROVE  \E k \in DOMAIN x.batch : x.batch[k] = Added(s[l])
      OBVIOUS
    <3>1. CASE l \in 1 .. n
      BY <2>3, <3>1 DEF Compared
    <3>2. CASE l = n + 1
      BY <2>3, <3>2 DEF r
    <3> QED BY <1>1, <3>1, <3>2
  <2>6. ASSUME NamesDiffer(c)
        PROVE  /\ NamesDiffer(x.left)
               /\ \A k \in DOMAIN x.left : \A l \in 1 .. n + 1 : x.left[k].name # s[l].name
    <3>1. NamesDiffer(m.left) /\ \A k \in DOMAIN m.left : \A l \in 1 .. n : m.left[k].name # s[l].name
      BY <2>6 DEF Compared
    <3>2. \A k \in DOMAIN m.left : m.left[k].name # s[n + 1].name
      BY <2>1 DEF r
    <3> QED BY <1>1, <2>2, <3>1, <3>2
  <2>7. \A j \in DOMAIN c : (\A l \in 1 .. n + 1 : c[j].name # s[l].name)
                               => \E k \in DOMAIN x.left : x.left[k] = c[j]
    BY <1>1, <2>2 DEF Compared
  <2>8. \A k \in DOMAIN x.left : \E j \in DOMAIN c : c[j] = x.left[k]
    BY <2>2 DEF Compared
  <2>9. Compared(c, s, x, n + 1)
    BY <2>4, <2>5, <2>6, <2>7, <2>8 DEF Compared
  <2> QED BY <2>9 DEF x, r
<1>3. CASE i # 0
  <2>1. i \in DOMAIN m.left /\ m.left[i].name = r.name
    BY <1>1, <1>3, Found
  <2>2. x.left = deleteAt(m.left, i) /\ x.batch = m.batch
    BY <1>1, <1>3 DEF Match
  <2>3. /\ \A k \in DOMAIN x.left : \E j \in DOMAIN m.left : m.left[j] = x.left[k]
        /\ \A j \in DOMAIN m.left \ {i} : \E k \in DOMAIN x.left : x.left[k] = m.left[j]
        /\ NamesDiffer(m.left) => /\ NamesDiffer(x.left)
                                  /\ \A k \in DOMAIN x.left : x.left[k].name # m.left[i].name
    BY <1>1, <2>1, <2>2, Deleted
  <2> HIDE DEF x, i, r
  <2>4. \A k \in DOMAIN x.left : \E j \in DOMAIN c : c[j] = x.left[k]
    BY <2>3 DEF Compared
  <2>5. ASSUME NamesDiffer(c)
        PROVE  /\ NamesDiffer(x.left)
               /\ \A k \in DOMAIN x.left : \A l \in 1 .. n + 1 : x.left[k].name # s[l].name
    <3>1. NamesDiffer(m.left) /\ \A k \in DOMAIN m.left : \A l \in 1 .. n : m.left[k].name # s[l].name
      BY <2>5 DEF Compared
    <3>2. \A k \in DOMAIN x.left : x.left[k].name # s[n + 1].name
      BY <2>1, <2>3, <3>1 DEF r
    <3>3. \A k \in DOMAIN x.left : \A l \in 1 .. n : x.left[k].name # s[l].name
      BY <2>3, <3>1
    <3> QED BY <1>1, <2>3, <3>1, <3>2, <3>3
  <2>6. ASSUME NEW j \in DOMAIN c, \A l \in 1 .. n + 1 : c[j].name # s[l].name
        PROVE  \E k \in DOMAIN x.left : x.left[k] = c[j]
    <3>1. PICK k \in DOMAIN m.left : m.left[k] = c[j]
      BY <1>1, <2>6 DEF Compared
    <3>2. k # i
      BY <1>1, <2>1, <2>6, <3>1 DEF r
    <3> QED BY <2>3, <3>1, <3>2
  <2>7. \A k \in DOMAIN x.batch : \E l \in 1 .. n + 1 : x.batch[k] = Added(s[l])
    BY <1>1, <2>2 DEF Compared
  <2>8. \A l \in 1 .. n + 1 : \/ \E j \in DOMAIN c : c[j].name = s[l].name
                              \/ \E k \in DOMAIN x.batch : x.batch[k] = Added(s[l])
    <3> SUFFICES ASSUME NEW l \in 1 .. n + 1, ~ \E j \in DOMAIN c : c[j].name = s[l].name
                 PROVE  \E k \in DOMAIN x.batch : x.batch[k] = Added(s[l])
      OBVIOUS
    <3>1. CASE l \in 1 .. n
      BY <2>2, <3>1 DEF Compared
    <3>2. CASE l = n + 1
      <4>1. PICK j \in DOMAIN c : c[j] = m.left[i]
        BY <2>1 DEF Compared
      <4> QED BY <2>1, <3>2, <4>1 DEF r
    <3> QED BY <1>1, <3>1, <3>2
  <2>9. Compared(c, s, x, n + 1)
    BY <2>4, <2>5, <2>6, <2>7, <2>8 DEF Compared
  <2> QED BY <2>9 DEF x, r
<1> QED BY <1>2, <1>3

(* What the comparison of the copy c with the snapshot s announces: every     *)
(* record whose name is new, and the removal of the copies of records whose   *)
(* name is gone, each of them once.                                           *)
Announces(b, c, s) ==
    /\ \A k \in DOMAIN b : \/ \E i \in DOMAIN s : b[k] = Added(s[i])
                           \/ \E j \in DOMAIN c : b[k] = Removed(c[j])
    /\ NamesDiffer(c) =>
         /\ \A k \in DOMAIN b : b[k].type = "Removed" =>
               \A i \in DOMAIN s : s[i].name # b[k].rec.name
         /\ \A k, l \in DOMAIN b :
               (/\ b[k].type = "Removed" /\ b[l].type = "Removed"
                /\ b[k].rec.name = b[l].rec.name) => k = l
    /\ \A j \in DOMAIN c : (\A i \in DOMAIN s : c[j].name # s[i].name)
                             => \E k \in DOMAIN b : b[k] = Removed(c[j])
    /\ \A i \in DOMAIN s : \/ \E j \in DOMAIN c : c[j].name = s[i].name
                           \/ \E k \in DOMAIN b : b[k] = Added(s[i])

LEMMA ResetYields ==
    ASSUME NEW S, NEW c \in Seq(S), NEW s \in Seq(S)
    PROVE  /\ reset(c, s).cache = s
           /\ reset(c, s).batch \in Seq(EventsOf(S))
           /\ Announces(reset(c, s).batch, c, s)
<1> DEFINE f == Matches(c, s)
           N == Len(s)
           m == f[N]
           removed == [i \in DOMAIN m.left |-> Removed(m.left[i])]
           b == reset(c, s).batch
<1>1. /\ f \in [0 .. N -> Matchings(S)]
      /\ f[0] = [left |-> c, batch |-> <<>>]
      /\ \A n \in 1 .. N : f[n] = Match(f[n - 1], s[n])
  BY MatchesFunction
<1>2. N \in Nat /\ DOMAIN s = 1 .. N
  OBVIOUS
<1>3. Compared(c, s, f[0], 0)
  <2> HIDE DEF f
  <2> QED BY <1>1 DEF Compared
<1>4. Compared(c, s, m, N)
  <2> DEFINE T == {n \in 0 .. N : Compared(c, s, f[n], n)}
  <2> HIDE DEF f
  <2>1. 0 \in T
    BY <1>2, <1>3
  <2>2. ASSUME NEW n \in T, n < N PROVE n + 1 \in T
    <3>1. f[n] \in Matchings(S) /\ f[n + 1] = Match(f[n], s[n + 1])
      BY <1>1, <1>2, <2>2
    <3>2. Compared(c, s, f[n + 1], n + 1)
      BY <1>2, <2>2, <3>1, MatchCompares
    <3> QED BY <1>2, <2>2, <3>2
  <2>3. T = 0 .. N
    <3>1. T \in SUBSET (0 .. N)
      OBVIOUS
    <3> HIDE DEF T, N
    <3> QED BY <1>2, <2>1, <2>2, <3>1, BoundedInduction
  <2> QED BY <1>2, <2>3
<1>5. m.left \in Seq(S) /\ m.batch \in Seq(EventsOf(S))
  <2> HIDE DEF f
  <2> QED BY <1>1, <1>2 DEF Matchings
<1>6. reset(c, s).cache = s /\ b = m.batch \o removed
  BY DEF reset
<1> HIDE DEF f, m, b
<1>7. removed \in Seq(EventsOf(S)) /\ DOMAIN removed = DOMAIN m.left
  <2>1. \A i \in DOMAIN m.left : Removed(m.left[i]) \in EventsOf(S)
    BY <1>5 DEF Removed, EventsOf
  <2> QED BY <1>5, <2>1
<1> DEFINE M == Len(m.batch)
<1>8. /\ b \in Seq(EventsOf(S)) /\ M \in Nat
      /\ \A k \in DOMAIN m.batch : k \in DOMAIN b /\ b[k] = m.batch[k]
      /\ \A k \in DOMAIN removed : M + k \in DOMAIN b /\ b[M + k] = removed[k]
      /\ \A k \in DOMAIN b : \/ k \in DOMAIN m.batch /\ b[k] = m.batch[k]
                             \/ k - M \in DOMAIN removed /\ b[k] = removed[k - M]
      /\ DOMAIN b \subseteq Int
  <2> DEFINE E == EventsOf(S)
             added == m.batch
  <2>1. added \in Seq(E) /\ removed \in Seq(E) /\ b = added \o removed
    BY <1>5, <1>6, <1>7
  <2> HIDE DEF removed, added, E
  <2>2. /\ b \in Seq(E) /\ Len(added) \in Nat
        /\ \A k \in DOMAIN added : k \in DOMAIN b /\ b[k] = added[k]
        /\ \A k \in DOMAIN removed : Len(added) + k \in DOMAIN b /\ b[Len(added) + k] = removed[k]
        /\ \A k \in DOMAIN b : \/ k \in DOMAIN added /\ b[k] = added[k]
                               \/ k - Len(added) \in DOMAIN removed /\ b[k] = removed[k - Len(added)]
        /\ DOMAIN b \subseteq Int
    BY <2>1, Concatenated
  <2> QED BY <2>2 DEF added, E
<1>9. \A k \in DOMAIN m.left : M + k \in DOMAIN b /\ b[M + k] = Removed(m.left[k])
  BY <1>7, <1>8
<1>10. ASSUME NEW k \in DOMAIN b
       PROVE  \/ k \in DOMAIN m.batch /\ \E i \in DOMAIN s : b[k] = Added(s[i])
              \/ k - M \in DOMAIN m.left /\ b[k] = Removed(m.left[k - M])
  <2>1. CASE k \in DOMAIN m.batch /\ b[k] = m.batch[k]
    BY <1>2, <1>4, <2>1 DEF Compared
  <2>2. CASE k - M \in DOMAIN removed /\ b[k] = removed[k - M]
    BY <1>7, <2>2
  <2> QED BY <1>8, <2>1, <2>2
<1> HIDE DEF M, removed
<1>11. ASSUME NEW k \in DOMAIN b, b[k].type = "Removed"
       PROVE  k - M \in DOMAIN m.left /\ b[k] = Removed(m.left[k - M])
  BY <1>10, <1>11 DEF Added
<1>12. ASSUME NEW k \in DOMAIN b
       PROVE  \/ \E i \in DOMAIN s : b[k] = Added(s[i])
              \/ \E j \in DOMAIN c : b[k] = Removed(c[j])
  BY <1>4, <1>10 DEF Compared
<1>13. ASSUME NamesDiffer(c), NEW k \in DOMAIN b, b[k].type = "Removed"
       PROVE  \A i \in DOMAIN s : s[i].name # b[k].rec.name
  BY <1>2, <1>4, <1>11, <1>13 DEF Compared, Removed
<1>14. ASSUME NamesDiffer(c), NEW k \in DOMAIN b, NEW l \in DOMAIN b,
              b[k].type = "Removed", b[l].type = "Removed", b[k].rec.name = b[l].rec.name
       PROVE  k = l
  <2>1. NamesDiffer(m.left)
    BY <1>4, <1>14 DEF Compared
  <2>2. /\ k - M \in DOMAIN m.left /\ b[k].rec = m.left[k - M]
        /\ l - M \in DOMAIN m.left /\ b[l].rec = m.left[l - M]
    BY <1>11, <1>14 DEF Removed
  <2>3. k - M = l - M
    BY <1>14, <2>1, <2>2 DEF NamesDiffer
  <2> QED BY <1>8, <2>3
<1>15. ASSUME NEW j \in DOMAIN c, \A i \in DOMAIN s : c[j].name # s[i].name
       PROVE  \E k \in DOMAIN b : b[k] = Removed(c[j])
  <2>1. PICK k \in DOMAIN m.left : m.left[k] = c[j]
    BY <1>2, <1>4, <1>15 DEF Compared
  <2> QED BY <1>9, <2>1
<1>16. ASSUME NEW i \in DOMAIN s
       PROVE  \/ \E j \in DOMAIN c : c[j].name = s[i].name
              \/ \E k \in DOMAIN b : b[k] = Added(s[i])
  BY <1>2, <1>4, <1>8 DEF Compared
<1>17. Announces(b, c, s)
  BY <1>12, <1>13, <1>14, <1>15, <1>16 DEF Announces
<1> QED BY <1>6, <1>8, <1>17 DEF b

-----------------------------------------------------------------------------
(* What the handler is told. *)

Tellings == [Labels -> Data \cup {NoData}]

LEMMA TellType ==
    ASSUME NEW t \in Tellings, NEW e \in Events
    PROVE  Tell(t, e) \in Tellings
BY DEF Tellings, Events, Tell

LEMMA TellsFunction ==
    ASSUME NEW t \in Tellings, NEW b \in Seq(Events)
    PROVE  LET f == Tells(t, b)
           IN /\ f \in [0 .. Len(b) -> Tellings]
              /\ f[0] = t
              /\ \A n \in 1 .. Len(b) : f[n] = Tell(f[n - 1], b[n])
<1> DEFINE N == Len(b)
           step == [n \in 1 .. N |-> [u \in Tellings |-> Tell(u, b[n])]]
           Body(g) == [n \in 0 .. N |-> IF n = 0 THEN t ELSE Tell(g[n - 1], b[n])]
           f == Tells(t, b)
<1>1. N \in Nat /\ \A n \in 1 .. N : b[n] \in Events
  OBVIOUS
<1>2. step \in [1 .. N -> [Tellings -> Tellings]]
  BY <1>1, TellType
<1>3. PICK g \in [0 .. N -> Tellings] : Iterates(g, t, step, N)
  <2> HIDE DEF step, N, Body, f
  <2> QED BY <1>1, <1>2, Recursion
<1>4. ASSUME NEW n \in 1 .. N PROVE g[n] = Tell(g[n - 1], b[n])
  <2>1. n - 1 \in 0 .. N
    BY <1>1
  <2>2. step[n][g[n - 1]] = Tell(g[n - 1], b[n])
    BY <2>1
  <2> QED BY <1>3, <2>2 DEF Iterates
<1>5. g = Body(g)
  <2>1. \A n \in 0 .. N : g[n] = IF n = 0 THEN t ELSE Tell(g[n - 1], b[n])
    BY <1>3, <1>4 DEF Iterates
  <2> QED BY <2>1
<1>6. f = CHOOSE x : x = Body(x)
  BY DEF Tells
<1>7. f = Body(f)
  <2> HIDE DEF Body, f
  <2> QED BY <1>5, <1>6
<1>8. f[0] = t /\ \A n \in 1 .. N : f[n] = Tell(f[n - 1], b[n])
  <2> HIDE DEF f
  <2> QED BY <1>1, <1>7
<1>9. f \in [0 .. N -> Tellings]
  <2> DEFINE T == {n \in 0 .. N : f[n] \in Tellings}
  <2>1. f = [n \in 0 .. N |-> f[n]]
    <3> HIDE DEF f
    <3> QED BY <1>7
  <2> HIDE DEF f
  <2>2. 0 \in T
    BY <1>1, <1>8
  <2>3. ASSUME NEW n \in T, n < N PROVE n + 1 \in T
    <3>1. n + 1 \in 1 .. N /\ (n + 1) - 1 = n
      BY <1>1, <2>3
    <3>2. f[n + 1] = Tell(f[n], b[n + 1])
      BY <1>8, <3>1
    <3> QED BY <1>1, <2>3, <3>1, <3>2, TellType
  <2>4. T = 0 .. N
    <3>1. T \in SUBSET (0 .. N)
      OBVIOUS
    <3> HIDE DEF T, N
    <3> QED BY <1>1, <2>2, <2>3, <3>1, BoundedInduction
  <2> QED BY <2>1, <2>4
<1> QED BY <1>8, <1>9

(* A name of which no removal is told, and which is known already or told *)
(* of as new, is known to the handler after the batch.                    *)
LEMMA TellsKnown ==
    ASSUME NEW t \in Tellings, NEW b \in Seq(Events), NEW name \in Labels,
           \A j \in DOMAIN b : b[j].rec.name = name => b[j].type = "Added" /\ b[j].rec.data # NoData,
           t[name] # NoData \/ \E j \in DOMAIN b : b[j].rec.name = name
    PROVE  /\ Tells(t, b)[Len(b)] \in Tellings
           /\ Tells(t, b)[Len(b)][name] # NoData
<1> DEFINE N == Len(b)
           f == Tells(t, b)
           T == {n \in 0 .. N : (t[name] # NoData \/ \E j \in 1 .. n : b[j].rec.name = name)
                                   => f[n][name] # NoData}
<1>1. N \in Nat /\ DOMAIN b = 1 .. N /\ \A n \in 1 .. N : b[n] \in Events
  OBVIOUS
<1>2. f \in [0 .. N -> Tellings] /\ f[0] = t /\ \A n \in 1 .. N : f[n] = Tell(f[n - 1], b[n])
  BY TellsFunction
<1> HIDE DEF f, N
<1>3. 0 \in T
  BY <1>1, <1>2
<1>4. ASSUME NEW n \in T, n < N PROVE n + 1 \in T
  <2>1. n + 1 \in 1 .. N /\ (n + 1) - 1 = n
    BY <1>1, <1>4
  <2>2. f[n + 1] = Tell(f[n], b[n + 1]) /\ f[n] \in Tellings
    BY <1>2, <2>1
  <2> DEFINE e == b[n + 1]
  <2>3. f[n + 1][name] = IF e.rec.name = name
                           THEN IF e.type = "Added" THEN e.rec.data ELSE NoData
                           ELSE f[n][name]
    BY <1>1, <2>1, <2>2 DEF Tell, Tellings, Events
  <2>4. CASE e.rec.name = name
    BY <1>1, <2>1, <2>3, <2>4
  <2>5. CASE e.rec.name # name
    <3> SUFFICES ASSUME t[name] # NoData \/ \E j \in 1 .. n + 1 : b[j].rec.name = name
                 PROVE  f[n + 1][name] # NoData
      BY <2>1
    <3>1. t[name] # NoData \/ \E j \in 1 .. n : b[j].rec.name = name
      BY <2>1, <2>5
    <3> QED BY <2>3, <2>5, <3>1
  <2> QED BY <2>4, <2>5
<1>5. T = 0 .. N
  <2>1. T \in SUBSET (0 .. N)
    OBVIOUS
  <2> HIDE DEF T
  <2> QED BY <1>1, <1>3, <1>4, <2>1, BoundedInduction
<1>6. N \in T
  BY <1>1, <1>5
<1> QED BY <1>1, <1>2, <1>6 DEF f, N

-----------------------------------------------------------------------------
(* Snapshots. *)

(* The snapshot holds every record of the directory, each of them once, in the *)
(* order of the keys that s gives.                                             *)
Holds(snapshot, s) ==
    /\ snapshot \in Seq(Records) /\ DOMAIN s = DOMAIN snapshot
    /\ \A i \in DOMAIN s : s[i] \in Keys /\ snapshot[i] = store[s[i]] /\ store[s[i]] \in Records
    /\ \A i, j \in DOMAIN s : s[i] = s[j] => i = j
    /\ \A k \in Keys : store[k] \in Records => \E i \in DOMAIN s : s[i] = k

LEMMA SnapshotHolds ==
    ASSUME store \in [Keys -> Values], NEW snapshot \in Snapshots
    PROVE  \E s : Holds(snapshot, s)
<1> DEFINE K == {k \in Keys : store[k] \in Records}
           n == Cardinality(K)
<1>1. IsFiniteSet(K) /\ n \in Nat
  <2>1. IsFiniteSet(K)
    BY EtcdWatchAssumption, FS_Subset
  <2> QED BY <2>1, FS_CardinalityType
<1>2. PICK s \in [1 .. n -> K] : /\ \A i, j \in 1 .. n : i # j => s[i] # s[j]
                                 /\ snapshot = [i \in DOMAIN s |-> store[s[i]]]
  BY DEF Snapshots, SetToSeqs
<1> HIDE DEF n
<1>3. snapshot = [i \in 1 .. n |-> store[s[i]]] /\ \A i \in 1 .. n : store[s[i]] \in Records
  BY <1>2
<1>4. snapshot \in Seq(Records) /\ DOMAIN snapshot = 1 .. n
  BY <1>1, <1>3, IsASeq
<1>5. s \in Surjection(1 .. n, K)
  <2>1. s \in Injection(1 .. n, K)
    BY <1>2 DEF Injection, IsInjective
  <2>2. Cardinality(1 .. n) = n
    BY <1>1, FS_Interval
  <2> HIDE DEF K
  <2> QED BY <1>1, <2>1, <2>2, FS_Injection DEF n
<1>6. \A k \in K : \E i \in 1 .. n : s[i] = k
  BY <1>5 DEF Surjection
<1>7. Holds(snapshot, s)
  BY <1>2, <1>3, <1>4, <1>6 DEF Holds
<1> QED BY <1>7

-----------------------------------------------------------------------------
(* Types. *)

LEMMA HappensType ==
    ASSUME TypeOK, NEW key, NEW value, [key |-> key, value |-> value] \in Changes,
           Happens(key, value)
    PROVE  /\ unseen' \in Seq(Changes) /\ Len(unseen') <= Window /\ behind' \in BOOLEAN
<1> DEFINE e == [key |-> key, value |-> value]
<1> DEFINE history == Append(unseen, e)
<1>1. history \in Seq(Changes) /\ Len(history) \in Nat /\ Window \in Nat
  BY EtcdWatchAssumption, AppendProperties DEF TypeOK
<1>2. IF behind \/ Len(history) > Window
        THEN behind' = TRUE /\ unseen' = <<>>
        ELSE unseen' = history /\ UNCHANGED behind
  BY DEF Happens
<1> HIDE DEF history
<1>3. CASE behind \/ Len(history) > Window
  <2>1. behind' = TRUE /\ unseen' = <<>>
    BY <1>2, <1>3
  <2> QED BY <1>1, <2>1
<1>4. CASE ~ (behind \/ Len(history) > Window)
  <2>1. unseen' = history /\ behind' = behind /\ Len(history) <= Window
    BY <1>1, <1>2, <1>4
  <2> QED BY <1>1, <2>1 DEF TypeOK
<1> QED BY <1>3, <1>4

LEMMA RecordsLabelled ==
    /\ EventsOf(Records) \subseteq Events
    /\ \A r \in Records : Added(r) \in Events /\ Removed(r) \in Events
    /\ \A k \in Keys : Removed([name |-> KeyPath[k], data |-> NoData]) \in Events
BY DEF EventsOf, Records, Events, Labels, Added, Removed

LEMMA UpdateType ==
    ASSUME NEW c \in Seq(Records), NEW change \in Changes,
           change.key \in Keys, change.value # Malformed
    PROVE  /\ update(c, change).cache \in Seq(Records)
           /\ update(c, change).batch \in Seq(Events)
<1>1. CASE change.value = NoRecord
  <2> DEFINE r == [name |-> KeyPath[change.key], data |-> NoData]
             i == IndexOf(c, r.name)
  <2>1. update(c, change) = remove(c, r)
    BY <1>1 DEF update
  <2>2. CASE i = 0
    <3>1. Removed(r) \in Events
      BY RecordsLabelled
    <3> QED BY <2>1, <2>2, <3>1 DEF remove
  <2>3. CASE i # 0
    <3>1. i \in DOMAIN c
      BY <2>3, Found
    <3>2. deleteAt(c, i) \in Seq(Records)
      BY <3>1, Deleted
    <3>3. Removed(c[i]) \in Events
      BY <3>1, RecordsLabelled
    <3> QED BY <2>1, <2>3, <3>2, <3>3 DEF remove
  <2> QED BY <2>2, <2>3
<1>2. CASE change.value # NoRecord
  <2> DEFINE r == change.value
             i == IndexOf(c, r.name)
  <2>1. update(c, change) = add(c, r) /\ r \in Records /\ Added(r) \in Events
    BY <1>2, RecordsLabelled DEF update, Changes, Values
  <2>2. CASE i = 0
    <3>1. Append(c, r) \in Seq(Records)
      BY <2>1, AppendProperties
    <3> QED BY <2>1, <2>2, <3>1 DEF add
  <2>3. CASE i # 0
    <3>1. i \in 1 .. Len(c)
      BY <2>3, Found
    <3>2. ReplaceAt(c, i, r) \in Seq(Records)
      BY <2>1, <3>1, ExceptSeq DEF ReplaceAt
    <3> QED BY <2>1, <2>3, <3>2 DEF add
  <2> QED BY <2>2, <2>3
<1> QED BY <1>1, <1>2

(* A process that never starts again is one that may. *)
LEMMA RunningRestarts == Spec => RestartingSpec
<1>1. [Next]_vars => [Next \/ StartWatch]_vars
  OBVIOUS
<1> QED BY <1>1, PTL DEF Spec, RestartingSpec

(* Every step of the watch and of its environment keeps the types. *)
LEMMA TypeStep ==
    ASSUME TypeOK, [Next \/ StartWatch]_vars
    PROVE  TypeOK'
<1>1. ASSUME NEW k \in Keys, NEW value \in ValuesOf(k), Write(k, value) PROVE TypeOK'
  <2>1. [key |-> k, value |-> value] \in Changes /\ value \in Values
    BY DEF Changes, ValuesOf
  <2>2. unseen' \in Seq(Changes) /\ Len(unseen') <= Window /\ behind' \in BOOLEAN
    BY <1>1, <2>1, HappensType DEF Write
  <2> QED BY <1>1, <2>1, <2>2 DEF Write, TypeOK
<1>2. ASSUME WriteElsewhere PROVE TypeOK'
  <2>1. [key |-> Elsewhere, value |-> NoRecord] \in Changes
    BY DEF Changes
  <2>2. unseen' \in Seq(Changes) /\ Len(unseen') <= Window /\ behind' \in BOOLEAN
    BY <1>2, <2>1, HappensType DEF WriteElsewhere
  <2> QED BY <1>2, <2>2 DEF WriteElsewhere, TypeOK
<1>3. ASSUME WatchReset PROVE TypeOK'
  <2>1. PICK snapshot \in Snapshots : /\ cache' = reset(cache, snapshot).cache
                                      /\ batch' = reset(cache, snapshot).batch
    BY <1>3 DEF WatchReset
  <2>2. snapshot \in Seq(Records)
    BY SnapshotHolds DEF TypeOK, Holds
  <2>3. cache' \in Seq(Records) /\ batch' \in Seq(EventsOf(Records))
    BY <2>1, <2>2, ResetYields DEF TypeOK
  <2>4. batch' \in Seq(Events)
    BY <2>3, RecordsLabelled, SeqMonotonic
  <2> QED BY <1>3, <2>3, <2>4 DEF WatchReset, TypeOK
<1>4. ASSUME WatchEvent PROVE TypeOK'
  <2>1. PICK i \in DOMAIN unseen :
           /\ unseen[i].key \in Keys /\ unseen[i].value # Malformed
           /\ unseen' = SubSeq(unseen, i + 1, Len(unseen))
           /\ cache' = update(cache, unseen[i]).cache /\ batch' = update(cache, unseen[i]).batch
    BY <1>4 DEF WatchEvent
  <2>2. unseen[i] \in Changes /\ i \in 1 .. Len(unseen)
    BY DEF TypeOK
  <2>3. cache' \in Seq(Records) /\ batch' \in Seq(Events)
    BY <2>1, <2>2, UpdateType DEF TypeOK
  <2>4. unseen' \in Seq(Changes) /\ Len(unseen') <= Window
    BY <2>1, <2>2, SubSeqProperties, EtcdWatchAssumption DEF TypeOK
  <2> QED BY <1>4, <2>3, <2>4 DEF WatchEvent, TypeOK
<1>5. ASSUME Receive PROVE TypeOK'
  <2>1. told \in Tellings /\ batch \in Seq(Events) /\ Len(batch) \in 0 .. Len(batch)
    BY DEF TypeOK, Tellings
  <2>2. told' \in [Labels -> Data \cup {NoData}]
    BY <1>5, <2>1, TellsFunction DEF Receive, Tellings
  <2> QED BY <1>5, <2>2 DEF Receive, TypeOK
<1>6. ASSUME UNCHANGED vars PROVE TypeOK'
  BY <1>6 DEF vars, TypeOK
<1>7. ASSUME StartWatch PROVE TypeOK'
  BY <1>7, EtcdWatchAssumption DEF StartWatch, TypeOK
<1> QED BY <1>1, <1>2, <1>3, <1>4, <1>5, <1>6, <1>7 DEF Next

(* The copy, the batches and the unseen history hold records and changes,  *)
(* whatever others write, however far the watch falls behind, and however  *)
(* often its process starts again.                                         *)
THEOREM TypeCorrect == (Spec => []TypeOK) /\ (RestartingSpec => []TypeOK)
<1>1. Init => TypeOK
  BY EtcdWatchAssumption DEF Init, TypeOK
<1>2. TypeOK /\ [Next \/ StartWatch]_vars => TypeOK'
  BY TypeStep
<1> QED BY <1>1, <1>2, RunningRestarts, PTL DEF RestartingSpec

-----------------------------------------------------------------------------
(* One event in the copy. *)

(* The record of an event is in the copy, in place of the one of its name, *)
(* and the others stay; a deletion, whose event has no name of a record,   *)
(* leaves the copy as it is.                                               *)
Updates(u, c, change) ==
    LET r == change.value
    IN /\ r = NoRecord => /\ u.cache = c
                          /\ u.batch = <<Removed([name |-> KeyPath[change.key], data |-> NoData])>>
       /\ r # NoRecord => /\ r \in Records
                          /\ u.batch = <<Added(r)>>
                          /\ \E j \in DOMAIN u.cache : u.cache[j] = r
                          /\ \A j \in DOMAIN c : c[j].name # r.name
                                                  => \E k \in DOMAIN u.cache : u.cache[k] = c[j]
                          /\ \A k \in DOMAIN u.cache : \/ u.cache[k] = r
                                                       \/ \E j \in DOMAIN c : u.cache[k] = c[j]
                          /\ NamesDiffer(c) => NamesDiffer(u.cache)

LEMMA UpdateYields ==
    ASSUME NEW c \in Seq(Records), NEW change \in Changes,
           change.key \in Keys, change.value # Malformed
    PROVE  Updates(update(c, change), c, change)
<1> USE DEF Updates
<1>1. ASSUME change.value = NoRecord
      PROVE  /\ update(c, change).cache = c
             /\ update(c, change).batch = <<Removed([name |-> KeyPath[change.key], data |-> NoData])>>
  <2> DEFINE r == [name |-> KeyPath[change.key], data |-> NoData]
  <2>1. update(c, change) = remove(c, r)
    BY <1>1 DEF update
  <2>2. \A j \in DOMAIN c : c[j].name # r.name
    <3>1. ASSUME NEW j \in DOMAIN c PROVE c[j].name \in Names
      <4>1. c[j] \in Records
        OBVIOUS
      <4> QED BY <4>1 DEF Records
    <3> QED BY <3>1, EtcdWatchAssumption
  <2>3. IndexOf(c, r.name) = 0
    BY <2>2, Found
  <2> QED BY <2>1, <2>3 DEF remove
<1>2. CASE change.value # NoRecord
  <2> DEFINE r == change.value
             i == IndexOf(c, r.name)
             d == update(c, change).cache
  <2>1. update(c, change) = add(c, r) /\ r \in Records
    BY <1>2 DEF update, Changes, Values
  <2>2. Len(c) \in Nat /\ DOMAIN c = 1 .. Len(c)
    OBVIOUS
  <2>3. CASE i = 0
    <3>1. \A j \in DOMAIN c : c[j].name # r.name
      BY <2>3, Found
    <3>2. d = Append(c, r)
      BY <2>1, <2>3 DEF add
    <3>3. /\ DOMAIN d = 1 .. Len(c) + 1 /\ d[Len(c) + 1] = r
          /\ \A j \in DOMAIN c : j \in DOMAIN d /\ d[j] = c[j]
      BY <2>1, <2>2, <3>2, AppendProperties
    <3> HIDE DEF d, i
    <3>4. \A k \in DOMAIN d : \/ k = Len(c) + 1 /\ d[k] = r
                              \/ k \in DOMAIN c /\ d[k] = c[k]
      BY <2>2, <3>3
    <3>5. NamesDiffer(c) => NamesDiffer(d)
      BY <2>2, <3>1, <3>4 DEF NamesDiffer
    <3>6. Len(c) + 1 \in DOMAIN d
      BY <2>2, <3>3
    <3> QED BY <1>2, <2>1, <2>3, <3>3, <3>4, <3>5, <3>6 DEF add, d, i
  <2>4. CASE i # 0
    <3>1. i \in DOMAIN c /\ c[i].name = r.name
      BY <2>2, <2>4, Found
    <3>2. d = [c EXCEPT ![i] = r]
      BY <2>1, <2>4 DEF add, ReplaceAt
    <3>3. DOMAIN d = DOMAIN c /\ d[i] = r /\ \A k \in DOMAIN c \ {i} : d[k] = c[k]
      BY <3>1, <3>2
    <3> HIDE DEF d, i
    <3>4. NamesDiffer(c) => NamesDiffer(d)
      BY <3>1, <3>3 DEF NamesDiffer
    <3> QED BY <1>2, <2>1, <2>4, <3>1, <3>3, <3>4 DEF add, d, i
  <2> QED BY <2>3, <2>4
<1> QED BY <1>1, <1>2

-----------------------------------------------------------------------------
(* The copy is current. *)

(* No two keys ever carry the same name. *)
NamesApart == \A j, k \in Keys : j # k => NamesOf[j] \cap NamesOf[k] = {}

(* Values fit their keys, and a watch that is behind remembers nothing. *)
Fit == /\ \A k \in Keys : store[k] \in ValuesOf(k)
       /\ \A i \in DOMAIN unseen : unseen[i].key \in Keys => unseen[i].value \in ValuesOf(unseen[i].key)
       /\ behind => unseen = <<>>

(* The last event of a key that is not seen yet says what it holds now. *)
LastWritten ==
    \A i \in DOMAIN unseen :
        (/\ unseen[i].key \in Keys
         /\ \A j \in DOMAIN unseen : unseen[j].key = unseen[i].key => j <= i)
           => store[unseen[i].key] = unseen[i].value

CopyInv == Fit /\ LastWritten /\ CopyCurrent

LEMMA HappensYields ==
    ASSUME TypeOK, Fit, NEW key, NEW value, [key |-> key, value |-> value] \in Changes,
           Happens(key, value)
    PROVE  \/ behind' /\ unseen' = <<>>
           \/ /\ ~ behind /\ ~ behind' /\ Len(unseen) \in Nat /\ DOMAIN unseen = 1 .. Len(unseen)
              /\ DOMAIN unseen' = 1 .. Len(unseen) + 1
              /\ \A i \in DOMAIN unseen : unseen'[i] = unseen[i]
              /\ unseen'[Len(unseen) + 1] = [key |-> key, value |-> value]
<1> DEFINE e == [key |-> key, value |-> value]
           history == Append(unseen, e)
<1>1. /\ DOMAIN history = 1 .. Len(unseen) + 1 /\ Len(unseen) \in Nat /\ DOMAIN unseen = 1 .. Len(unseen)
      /\ \A i \in DOMAIN unseen : history[i] = unseen[i]
      /\ history[Len(unseen) + 1] = e
  BY AppendProperties DEF TypeOK
<1>2. IF behind \/ Len(history) > Window
        THEN behind' = TRUE /\ unseen' = <<>>
        ELSE unseen' = history /\ UNCHANGED behind
  BY DEF Happens
<1> HIDE DEF history
<1>3. CASE behind \/ Len(history) > Window
  BY <1>2, <1>3
<1>4. CASE ~ (behind \/ Len(history) > Window)
  <2>1. unseen' = history /\ behind' = behind /\ ~ behind
    BY <1>2, <1>4
  <2> QED BY <1>1, <2>1
<1> QED BY <1>3, <1>4

LEMMA CopyWrite ==
    ASSUME TypeOK, CopyInv, NEW k \in Keys, NEW value \in ValuesOf(k), Write(k, value)
    PROVE  CopyInv'
<1> DEFINE n == Len(unseen) + 1
<1>1. [key |-> k, value |-> value] \in Changes /\ Happens(k, value) /\ cache' = cache
  BY DEF Write, Changes, ValuesOf
<1>2. store' = [store EXCEPT ![k] = value] /\ store' [k] = value /\ \A j \in Keys \ {k} : store'[j] = store[j]
  BY DEF Write, TypeOK
<1>3. \A j \in Keys : store'[j] \in ValuesOf(j)
  BY <1>2 DEF CopyInv, Fit
<1>4. CASE behind' /\ unseen' = <<>>
  BY <1>3, <1>4 DEF CopyInv, Fit, LastWritten, CopyCurrent, ValuesOf, Values, Records
<1>5. CASE /\ ~ behind /\ ~ behind' /\ Len(unseen) \in Nat /\ DOMAIN unseen = 1 .. Len(unseen)
           /\ DOMAIN unseen' = 1 .. n
           /\ \A i \in DOMAIN unseen : unseen'[i] = unseen[i]
           /\ unseen'[n] = [key |-> k, value |-> value]
  <2>1. Fit'
    BY <1>3, <1>5 DEF CopyInv, Fit, ValuesOf, Values, Records
  <2>2. ASSUME NEW i \in DOMAIN unseen', unseen'[i].key \in Keys,
               \A j \in DOMAIN unseen' : unseen'[j].key = unseen'[i].key => j <= i
        PROVE  store'[unseen'[i].key] = unseen'[i].value
    <3>1. CASE i = n
      BY <1>2, <1>5, <3>1
    <3>2. CASE i # n
      <4>1. i \in DOMAIN unseen /\ unseen'[i] = unseen[i] /\ ~ (n <= i) /\ n \in DOMAIN unseen'
        BY <1>5, <3>2
      <4>2. unseen[i].key # k
        BY <1>5, <2>2, <4>1
      <4>3. \A j \in DOMAIN unseen : unseen[j].key = unseen[i].key => j <= i
        BY <1>5, <2>2, <4>1
      <4> QED BY <1>2, <2>2, <4>1, <4>2, <4>3 DEF CopyInv, LastWritten
    <3> QED BY <3>1, <3>2
  <2>3. LastWritten'
    BY <2>2 DEF LastWritten
  <2>4. ASSUME NEW j \in Keys, store'[j] \in Records, {i \in DOMAIN unseen' : unseen'[i].key = j} = {}
        PROVE  \E i \in 1 .. Len(cache) : cache[i] = store'[j]
    <3>1. j # k
      BY <1>5, <2>4
    <3>2. {i \in DOMAIN unseen : unseen[i].key = j} = {}
      BY <1>5, <2>4
    <3> QED BY <1>2, <1>5, <2>4, <3>1, <3>2 DEF CopyInv, CopyCurrent, Written, Contains
  <2>5. CopyCurrent'
    BY <1>1, <2>4 DEF CopyCurrent, Written, Contains, Records
  <2> QED BY <2>1, <2>3, <2>5 DEF CopyInv
<1> QED BY <1>1, <1>4, <1>5, HappensYields DEF CopyInv

LEMMA CopyWriteElsewhere ==
    ASSUME TypeOK, CopyInv, WriteElsewhere
    PROVE  CopyInv'
<1> DEFINE n == Len(unseen) + 1
<1>1. /\ [key |-> Elsewhere, value |-> NoRecord] \in Changes
      /\ Happens(Elsewhere, NoRecord) /\ cache' = cache /\ store' = store
  BY DEF WriteElsewhere, Changes
<1>2. CASE behind' /\ unseen' = <<>>
  BY <1>1, <1>2 DEF CopyInv, Fit, LastWritten, CopyCurrent, ValuesOf, Values, Records
<1>3. CASE /\ ~ behind /\ ~ behind' /\ Len(unseen) \in Nat /\ DOMAIN unseen = 1 .. Len(unseen)
           /\ DOMAIN unseen' = 1 .. n
           /\ \A i \in DOMAIN unseen : unseen'[i] = unseen[i]
           /\ unseen'[n] = [key |-> Elsewhere, value |-> NoRecord]
  <2>1. \A i \in DOMAIN unseen' : unseen'[i].key \in Keys => i \in DOMAIN unseen /\ unseen'[i] = unseen[i]
    BY <1>3, EtcdWatchAssumption
  <2>2. Fit'
    BY <1>1, <1>3, <2>1 DEF CopyInv, Fit, ValuesOf, Values, Records
  <2>3. LastWritten'
    BY <1>1, <1>3, <2>1 DEF CopyInv, LastWritten
  <2>4. CopyCurrent'
    BY <1>1, <1>3, <2>1 DEF CopyInv, CopyCurrent, Written, Contains, Records
  <2> QED BY <2>2, <2>3, <2>4 DEF CopyInv
<1> QED BY <1>1, <1>2, <1>3, HappensYields DEF CopyInv

LEMMA CopyReset ==
    ASSUME TypeOK, CopyInv, WatchReset
    PROVE  CopyInv'
<1>1. PICK snapshot \in Snapshots : cache' = reset(cache, snapshot).cache
  BY DEF WatchReset
<1>2. PICK s : Holds(snapshot, s)
  BY SnapshotHolds DEF TypeOK
<1>3. cache' = snapshot
  BY <1>1, <1>2, ResetYields DEF TypeOK, Holds
<1>4. store' = store /\ unseen' = <<>> /\ ~ behind'
  BY DEF WatchReset, CopyInv, Fit
<1>5. Fit' /\ LastWritten'
  BY <1>4 DEF CopyInv, Fit, LastWritten, ValuesOf, Values, Records
<1>6. ASSUME NEW k \in Keys, store[k] \in Records
      PROVE  \E i \in 1 .. Len(cache') : cache'[i] = store[k]
  <2>1. PICK i \in DOMAIN s : s[i] = k
    BY <1>2, <1>6 DEF Holds
  <2>2. i \in 1 .. Len(snapshot) /\ snapshot[i] = store[k]
    BY <1>2, <2>1 DEF Holds
  <2> QED BY <1>3, <2>2
<1>7. CopyCurrent'
  BY <1>4, <1>6 DEF CopyCurrent, Contains, Records
<1> QED BY <1>5, <1>7 DEF CopyInv

LEMMA CopyEvent ==
    ASSUME NamesApart, TypeOK, CopyInv, WatchEvent
    PROVE  CopyInv'
<1>1. PICK n \in DOMAIN unseen :
         /\ unseen[n].key \in Keys /\ unseen[n].value # Malformed
         /\ \A j \in 1 .. n - 1 : unseen[j].key = Elsewhere
         /\ unseen' = SubSeq(unseen, n + 1, Len(unseen))
         /\ cache' = update(cache, unseen[n]).cache
  BY DEF WatchEvent
<1> DEFINE k == unseen[n].key
           r == unseen[n].value
           N == Len(unseen)
<1>2. /\ N \in Nat /\ DOMAIN unseen = 1 .. N /\ n \in 1 .. N /\ unseen[n] \in Changes
      /\ cache \in Seq(Records)
  BY DEF TypeOK
<1>3. /\ DOMAIN unseen' = 1 .. N - n
      /\ \A i \in 1 .. N - n : unseen'[i] = unseen[i + n]
  <2> DEFINE rest == SubSeq(unseen, n + 1, N)
  <2>1. /\ Len(unseen') = N - n /\ DOMAIN unseen' = 1 .. Len(unseen')
        /\ \A i \in 1 .. N - n : unseen'[i] = unseen[(n + 1) + i - 1]
    <3>1. unseen \in Seq(Changes) /\ n + 1 \in 1 .. N + 1 /\ N \in (n + 1) - 1 .. N
      BY <1>2 DEF TypeOK
    <3>2. Len(rest) = N - n /\ rest \in Seq(Changes)
      BY <1>2, <3>1, SubSeqProperties
    <3>3. \A i \in 1 .. Len(rest) : rest[i] = unseen[(n + 1) + i - 1]
      BY <1>2, <3>1, SubSeqProperties
    <3> HIDE DEF rest
    <3>4. DOMAIN rest = 1 .. Len(rest)
      BY <3>2
    <3> QED BY <1>1, <3>2, <3>3, <3>4 DEF rest
  <2>2. \A i \in 1 .. N - n : (n + 1) + i - 1 = i + n
    BY <1>2
  <2> QED BY <2>1, <2>2
<1>4. store' = store /\ ~ behind /\ ~ behind'
  BY DEF WatchEvent
<1>5. Fit'
  <2>1. \A i \in DOMAIN unseen' : i + n \in DOMAIN unseen /\ unseen'[i] = unseen[i + n]
    BY <1>2, <1>3
  <2> QED BY <1>4, <2>1 DEF CopyInv, Fit, ValuesOf, Values, Records
<1>6. ASSUME NEW i \in DOMAIN unseen', unseen'[i].key \in Keys,
             \A j \in DOMAIN unseen' : unseen'[j].key = unseen'[i].key => j <= i
      PROVE  store'[unseen'[i].key] = unseen'[i].value
  <2>1. i + n \in DOMAIN unseen /\ unseen'[i] = unseen[i + n] /\ i \in 1 .. N - n
    BY <1>2, <1>3
  <2>2. ASSUME NEW j \in DOMAIN unseen, unseen[j].key = unseen[i + n].key PROVE j <= i + n
    <3>1. CASE j <= n
      BY <1>2, <2>1, <3>1
    <3>2. CASE ~ (j <= n)
      <4>1. j - n \in DOMAIN unseen' /\ unseen'[j - n] = unseen[j]
        <5>1. j \in 1 .. N /\ n < j
          BY <1>2, <3>2
        <5>2. j - n \in 1 .. N - n /\ (j - n) + n = j
          BY <1>2, <5>1
        <5> QED BY <1>3, <5>2
      <4>2. j - n <= i
        BY <1>6, <2>1, <2>2, <4>1
      <4> QED BY <1>2, <2>1, <4>2
    <3> QED BY <3>1, <3>2
  <2> QED BY <1>4, <1>6, <2>1, <2>2 DEF CopyInv, LastWritten
<1>7. LastWritten'
  BY <1>6 DEF LastWritten
<1>8. ASSUME NEW j \in Keys, store[j] \in Records, {i \in DOMAIN unseen' : unseen'[i].key = j} = {}
      PROVE  \E i \in DOMAIN cache' : cache'[i] = store[j]
  <2>1. ASSUME NEW i \in DOMAIN unseen, unseen[i].key = j PROVE i = n
    <3>1. ~ (i < n)
      BY <1>1, <1>2, <2>1, EtcdWatchAssumption
    <3>2. ~ (n < i)
      <4> SUFFICES ASSUME n < i PROVE FALSE
        OBVIOUS
      <4>1. i - n \in DOMAIN unseen' /\ unseen'[i - n] = unseen[i]
        BY <1>2, <1>3
      <4> QED BY <1>8, <2>1, <4>1
    <3> QED BY <1>2, <3>1, <3>2
  <2>2. CASE j = k
    <3>1. store[j] = r
      BY <1>1, <1>2, <2>1, <2>2 DEF CopyInv, LastWritten
    <3>2. r # NoRecord
      BY <1>8, <3>1, EtcdWatchAssumption DEF Records
    <3>3. \E i \in DOMAIN update(cache, unseen[n]).cache : update(cache, unseen[n]).cache[i] = r
      BY <1>1, <1>2, <3>2, UpdateYields DEF Updates
    <3> QED BY <1>1, <3>1, <3>3
  <2>3. CASE j # k
    <3>1. {i \in DOMAIN unseen : unseen[i].key = j} = {}
      BY <2>1, <2>3
    <3>2. PICK i \in DOMAIN cache : cache[i] = store[j]
      BY <1>2, <1>4, <1>8, <3>1 DEF CopyInv, CopyCurrent, Written, Contains
    <3>3. CASE r = NoRecord
      BY <1>1, <1>2, <3>2, <3>3, UpdateYields DEF Updates
    <3>4. CASE r # NoRecord
      <4>1. r \in Records
        BY <1>1, <1>2, <3>4, UpdateYields DEF Updates
      <4>2. r.name \in NamesOf[k] /\ store[j].name \in NamesOf[j]
        BY <1>1, <1>8, <4>1 DEF CopyInv, Fit, ValuesOf
      <4>3. store[j].name # r.name
        BY <1>1, <2>3, <4>2 DEF NamesApart
      <4>4. \A l \in DOMAIN cache : cache[l].name # r.name
               => \E m \in DOMAIN update(cache, unseen[n]).cache : update(cache, unseen[n]).cache[m] = cache[l]
        BY <1>1, <1>2, <3>4, UpdateYields DEF Updates
      <4> QED BY <1>1, <3>2, <4>3, <4>4
    <3> QED BY <3>3, <3>4
  <2> QED BY <2>2, <2>3
<1>9. CopyCurrent'
  <2>1. cache' \in Seq(Records)
    BY <1>1, <1>2, UpdateType
  <2>2. DOMAIN cache' = 1 .. Len(cache')
    BY <2>1
  <2> QED BY <1>4, <1>8, <2>2 DEF CopyCurrent, Written, Contains, Records
<1> QED BY <1>5, <1>7, <1>9 DEF CopyInv

LEMMA CopyStep ==
    ASSUME NamesApart, TypeOK, CopyInv, [Next \/ StartWatch]_vars
    PROVE  CopyInv'
<1>1. CASE Receive
  BY <1>1 DEF Receive, CopyInv, Fit, LastWritten, CopyCurrent, Written, Contains, ValuesOf, Values, Records
<1>2. CASE UNCHANGED vars
  BY <1>2 DEF vars, CopyInv, Fit, LastWritten, CopyCurrent, Written, Contains, ValuesOf, Values, Records
<1>3. CASE StartWatch
  BY <1>3 DEF StartWatch, CopyInv, Fit, LastWritten, CopyCurrent, ValuesOf, Values, Records
<1> QED BY <1>1, <1>2, <1>3, CopyWrite, CopyWriteElsewhere, CopyReset, CopyEvent DEF Next

(* While the watch is not behind, its copy and the events it has not seen    *)
(* make up the directory: for any keys, whose names differ, any record and   *)
(* any length of etcd's history, neither a snapshot nor a cursor moved past  *)
(* an event loses a write.                                                   *)
THEOREM CopyIsCurrent ==
    ASSUME NamesApart
    PROVE  (Spec => []CopyCurrent) /\ (RestartingSpec => []CopyCurrent)
<1>1. Init => CopyInv
  BY DEF Init, CopyInv, Fit, LastWritten, CopyCurrent, ValuesOf, Values, Records
<1>2. TypeOK /\ CopyInv /\ [Next \/ StartWatch]_vars => CopyInv'
  BY CopyStep
<1>3. CopyInv => CopyCurrent
  BY DEF CopyInv
<1> QED BY <1>1, <1>2, <1>3, TypeCorrect, RunningRestarts, PTL DEF RestartingSpec

-----------------------------------------------------------------------------
(* Nothing slips into the copy unannounced. *)

(* The copy has one record of each name; a new record is announced with its *)
(* data, and nothing in the copy is being announced as removed.             *)
AnnouncedInv ==
    /\ NamesDiffer(cache)
    /\ \A j \in DOMAIN batch :
          /\ batch[j].type = "Added" => batch[j].rec \in Records
          /\ batch[j].type = "Removed" => \A i \in DOMAIN cache : cache[i].name # batch[j].rec.name
    /\ Announced

LEMMA AnnouncedReset ==
    ASSUME NamesApart, TypeOK, Fit, AnnouncedInv, WatchReset
    PROVE  AnnouncedInv'
<1>1. PICK snapshot \in Snapshots : /\ cache' = reset(cache, snapshot).cache
                                    /\ batch' = reset(cache, snapshot).batch
  BY DEF WatchReset
<1>2. PICK s : Holds(snapshot, s)
  BY SnapshotHolds DEF TypeOK
<1>3. snapshot \in Seq(Records) /\ cache \in Seq(Records) /\ NamesDiffer(cache)
  BY <1>2 DEF TypeOK, Holds, AnnouncedInv
<1> DEFINE b == reset(cache, snapshot).batch
<1>4. reset(cache, snapshot).cache = snapshot /\ Announces(b, cache, snapshot)
  BY <1>3, ResetYields
<1> HIDE DEF b
<1>5. cache' = snapshot /\ batch' = b /\ batch = <<>> /\ told' = told
  BY <1>1, <1>4 DEF WatchReset, b
<1>6. NamesDiffer(snapshot)
  <2> SUFFICES ASSUME NEW i \in DOMAIN snapshot, NEW j \in DOMAIN snapshot,
                      snapshot[i].name = snapshot[j].name
               PROVE  i = j
    BY DEF NamesDiffer
  <2>1. snapshot[i].name \in NamesOf[s[i]] /\ snapshot[j].name \in NamesOf[s[j]]
    BY <1>2 DEF Holds, Fit, ValuesOf
  <2>2. s[i] = s[j]
    BY <1>2, <2>1 DEF Holds, NamesApart
  <2> QED BY <1>2, <2>2 DEF Holds
<1>7. ASSUME NEW k \in DOMAIN b
      PROVE  /\ b[k].type = "Added" => b[k].rec \in Records
             /\ b[k].type = "Removed" => \A i \in DOMAIN snapshot : snapshot[i].name # b[k].rec.name
  <2>1. \A i \in DOMAIN snapshot : snapshot[i] \in Records
    BY <1>3
  <2> QED BY <1>3, <1>4, <2>1 DEF Announces, Added, Removed
<1>8. ASSUME NEW i \in DOMAIN snapshot
      PROVE  \/ told[snapshot[i].name] # NoData
             \/ \E k \in DOMAIN b : b[k].type = "Added" /\ b[k].rec.name = snapshot[i].name
  <2>1. CASE \E j \in DOMAIN cache : cache[j].name = snapshot[i].name
    BY <1>5, <2>1 DEF AnnouncedInv, Announced
  <2>2. CASE \E k \in DOMAIN b : b[k] = Added(snapshot[i])
    BY <2>2 DEF Added
  <2> QED BY <1>4, <2>1, <2>2 DEF Announces
<1> QED BY <1>5, <1>6, <1>7, <1>8 DEF AnnouncedInv, Announced, Records, NamesDiffer

LEMMA AnnouncedEvent ==
    ASSUME TypeOK, AnnouncedInv, WatchEvent
    PROVE  AnnouncedInv'
<1>1. PICK n \in DOMAIN unseen :
         /\ unseen[n].key \in Keys /\ unseen[n].value # Malformed
         /\ cache' = update(cache, unseen[n]).cache /\ batch' = update(cache, unseen[n]).batch
  BY DEF WatchEvent
<1> DEFINE r == unseen[n].value
           label == [name |-> KeyPath[unseen[n].key], data |-> NoData]
<1>2. unseen[n] \in Changes /\ cache \in Seq(Records) /\ batch = <<>> /\ told' = told
  BY DEF TypeOK, WatchEvent
<1>3. CASE r = NoRecord
  <2>1. cache' = cache /\ batch' = <<Removed(label)>>
    BY <1>1, <1>2, <1>3, UpdateYields DEF Updates
  <2>2. \A i \in DOMAIN cache : cache[i].name # label.name
    <3>1. ASSUME NEW i \in DOMAIN cache PROVE cache[i].name \in Names
      <4>1. cache[i] \in Records
        BY <1>2
      <4> QED BY <4>1 DEF Records
    <3> QED BY <1>1, <3>1, EtcdWatchAssumption
  <2>3. \A j \in DOMAIN batch' : batch'[j].type = "Removed" /\ batch'[j].rec = label
    BY <2>1 DEF Removed
  <2>4. \A i \in DOMAIN cache : told[cache[i].name] # NoData
    BY <1>2 DEF AnnouncedInv, Announced
  <2> QED BY <1>2, <2>1, <2>2, <2>3, <2>4 DEF AnnouncedInv, Announced, NamesDiffer
<1>4. CASE r # NoRecord
  <2>1. /\ r \in Records /\ batch' = <<Added(r)>> /\ NamesDiffer(cache')
        /\ \A k \in DOMAIN cache' : cache'[k] = r \/ \E j \in DOMAIN cache : cache'[k] = cache[j]
    <3> DEFINE u == update(cache, unseen[n])
    <3>1. Updates(u, cache, unseen[n])
      BY <1>1, <1>2, UpdateYields
    <3> HIDE DEF u
    <3>2. cache' = u.cache /\ batch' = u.batch
      BY <1>1 DEF u
    <3> QED BY <1>4, <3>1, <3>2 DEF Updates, AnnouncedInv, NamesDiffer
  <2>2. /\ 1 \in DOMAIN batch' /\ batch'[1].type = "Added" /\ batch'[1].rec = r
        /\ \A j \in DOMAIN batch' : batch'[j].type = "Added" /\ batch'[j].rec = r
    BY <2>1 DEF Added
  <2>3. ASSUME NEW k \in DOMAIN cache'
        PROVE  \/ told'[cache'[k].name] # NoData
               \/ \E j \in DOMAIN batch' : batch'[j].type = "Added" /\ batch'[j].rec.name = cache'[k].name
    <3>1. CASE cache'[k] = r
      BY <2>2, <3>1
    <3>2. CASE \E j \in DOMAIN cache : cache'[k] = cache[j]
      BY <1>2, <3>2 DEF AnnouncedInv, Announced
    <3> QED BY <2>1, <3>1, <3>2
  <2> QED BY <2>1, <2>2, <2>3 DEF AnnouncedInv, Announced, NamesDiffer, Records
<1> QED BY <1>3, <1>4

LEMMA AnnouncedReceive ==
    ASSUME TypeOK, AnnouncedInv, Receive
    PROVE  AnnouncedInv'
<1>1. cache' = cache /\ batch' = <<>> /\ told' = Tells(told, batch)[Len(batch)]
  BY DEF Receive
<1>2. told \in Tellings /\ batch \in Seq(Events) /\ cache \in Seq(Records)
  BY DEF TypeOK, Tellings
<1>3. ASSUME NEW i \in DOMAIN cache PROVE told'[cache[i].name] # NoData
  <2> DEFINE name == cache[i].name
  <2>1. name \in Labels
    <3>1. cache[i] \in Records
      BY <1>2
    <3> QED BY <3>1 DEF Records, Labels
  <2>2. ASSUME NEW j \in DOMAIN batch, batch[j].rec.name = name
        PROVE  batch[j].type = "Added" /\ batch[j].rec.data # NoData
    <3>1. batch[j] \in Events
      BY <1>2
    <3>2. batch[j].type = "Added"
      BY <2>2, <3>1 DEF Events, AnnouncedInv
    <3>3. batch[j].rec.data \in Data
      BY <3>2 DEF AnnouncedInv, Records
    <3> QED BY <3>2, <3>3, EtcdWatchAssumption
  <2>3. told[name] # NoData \/ \E j \in DOMAIN batch : batch[j].rec.name = name
    BY DEF AnnouncedInv, Announced
  <2> HIDE DEF name
  <2>4. Tells(told, batch)[Len(batch)][name] # NoData
    BY <1>2, <2>1, <2>2, <2>3, TellsKnown
  <2> QED BY <1>1, <2>4 DEF name
<1> QED BY <1>1, <1>3 DEF AnnouncedInv, Announced, NamesDiffer

(* Whatever the copy holds, the handler was told of or is being told of: no *)
(* number of snapshots compared by name, of records that come back and of   *)
(* batches that wait brings a record into the copy in silence.              *)
THEOREM CopyIsAnnounced ==
    ASSUME NamesApart
    PROVE  (Spec => []Announced) /\ (RestartingSpec => []Announced)
<1> DEFINE Inv == Fit /\ AnnouncedInv
<1>1. Init => CopyInv /\ Inv
  BY DEF Init, CopyInv, Fit, LastWritten, CopyCurrent, ValuesOf, Values, Records,
         AnnouncedInv, Announced, NamesDiffer
<1>2. ASSUME TypeOK, CopyInv, AnnouncedInv, [Next \/ StartWatch]_vars PROVE CopyInv' /\ AnnouncedInv'
  <2>1. CopyInv' /\ Fit
    BY <1>2, CopyStep DEF CopyInv
  <2>2. CASE UNCHANGED <<cache, batch, told>>
    BY <1>2, <2>1, <2>2 DEF AnnouncedInv, Announced, NamesDiffer, Records
  <2>3. CASE WatchReset \/ WatchEvent \/ Receive
    BY <1>2, <2>1, <2>3, AnnouncedReset, AnnouncedEvent, AnnouncedReceive
  <2>4. CASE StartWatch
    BY <2>1, <2>4 DEF StartWatch, AnnouncedInv, Announced, NamesDiffer
  <2>5. WatchReset \/ WatchEvent \/ Receive \/ StartWatch \/ UNCHANGED <<cache, batch, told>>
    BY <1>2 DEF Next, vars, Write, WriteElsewhere
  <2> QED BY <2>1, <2>2, <2>3, <2>4, <2>5
<1>3. AnnouncedInv => Announced
  BY DEF AnnouncedInv
<1> QED BY <1>1, <1>2, <1>3, TypeCorrect, RunningRestarts, PTL DEF RestartingSpec
-----------------------------------------------------------------------------
(* The tunnels of a node. *)

LEMMA HandleEventType ==
    ASSUME NEW f \in Flows, NEW e \in Events
    PROVE  HandleEvent(f, e) \in SUBSET Flows
<1> DEFINE d == e.rec.data
<1>1. d \in Data \cup {NoData}
  BY DEF Events
<1>2. CASE d = NoData \/ d.ip = LocalIP
  BY <1>2 DEF HandleEvent
<1>3. CASE d # NoData /\ d.ip # LocalIP
  <2>1. d.ip \in Remote /\ d.subnet \in Subnets \cup {NoSubnet}
    BY <1>1, <1>3, NodeSubnetsAssumption DEF Remote
  <2> HIDE DEF d
  <2>2. AddHostSubnetRules(f, d) \subseteq Flows
    <3> DEFINE in == [f EXCEPT !.ingress = @ \cup {d.ip}]
    <3>1. in \in Flows
      BY <2>1 DEF Flows
    <3>2. CASE d.subnet = NoSubnet
      BY <3>1, <3>2 DEF AddHostSubnetRules
    <3>3. CASE d.subnet # NoSubnet
      <4>1. [in EXCEPT !.tunnels[d.subnet] = d.ip, !.added = @ \cup {d.ip}] \in Flows
        <5> HIDE DEF in
        <5> QED BY <2>1, <3>1, <3>3 DEF Flows
      <4> QED BY <3>1, <3>3, <4>1 DEF AddHostSubnetRules
    <3> QED BY <3>2, <3>3
  <2>3. DeleteHostSubnetRules([f EXCEPT !.added = @ \ {d.ip}], d) \subseteq Flows
    <3> DEFINE g == [f EXCEPT !.added = @ \ {d.ip}]
               t == IF d.subnet = NoSubnet THEN g.tunnels ELSE [g.tunnels EXCEPT ![d.subnet] = NoIP]
    <3>1. g \in Flows
      BY DEF Flows
    <3> HIDE DEF g
    <3>2. t \in [Subnets -> Remote \cup {NoIP}]
      BY <2>1, <3>1 DEF Flows
    <3>3. DeleteHostSubnetRules(g, d) \subseteq
              {[g EXCEPT !.ingress = @ \ {d.ip}, !.tunnels = t], g, [g EXCEPT !.ingress = @ \ {d.ip}]}
      BY <3>1 DEF DeleteHostSubnetRules, Flows
    <3> HIDE DEF t
    <3>4. /\ [g EXCEPT !.ingress = @ \ {d.ip}, !.tunnels = t] \in Flows
          /\ [g EXCEPT !.ingress = @ \ {d.ip}] \in Flows
      BY <3>1, <3>2 DEF Flows
    <3> QED BY <3>1, <3>3, <3>4 DEF g
  <2> QED BY <1>3, <2>2, <2>3 DEF HandleEvent, d
<1> QED BY <1>2, <1>3

LEMMA HandledType ==
    ASSUME NEW f \in Flows, NEW b \in Seq(Events)
    PROVE  Handled(f, b)[Len(b)] \in SUBSET Flows
<1> DEFINE N == Len(b)
           After(G, n) == UNION {HandleEvent(g, b[n]) : g \in G}
           step == [n \in 1 .. N |-> [G \in SUBSET Flows |-> After(G, n)]]
           Body(h) == [n \in 0 .. N |-> IF n = 0 THEN {f} ELSE After(h[n - 1], n)]
           h == Handled(f, b)
<1>1. N \in Nat /\ \A n \in 1 .. N : b[n] \in Events
  OBVIOUS
<1>2. ASSUME NEW n \in 1 .. N, NEW G \in SUBSET Flows PROVE After(G, n) \in SUBSET Flows
  BY <1>1, HandleEventType
<1> HIDE DEF After
<1>3. step \in [1 .. N -> [SUBSET Flows -> SUBSET Flows]]
  BY <1>2
<1>4. PICK g \in [0 .. N -> SUBSET Flows] : Iterates(g, {f}, step, N)
  <2>1. {f} \in SUBSET Flows
    OBVIOUS
  <2> HIDE DEF step, N, Body, h
  <2> QED BY <1>1, <1>3, <2>1, Recursion
<1>5. ASSUME NEW n \in 1 .. N PROVE g[n] = After(g[n - 1], n)
  <2>1. n - 1 \in 0 .. N
    BY <1>1
  <2>2. step[n][g[n - 1]] = After(g[n - 1], n)
    BY <2>1
  <2> QED BY <1>4, <2>2 DEF Iterates
<1>6. g = Body(g)
  <2>1. \A n \in 0 .. N : g[n] = IF n = 0 THEN {f} ELSE After(g[n - 1], n)
    BY <1>4, <1>5 DEF Iterates
  <2> QED BY <2>1
<1>7. h = CHOOSE x : x = Body(x)
  BY DEF Handled, After
<1>8. h = Body(h)
  <2> HIDE DEF Body, h
  <2> QED BY <1>6, <1>7
<1> DEFINE T == {n \in 0 .. N : h[n] \in SUBSET Flows}
<1>9. T = 0 .. N
  <2> HIDE DEF h
  <2>1. 0 \in T
    BY <1>1, <1>8
  <2>2. ASSUME NEW n \in T, n < N PROVE n + 1 \in T
    <3>1. n \in 0 .. N /\ n + 1 \in 1 .. N /\ (n + 1) - 1 = n /\ n + 1 \in 0 .. N /\ n + 1 # 0
      <4> HIDE DEF N, Body, step
      <4> QED BY <1>1, <2>2
    <3>2. h[n + 1] = After(h[n], n + 1)
      BY <1>8, <3>1
    <3> QED BY <1>2, <3>1, <3>2
  <2>3. T \in SUBSET (0 .. N)
    OBVIOUS
  <2> HIDE DEF T, N
  <2> QED BY <1>1, <2>1, <2>2, <2>3, BoundedInduction
<1> QED BY <1>1, <1>9

(* A node's watch is a watch that may start again, over the records of its *)
(* network.                                                                *)
LEMMA NodeWatchRestarts == NodeSpec => RestartingSpec
<1>1. NodeInit => Init
  BY DEF NodeInit
<1>2. [NodeNext]_nodeVars => [Next \/ StartWatch]_vars
  <2> SUFFICES ASSUME [NodeNext]_nodeVars PROVE [Next \/ StartWatch]_vars
    OBVIOUS
  <2>1. ASSUME NEW k \in Keys, NEW value \in RecordsOf(k) \cup {NoRecord}, Write(k, value) PROVE Next
    <3>1. value \in ValuesOf(k)
      BY EtcdWatchAssumption DEF RecordsOf, ValuesOf, Values, Records
    <3> QED BY <2>1, <3>1 DEF Next
  <2>2. UNCHANGED nodeVars => UNCHANGED vars
    BY DEF nodeVars
  <2> QED BY <2>1, <2>2 DEF NodeNext, Environment, NodeWatch, NodeReceive, Restart, Next
<1> QED BY <1>1, <1>2, PTL DEF NodeSpec, RestartingSpec

LEMMA NodeTypeStep ==
    ASSUME NodeTypeOK, [NodeNext]_nodeVars, TypeOK'
    PROVE  NodeTypeOK'
<1>1. CASE Environment \/ NodeWatch \/ UNCHANGED nodeVars
  BY <1>1 DEF Environment, NodeWatch, nodeVars, NodeTypeOK
<1>2. CASE NodeReceive
  <2> DEFINE before == [ingress |-> ingress, tunnels |-> tunnels, added |-> {}]
  <2>1. before \in Flows /\ batch \in Seq(Events)
    BY DEF NodeTypeOK, TypeOK, Flows
  <2>2. PICK f \in Handled(before, batch)[Len(batch)] : ingress' = f.ingress /\ tunnels' = f.tunnels
    BY <1>2 DEF NodeReceive, nodeHandleSubnetEvent
  <2> HIDE DEF before
  <2>3. f \in Flows
    BY <2>1, <2>2, HandledType
  <2> QED BY <1>2, <2>2, <2>3 DEF NodeReceive, NodeTypeOK, Flows
<1>3. CASE Restart
  BY <1>3, NodeSubnetsAssumption DEF Restart, NodeTypeOK
<1> QED BY <1>1, <1>2, <1>3 DEF NodeNext

(* Whatever fails and however often the node restarts, its tables hold hosts *)
(* of the network and never the node itself: no tunnel leads back to where   *)
(* it starts, and none is written for an event without a record.             *)
THEOREM NodeTypeCorrect == NodeSpec => []NodeTypeOK
<1>1. NodeInit => NodeTypeOK \/ ~ TypeOK
  BY NodeSubnetsAssumption DEF NodeInit, NodeTypeOK
<1>2. NodeTypeOK /\ [NodeNext]_nodeVars /\ TypeOK' => NodeTypeOK'
  BY NodeTypeStep
<1>3. NodeSpec => []TypeOK
  BY NodeWatchRestarts, TypeCorrect, PTL
<1> QED BY <1>1, <1>2, <1>3, PTL DEF NodeSpec

(* The watch of a node loses no write and takes no record in silence, across *)
(* the restarts of the node, provided no two keys carry records of one name. *)
THEOREM NodeWatchCorrect ==
    ASSUME NamesApart
    PROVE  NodeSpec => [](CopyCurrent /\ Announced)
BY NodeWatchRestarts, CopyIsCurrent, CopyIsAnnounced, PTL

=============================================================================
