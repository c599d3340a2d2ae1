-------------------------- MODULE OracleCodeProofs --------------------------
(***************************************************************************)
(* Proofs about OracleCode: an oracle that is transformed can be written   *)
(* (WriterNeverPanics), its samples are numbered by their places           *)
(* (OneCounterPerSample), and its term has no unknown identifier           *)
(* (TermIsClosed), for every text.                                         *)
(*                                                                         *)
(* The transformations are recursive functions on code.  They are shown to *)
(* be what they are written as by a theorem about recursion along ranks:   *)
(* E is what is written, with the function it calls as a parameter, and V  *)
(* what each result is in.  The name of the function with "Of" is what is  *)
(* written; the lemma "Unfold" says that it holds.  Then comes what each   *)
(* transformation leaves of code, what it leaves of the flow of            *)
(* assignments, what is free in a term, and then the invariants.           *)
(***************************************************************************)
EXTENDS OracleCode, SequenceTheorems, FunctionTheorems, FiniteSetTheorems, WellFoundedInduction, TLAPS

-----------------------------------------------------------------------------
(* Functions by recursion along ranks: they exist, and are unique.           *)

\* The lexicographic order of pairs of numbers.
Below(p, q) == p[1] < q[1] \/ (p[1] = q[1] /\ p[2] < q[2])

\* A nonempty set of numbers has a least one.
LEMMA Least ==
  ASSUME NEW S \in SUBSET Nat, S # {}
  PROVE  \E x \in S : \A y \in S : x <= y
<1> DEFINE R == {p \in Nat \X Nat : p[1] < p[2]}
<1>1. IsWellFoundedOn(R, Nat)
  BY NatLessThanWellFounded DEF OpToRel
<1>2. \A a, b \in Nat : a < b => <<a, b>> \in R
  OBVIOUS
<1> HIDE DEF R
<1>3. PICK x \in S : \A y \in S : ~(<<y, x>> \in R)
  BY <1>1, WFMin
<1>4. ASSUME NEW y \in S PROVE x <= y
  <2>1. x \in Nat /\ y \in Nat /\ ~(y < x)
    BY <1>2, <1>3
  <2> QED
    BY <2>1
<1> QED
  BY <1>4

\* Below is a strict order.
LEMMA BelowTransitive ==
  ASSUME NEW p \in Nat \X Nat, NEW q \in Nat \X Nat, NEW r \in Nat \X Nat
  PROVE  /\ Below(p, q) /\ Below(q, r) => Below(p, r)
         /\ ~Below(p, p)
BY DEF Below

\* Induction along ranks: a set that holds whatever has all of smaller rank in
\* it holds everything.
LEMMA RankInduction ==
  ASSUME NEW T, NEW rk \in [T -> Nat \X Nat], NEW S,
         \A x \in T : (\A y \in T : Below(rk[y], rk[x]) => y \in S) => x \in S
  PROVE  T \subseteq S
<1> SUFFICES ASSUME NEW z \in T, z \notin S PROVE FALSE
  OBVIOUS
<1> DEFINE Bad == {x \in T : x \notin S}
           Firsts == {rk[x][1] : x \in Bad}
<1>1. PICK m \in Firsts : \A n \in Firsts : m <= n
  <2>1. Firsts \in SUBSET Nat /\ Firsts # {}
    OBVIOUS
  <2> HIDE DEF Firsts
  <2> QED
    BY <2>1, Least
<1> DEFINE Seconds == {rk[x][2] : x \in {y \in Bad : rk[y][1] = m}}
<1>2. PICK k \in Seconds : \A n \in Seconds : k <= n
  <2>1. PICK w \in Bad : rk[w][1] = m
    BY <1>1
  <2>2. rk[w][2] \in Seconds
    BY <2>1
  <2>3. \A y \in T : rk[y][2] \in Nat
    OBVIOUS
  <2>4. Seconds \in SUBSET Nat /\ Seconds # {}
    <3>1. Seconds # {}
      BY <2>2
    <3>2. \A n \in Seconds : n \in Nat
      BY <2>3
    <3> QED
      BY <3>1, <3>2
  <2> HIDE DEF Seconds
  <2> QED
    BY <2>4, Least
<1>3. PICK x \in Bad : rk[x][1] = m /\ rk[x][2] = k
  OBVIOUS
<1>4. ASSUME NEW y \in T, Below(rk[y], rk[x]) PROVE y \in S
  <2>1. rk[y] \in Nat \X Nat /\ rk[x] \in Nat \X Nat
    OBVIOUS
  <2> SUFFICES ASSUME y \notin S PROVE FALSE
    OBVIOUS
  <2>2. rk[y][1] \in Firsts
    OBVIOUS
  <2>3. m <= rk[y][1]
    BY <1>1, <2>2
  <2>4. rk[y][1] = m /\ rk[y][2] < k
    <3> HIDE DEF Firsts, Seconds, Bad
    <3> QED
      BY <1>3, <1>4, <2>1, <2>3 DEF Below
  <2>5. rk[y][2] \in Seconds
    BY <2>4
  <2>6. k <= rk[y][2]
    BY <1>2, <2>5
  <2> HIDE DEF Firsts, Seconds, Bad
  <2> QED
    BY <1>3, <2>1, <2>4, <2>6
<1> QED
  BY <1>3, <1>4

AgreeBelow(T, rk, g, h, x) == \A y \in T : Below(rk[y], rk[x]) => g[y] = h[y]

\* Functions that agree wherever they agree on all of smaller rank are equal.
LEMMA RankUnique ==
  ASSUME NEW T, NEW rk \in [T -> Nat \X Nat], NEW f, NEW h,
         \A x \in T : AgreeBelow(T, rk, f, h, x) => f[x] = h[x]
  PROVE  \A x \in T : f[x] = h[x]
<1> DEFINE S == {x \in T : f[x] = h[x]}
<1>1. \A x \in T : (\A y \in T : Below(rk[y], rk[x]) => y \in S) => x \in S
  BY DEF AgreeBelow
<1> HIDE DEF S
<1>2. T \subseteq S
  BY <1>1, RankInduction
<1> QED
  BY <1>2 DEF S

-----------------------------------------------------------------------------
\* Functions on T whose values are in the sets V[x].
Typed(T, V) == {g \in [T -> UNION {V[x] : x \in T}] : \A x \in T : g[x] \in V[x]}

\* g satisfies the equation g[y] = E[<<y, g>>] at x and wherever the rank is smaller.
SolvesTo(T, rk, E, g, x) ==
  \A y \in T : y = x \/ Below(rk[y], rk[x]) => g[y] = E[<<y, g>>]

Recurses(T, rk, V, E) ==
  /\ rk \in [T -> Nat \X Nat]
  /\ \A x \in T : V[x] # {}
  /\ \A x \in T, g \in Typed(T, V) : E[<<x, g>>] \in V[x]
  /\ \A x \in T : \A g, h \in Typed(T, V) : AgreeBelow(T, rk, g, h, x) => E[<<x, g>>] = E[<<x, h>>]

\* Two solutions agree as far as both go.
LEMMA SolutionsAgree ==
  ASSUME NEW T, NEW rk, NEW V, NEW E, Recurses(T, rk, V, E)
  PROVE  \A x \in T : \A g, h \in Typed(T, V) :
           SolvesTo(T, rk, E, g, x) /\ SolvesTo(T, rk, E, h, x) => g[x] = h[x]
<1> DEFINE S == {x \in T : \A g, h \in Typed(T, V) :
                   SolvesTo(T, rk, E, g, x) /\ SolvesTo(T, rk, E, h, x) => g[x] = h[x]}
<1>1. ASSUME NEW x \in T, \A y \in T : Below(rk[y], rk[x]) => y \in S
      PROVE  x \in S
  <2> SUFFICES ASSUME NEW g \in Typed(T, V), NEW h \in Typed(T, V),
                      SolvesTo(T, rk, E, g, x), SolvesTo(T, rk, E, h, x)
               PROVE  g[x] = h[x]
    OBVIOUS
  <2>1. ASSUME NEW y \in T, Below(rk[y], rk[x]) PROVE g[y] = h[y]
    <3>1. SolvesTo(T, rk, E, g, y) /\ SolvesTo(T, rk, E, h, y)
      <4>1. \A w \in T : w = y \/ Below(rk[w], rk[y]) => Below(rk[w], rk[x])
        BY <2>1, BelowTransitive DEF Recurses
      <4> QED
        BY <4>1 DEF SolvesTo
    <3> QED
      BY <1>1, <2>1, <3>1
  <2>2. E[<<x, g>>] = E[<<x, h>>]
    BY <2>1 DEF Recurses, AgreeBelow
  <2> QED
    BY <2>2 DEF SolvesTo
<1> HIDE DEF S
<1>2. T \subseteq S
  BY <1>1, RankInduction DEF Recurses
<1> QED
  BY <1>2 DEF S

\* The solution that goes up to each x, pieced together from those below it.
LEMMA SolutionsExist ==
  ASSUME NEW T, NEW rk, NEW V, NEW E, Recurses(T, rk, V, E)
  PROVE  \A x \in T : \E g \in Typed(T, V) : SolvesTo(T, rk, E, g, x)
<1> DEFINE S == {x \in T : \E g \in Typed(T, V) : SolvesTo(T, rk, E, g, x)}
<1>1. ASSUME NEW x \in T, \A y \in T : Below(rk[y], rk[x]) => y \in S
      PROVE  x \in S
  <2> DEFINE Sol(y) == CHOOSE g \in Typed(T, V) : SolvesTo(T, rk, E, g, y)
             f == [y \in T |-> IF Below(rk[y], rk[x]) THEN Sol(y)[y] ELSE CHOOSE v \in V[y] : TRUE]
             h == [y \in T |-> IF y = x THEN E[<<x, f>>] ELSE f[y]]
  <2>1. ASSUME NEW y \in T, Below(rk[y], rk[x])
        PROVE  Sol(y) \in Typed(T, V) /\ SolvesTo(T, rk, E, Sol(y), y)
    BY <1>1, <2>1
  <2> HIDE DEF Sol
  <2>2. f \in Typed(T, V)
    <3>1. \A y \in T : f[y] \in V[y]
      BY <2>1 DEF Typed, Recurses
    <3> QED
      BY <3>1 DEF Typed
  <2>3. \A y \in T : Below(rk[y], rk[x]) => f[y] = Sol(y)[y]
    OBVIOUS
  <2> HIDE DEF f
  <2>4. h \in Typed(T, V)
    <3>1. E[<<x, f>>] \in V[x]
      BY <2>2 DEF Recurses
    <3>2. \A y \in T : h[y] \in V[y]
      BY <2>2, <3>1 DEF Typed
    <3> QED
      BY <3>2 DEF Typed
  <2>5. h[x] = E[<<x, f>>] /\ \A y \in T : y # x => h[y] = f[y]
    OBVIOUS
  <2>6. \A y \in T : Below(rk[y], rk[x]) => y # x
    BY BelowTransitive DEF Recurses
  <2> HIDE DEF h
  <2>7. h[x] = E[<<x, h>>]
    <3>1. AgreeBelow(T, rk, f, h, x)
      BY <2>5, <2>6 DEF AgreeBelow
    <3> QED
      BY <2>2, <2>4, <2>5, <3>1 DEF Recurses
  <2>8. ASSUME NEW y \in T, Below(rk[y], rk[x])
        PROVE  h[y] = E[<<y, h>>]
    <3>1. ASSUME NEW w \in T, Below(rk[w], rk[y])
          PROVE  Sol(y)[w] = h[w]
      <4>1. Below(rk[w], rk[x])
        BY <2>8, <3>1, BelowTransitive DEF Recurses
      <4>2. SolvesTo(T, rk, E, Sol(y), w)
        <5>1. \A u \in T : u = w \/ Below(rk[u], rk[w]) => Below(rk[u], rk[y])
          BY <3>1, BelowTransitive DEF Recurses
        <5> QED
          BY <2>1, <2>8, <5>1 DEF SolvesTo
      <4>3. Sol(y)[w] = Sol(w)[w]
        BY <2>1, <2>8, <4>1, <4>2, SolutionsAgree
      <4> QED
        BY <2>3, <2>5, <2>6, <4>1, <4>3
    <3>2. AgreeBelow(T, rk, Sol(y), h, y)
      BY <3>1 DEF AgreeBelow
    <3>3. E[<<y, Sol(y)>>] = E[<<y, h>>]
      BY <2>1, <2>4, <2>8, <3>2 DEF Recurses
    <3>4. Sol(y)[y] = E[<<y, Sol(y)>>]
      BY <2>1, <2>8 DEF SolvesTo
    <3> QED
      BY <2>3, <2>5, <2>6, <2>8, <3>3, <3>4
  <2>9. SolvesTo(T, rk, E, h, x)
    BY <2>7, <2>8 DEF SolvesTo
  <2> QED
    BY <2>4, <2>9
<1> HIDE DEF S
<1>2. T \subseteq S
  BY <1>1, RankInduction DEF Recurses
<1> QED
  BY <1>2 DEF S

\* What is defined at each x from its values at smaller ranks is a function.
LEMMA RecursionExists ==
  ASSUME NEW T, NEW rk, NEW V, NEW E, Recurses(T, rk, V, E)
  PROVE  \E f \in Typed(T, V) : f = [x \in T |-> E[<<x, f>>]]
<1> DEFINE Sol(y) == CHOOSE g \in Typed(T, V) : SolvesTo(T, rk, E, g, y)
           f == [y \in T |-> Sol(y)[y]]
<1>1. \A y \in T : Sol(y) \in Typed(T, V) /\ SolvesTo(T, rk, E, Sol(y), y)
  BY SolutionsExist
<1> HIDE DEF Sol
<1>2. f \in Typed(T, V)
  <2>1. \A y \in T : f[y] \in V[y]
    BY <1>1 DEF Typed
  <2> QED
    BY <2>1 DEF Typed
<1>3. \A y \in T : f[y] = Sol(y)[y]
  OBVIOUS
<1>4. f = [y \in T |-> f[y]]
  OBVIOUS
<1> HIDE DEF f
<1>5. ASSUME NEW x \in T PROVE f[x] = E[<<x, f>>]
  <2>1. ASSUME NEW y \in T, Below(rk[y], rk[x])
        PROVE  Sol(x)[y] = f[y]
    <3>1. SolvesTo(T, rk, E, Sol(x), y)
      <4>1. \A u \in T : u = y \/ Below(rk[u], rk[y]) => Below(rk[u], rk[x])
        BY <2>1, BelowTransitive DEF Recurses
      <4> QED
        BY <1>1, <4>1 DEF SolvesTo
    <3> QED
      BY <1>1, <1>3, <3>1, SolutionsAgree
  <2>2. E[<<x, Sol(x)>>] = E[<<x, f>>]
    BY <1>1, <1>2, <2>1 DEF Recurses, AgreeBelow
  <2>3. Sol(x)[x] = E[<<x, Sol(x)>>]
    BY <1>1 DEF SolvesTo
  <2> QED
    BY <1>3, <2>2, <2>3
<1> QED
  BY <1>2, <1>4, <1>5

-----------------------------------------------------------------------------
(* The sets of trees, by depth.                                              *)

\* Induction over the numbers, for a set.
LEMMA NatSteps ==
  ASSUME NEW S \in SUBSET Nat, 0 \in S, \A n \in S : n + 1 \in S
  PROVE  S = Nat
<1> SUFFICES ASSUME NEW z \in Nat, z \notin S PROVE FALSE
  OBVIOUS
<1> DEFINE Bad == Nat \ S
<1>1. PICK n \in Bad : \A k \in Bad : n <= k
  <2>1. Bad \in SUBSET Nat /\ Bad # {}
    OBVIOUS
  <2> HIDE DEF Bad
  <2> QED
    BY <2>1, Least
<1>2. n \in Nat /\ n # 0
  OBVIOUS
<1>3. n - 1 \in Nat /\ ~(n <= n - 1)
  BY <1>2
<1>4. n - 1 \in S
  BY <1>1, <1>3
<1>5. (n - 1) + 1 = n
  BY <1>2
<1> QED
  BY <1>4, <1>5

-----------------------------------------------------------------------------

ExprLevel(S) == [op : Operations, name : Idents, args : Seq(S)]
StmtLevel(S) ==
  {s \in [op : Kinds, to : Seq(Idents), idx : Seq(Exprs), args : Seq(Exprs),
          then : Seq(S), else : Seq(S),
          name : Idents, id : Int, target : Instances \cup {""}, span : Nat] : HasShape(s)}

TermLevel(S) ==
  Exprs \cup [op : TermOperations, name : Idents, num : Int, target : Instances \cup {""},
              to : Seq(Idents), args : Seq(S)]

\* The trees up to each of the depths 0 to m.
Bottom == <<{}, {}, {}>>
Level(l) == <<ExprLevel(l[1]), StmtLevel(l[2]), TermLevel(l[3])>>
LevelsUpTo(m, g) == g = [n \in 0 .. m |-> IF n = 0 THEN Bottom ELSE Level(g[n - 1])]

\* What is built level by level is the same as far as both go.
LEMMA LevelsAgree ==
  ASSUME NEW m \in Nat, NEW g, NEW h, NEW k \in Nat,
         LevelsUpTo(m, g), LevelsUpTo(k, h)
  PROVE  \A n \in Nat : n <= m /\ n <= k => g[n] = h[n]
<1> DEFINE S == {n \in Nat : n <= m /\ n <= k => g[n] = h[n]}
<1>1. 0 \in S
  BY DEF LevelsUpTo
<1>2. ASSUME NEW n \in S PROVE n + 1 \in S
  <2> SUFFICES ASSUME n + 1 <= m, n + 1 <= k PROVE g[n + 1] = h[n + 1]
    OBVIOUS
  <2>1. n \in Nat /\ n <= m /\ n <= k /\ n + 1 # 0 /\ (n + 1) - 1 = n /\ n + 1 \in 0 .. m /\ n + 1 \in 0 .. k
    OBVIOUS
  <2>2. g[n + 1] = Level(g[n]) /\ h[n + 1] = Level(h[n])
    BY <2>1 DEF LevelsUpTo
  <2> QED
    BY <2>1, <2>2
<1> HIDE DEF S
<1>3. S = Nat
  <2>1. S \in SUBSET Nat
    BY DEF S
  <2> QED
    BY <1>1, <1>2, <2>1, NatSteps
<1> QED
  BY <1>3 DEF S

\* The levels of trees exist: they are ExprsTo and StmtsTo together.
LEMMA LevelsExist == \E f : f = [n \in Nat |-> IF n = 0 THEN Bottom ELSE Level(f[n - 1])]
<1> DEFINE S == {m \in Nat : \E g : LevelsUpTo(m, g)}
<1>1. 0 \in S
  <2>1. LevelsUpTo(0, [n \in 0 .. 0 |-> Bottom])
    BY DEF LevelsUpTo
  <2> QED
    BY <2>1
<1>2. ASSUME NEW m \in S PROVE m + 1 \in S
  <2>1. PICK g : LevelsUpTo(m, g)
    OBVIOUS
  <2> DEFINE h == [n \in 0 .. m + 1 |-> IF n = m + 1 THEN Level(g[m]) ELSE g[n]]
  <2>2. \A n \in 0 .. m + 1 : n # m + 1 => n \in 0 .. m /\ (n # 0 => n - 1 \in 0 .. m + 1 /\ n - 1 # m + 1)
    OBVIOUS
  <2>3. m \in 0 .. m + 1 /\ m # m + 1 /\ (m + 1) - 1 = m /\ m + 1 # 0
    OBVIOUS
  <2>4. \A n \in 0 .. m + 1 : h[n] = IF n = m + 1 THEN Level(g[m]) ELSE g[n]
    OBVIOUS
  <2>5. h = [n \in 0 .. m + 1 |-> h[n]]
    OBVIOUS
  <2> HIDE DEF h
  <2>6. \A n \in 0 .. m : g[n] = IF n = 0 THEN Bottom ELSE Level(g[n - 1])
    BY <2>1 DEF LevelsUpTo
  <2>7. \A n \in 0 .. m + 1 : h[n] = IF n = 0 THEN Bottom ELSE Level(h[n - 1])
    BY <2>2, <2>3, <2>4, <2>6
  <2>8. LevelsUpTo(m + 1, h)
    BY <2>5, <2>7 DEF LevelsUpTo
  <2> QED
    BY <2>8
<1>3. S = Nat
  <2>1. S \in SUBSET Nat
    OBVIOUS
  <2> HIDE DEF S
  <2> QED
    BY <1>1, <1>2, <2>1, NatSteps
<1> DEFINE G(m) == CHOOSE g : LevelsUpTo(m, g)
           f == [n \in Nat |-> G(n)[n]]
<1>4. \A m \in Nat : LevelsUpTo(m, G(m))
  BY <1>3
<1> HIDE DEF S, G
<1>5. ASSUME NEW n \in Nat PROVE f[n] = IF n = 0 THEN Bottom ELSE Level(f[n - 1])
  <2>1. n \in 0 .. n /\ (n # 0 => n - 1 \in Nat /\ n - 1 <= n)
    OBVIOUS
  <2>2. G(n)[n] = IF n = 0 THEN Bottom ELSE Level(G(n)[n - 1])
    BY <1>4, <2>1 DEF LevelsUpTo
  <2>3. n # 0 => G(n)[n - 1] = G(n - 1)[n - 1]
    BY <1>4, <2>1, LevelsAgree
  <2> QED
    BY <2>1, <2>2, <2>3
<1>6. f = [n \in Nat |-> f[n]]
  OBVIOUS
<1> HIDE DEF f
<1>7. f = [n \in Nat |-> IF n = 0 THEN Bottom ELSE Level(f[n - 1])]
  BY <1>5, <1>6
<1> QED
  BY <1>7

\* ExprsTo, StmtsTo and TermsTo are what they are written as.
LEMMA TreesUnfold ==
  /\ \A n \in Nat : ExprsTo[n] = IF n = 0 THEN {} ELSE ExprLevel(ExprsTo[n - 1])
  /\ \A n \in Nat : StmtsTo[n] = IF n = 0 THEN {} ELSE StmtLevel(StmtsTo[n - 1])
  /\ \A n \in Nat : TermsTo[n] = IF n = 0 THEN {} ELSE TermLevel(TermsTo[n - 1])
<1>1. PICK f : f = [n \in Nat |-> IF n = 0 THEN Bottom ELSE Level(f[n - 1])]
  BY LevelsExist
<1>2. \A n \in Nat : /\ f[n] = IF n = 0 THEN Bottom ELSE Level(f[n - 1])
                     /\ n # 0 => n - 1 \in Nat
  BY <1>1
<1> DEFINE e == [n \in Nat |-> f[n][1]]
           s == [n \in Nat |-> f[n][2]]
           t == [n \in Nat |-> f[n][3]]
<1>3. \A n \in Nat : e[n] = f[n][1] /\ s[n] = f[n][2] /\ t[n] = f[n][3]
  OBVIOUS
<1>10. ASSUME NEW n \in Nat
      PROVE  /\ n = 0 => f[n][1] = {} /\ f[n][2] = {} /\ f[n][3] = {}
             /\ n # 0 => /\ f[n][1] = ExprLevel(f[n - 1][1])
                        /\ f[n][2] = StmtLevel(f[n - 1][2])
                        /\ f[n][3] = TermLevel(f[n - 1][3])
  <2>1. CASE n = 0
    <3>1. f[n] = Bottom
      BY <1>2, <2>1
    <3>2. f[n][1] = {} /\ f[n][2] = {} /\ f[n][3] = {}
      BY <3>1 DEF Bottom
    <3> QED
      BY <2>1, <3>2
  <2>2. CASE n # 0
    <3>1. f[n] = Level(f[n - 1])
      BY <1>2, <2>2
    <3>2. f[n][1] = ExprLevel(f[n - 1][1]) /\ f[n][2] = StmtLevel(f[n - 1][2]) /\ f[n][3] = TermLevel(f[n - 1][3])
      BY <3>1 DEF Level
    <3> QED
      BY <2>2, <3>2
  <2> QED
    BY <2>1, <2>2
<1>4. /\ \A n \in Nat : e[n] = IF n = 0 THEN {} ELSE ExprLevel(e[n - 1])
      /\ \A n \in Nat : s[n] = IF n = 0 THEN {} ELSE StmtLevel(s[n - 1])
      /\ \A n \in Nat : t[n] = IF n = 0 THEN {} ELSE TermLevel(t[n - 1])
  <2> HIDE DEF e, s, t
  <2> QED
    BY <1>2, <1>3, <1>10
<1>5. e = [n \in Nat |-> e[n]] /\ s = [n \in Nat |-> s[n]] /\ t = [n \in Nat |-> t[n]]
  OBVIOUS
<1> HIDE DEF e, s, t
<1>6. e = [n \in Nat |-> IF n = 0 THEN {} ELSE ExprLevel(e[n - 1])]
  BY <1>4, <1>5
<1>7. s = [n \in Nat |-> IF n = 0 THEN {} ELSE StmtLevel(s[n - 1])]
  BY <1>4, <1>5
<1>11. t = [n \in Nat |-> IF n = 0 THEN {} ELSE TermLevel(t[n - 1])]
  BY <1>4, <1>5
<1>8. ExprsTo = [n \in Nat |-> IF n = 0 THEN {} ELSE ExprLevel(ExprsTo[n - 1])]
  BY <1>6 DEF ExprsTo, ExprLevel
<1>9. StmtsTo = [n \in Nat |-> IF n = 0 THEN {} ELSE StmtLevel(StmtsTo[n - 1])]
  BY <1>7 DEF StmtsTo, StmtLevel
<1>12. TermsTo = [n \in Nat |-> IF n = 0 THEN {} ELSE TermLevel(TermsTo[n - 1])]
  BY <1>11 DEF TermsTo, TermLevel
<1> QED
  BY <1>8, <1>9, <1>12

\* The parts of an expression.
LEMMA ExprsIn ==
  ASSUME NEW n \in Nat, NEW e \in ExprsTo[n]
  PROVE  /\ n # 0 /\ n - 1 \in Nat
         /\ e \in [op : Operations, name : Idents, args : Seq(ExprsTo[n - 1])]
<1>1. n # 0 /\ n - 1 \in Nat
  BY TreesUnfold
<1>2. ExprsTo[n] = ExprLevel(ExprsTo[n - 1])
  BY <1>1, TreesUnfold
<1> QED
  BY <1>1, <1>2 DEF ExprLevel

\* The parts of a statement.
LEMMA StmtsIn ==
  ASSUME NEW n \in Nat, NEW s \in StmtsTo[n]
  PROVE  /\ n # 0 /\ n - 1 \in Nat
         /\ s \in [op : Kinds, to : Seq(Idents), idx : Seq(Exprs), args : Seq(Exprs),
                   then : Seq(StmtsTo[n - 1]), else : Seq(StmtsTo[n - 1]),
                   name : Idents, id : Int, target : Instances \cup {""}, span : Nat]
         /\ HasShape(s)
<1>1. n # 0 /\ n - 1 \in Nat
  BY TreesUnfold
<1>2. StmtsTo[n] = StmtLevel(StmtsTo[n - 1])
  BY <1>1, TreesUnfold
<1> QED
  BY <1>1, <1>2 DEF StmtLevel

\* A tree of one depth is a tree of the next.
LEMMA LevelsGrow ==
  /\ \A n \in Nat : ExprsTo[n] \subseteq ExprsTo[n + 1]
  /\ \A n \in Nat : StmtsTo[n] \subseteq StmtsTo[n + 1]
  /\ \A n \in Nat : TermsTo[n] \subseteq TermsTo[n + 1]
<1> DEFINE S == {n \in Nat : /\ ExprsTo[n] \subseteq ExprsTo[n + 1]
                            /\ StmtsTo[n] \subseteq StmtsTo[n + 1]
                            /\ TermsTo[n] \subseteq TermsTo[n + 1]}
<1>1. 0 \in S
  BY TreesUnfold
<1>2. ASSUME NEW n \in S PROVE n + 1 \in S
  <2>1. n \in Nat /\ n + 1 \in Nat /\ n + 1 # 0 /\ (n + 1) + 1 \in Nat /\ (n + 1) + 1 # 0
          /\ (n + 1) - 1 = n /\ ((n + 1) + 1) - 1 = n + 1
    OBVIOUS
  <2>2. /\ Seq(ExprsTo[n]) \subseteq Seq(ExprsTo[n + 1]) /\ Seq(StmtsTo[n]) \subseteq Seq(StmtsTo[n + 1])
        /\ Seq(TermsTo[n]) \subseteq Seq(TermsTo[n + 1])
    BY SeqMonotonic
  <2>3. ExprLevel(ExprsTo[n]) \subseteq ExprLevel(ExprsTo[n + 1])
    BY <2>2 DEF ExprLevel
  <2>4. StmtLevel(StmtsTo[n]) \subseteq StmtLevel(StmtsTo[n + 1])
    BY <2>2 DEF StmtLevel
  <2>7. TermLevel(TermsTo[n]) \subseteq TermLevel(TermsTo[n + 1])
    BY <2>2 DEF TermLevel
  <2>5. ExprsTo[n + 1] \subseteq ExprsTo[(n + 1) + 1]
    BY <2>1, <2>3, TreesUnfold
  <2>6. StmtsTo[n + 1] \subseteq StmtsTo[(n + 1) + 1]
    BY <2>1, <2>4, TreesUnfold
  <2>8. TermsTo[n + 1] \subseteq TermsTo[(n + 1) + 1]
    BY <2>1, <2>7, TreesUnfold
  <2> QED
    BY <2>1, <2>5, <2>6, <2>8
<1>3. S \in SUBSET Nat
  OBVIOUS
<1> HIDE DEF S
<1>4. S = Nat
  BY <1>1, <1>2, <1>3, NatSteps
<1> QED
  BY <1>4 DEF S

\* A tree of one depth is a tree of every greater one.
LEMMA TreesGrow ==
  ASSUME NEW m \in Nat, NEW n \in Nat, m <= n
  PROVE  /\ ExprsTo[m] \subseteq ExprsTo[n] /\ Seq(ExprsTo[m]) \subseteq Seq(ExprsTo[n])
         /\ StmtsTo[m] \subseteq StmtsTo[n] /\ Seq(StmtsTo[m]) \subseteq Seq(StmtsTo[n])
         /\ TermsTo[m] \subseteq TermsTo[n] /\ Seq(TermsTo[m]) \subseteq Seq(TermsTo[n])
<1> DEFINE S == {k \in Nat : m <= k => /\ ExprsTo[m] \subseteq ExprsTo[k]
                                      /\ StmtsTo[m] \subseteq StmtsTo[k]
                                      /\ TermsTo[m] \subseteq TermsTo[k]}
<1>1. 0 \in S
  <2>1. m <= 0 => m = 0
    OBVIOUS
  <2> QED
    BY <2>1
<1>2. ASSUME NEW k \in S PROVE k + 1 \in S
  <2>1. k \in Nat /\ k + 1 \in Nat /\ (m <= k + 1 => m <= k \/ m = k + 1)
    OBVIOUS
  <2> QED
    BY <2>1, LevelsGrow
<1>3. S \in SUBSET Nat
  OBVIOUS
<1> HIDE DEF S
<1>4. S = Nat
  BY <1>1, <1>2, <1>3, NatSteps
<1>5. ExprsTo[m] \subseteq ExprsTo[n] /\ StmtsTo[m] \subseteq StmtsTo[n] /\ TermsTo[m] \subseteq TermsTo[n]
  BY <1>4 DEF S
<1> QED
  BY <1>5, SeqMonotonic

-----------------------------------------------------------------------------
(* The ranks of blocks and of lists of expressions: what is inside one, and its*)
(* rest, is of smaller rank.                                                 *)

LevelOf(levels, b) ==
  CHOOSE n \in Nat : b \in Seq(levels[n]) /\ \A m \in Nat : b \in Seq(levels[m]) => n <= m

\* The level of a sequence of trees is the least it is built from.
LEMMA LevelIsLeast ==
  ASSUME NEW levels, NEW b, NEW k \in Nat, b \in Seq(levels[k])
  PROVE  /\ LevelOf(levels, b) \in Nat
         /\ b \in Seq(levels[LevelOf(levels, b)])
         /\ \A m \in Nat : b \in Seq(levels[m]) => LevelOf(levels, b) <= m
<1> DEFINE S == {n \in Nat : b \in Seq(levels[n])}
<1>1. S \in SUBSET Nat /\ S # {}
  OBVIOUS
<1>2. \E n \in S : \A m \in S : n <= m
  <2> HIDE DEF S
  <2> QED
    BY <1>1, Least
<1>3. \E n \in Nat : b \in Seq(levels[n]) /\ \A m \in Nat : b \in Seq(levels[m]) => n <= m
  BY <1>2
<1> QED
  BY <1>3 DEF LevelOf

CodeRank == [b \in Code |-> <<LevelOf(StmtsTo, b), Len(b)>>]
ExprsRank == [es \in Seq(Exprs) |-> <<LevelOf(ExprsTo, es), Len(es)>>]

\* Ranks are pairs of numbers.
LEMMA CodeRankType ==
  /\ CodeRank \in [Code -> Nat \X Nat]
  /\ ExprsRank \in [Seq(Exprs) -> Nat \X Nat]
<1>1. \A b \in Code : LevelOf(StmtsTo, b) \in Nat /\ Len(b) \in Nat
  BY LevelIsLeast, DepthAssumption, LenProperties DEF Code
<1>2. \A es \in Seq(Exprs) : LevelOf(ExprsTo, es) \in Nat /\ Len(es) \in Nat
  BY LevelIsLeast, DepthAssumption, LenProperties DEF Exprs
<1> QED
  BY <1>1, <1>2 DEF CodeRank, ExprsRank

\* The statements of a block, at whatever level it is.
LEMMA BlockParts ==
  ASSUME NEW n \in Nat, NEW b \in Seq(StmtsTo[n]), NEW i \in DOMAIN b
  PROVE  /\ n # 0 /\ n - 1 \in Nat
         /\ b[i] \in StmtsTo[n]
         /\ b[i].then \in Seq(StmtsTo[n - 1]) /\ b[i].else \in Seq(StmtsTo[n - 1])
<1>1. b[i] \in StmtsTo[n]
  BY ElementOfSeq, LenProperties
<1> QED
  BY <1>1, StmtsIn

\* The blocks inside a block are code of smaller rank.
LEMMA CodeParts ==
  ASSUME NEW b \in Code, NEW i \in DOMAIN b
  PROVE  /\ b[i] \in StmtsTo[MaxCodeDepth]
         /\ b[i].then \in Code /\ Below(CodeRank[b[i].then], CodeRank[b])
         /\ b[i].else \in Code /\ Below(CodeRank[b[i].else], CodeRank[b])
<1>1. b[i] \in StmtsTo[MaxCodeDepth]
  BY DepthAssumption, BlockParts DEF Code
<1>2. MaxCodeDepth \in Nat /\ MaxCodeDepth - 1 \in Nat /\ MaxCodeDepth - 1 <= MaxCodeDepth
  BY DepthAssumption
<1>3. b[i].then \in Code /\ b[i].else \in Code
  BY <1>2, BlockParts, TreesGrow DEF Code
<1> DEFINE n == LevelOf(StmtsTo, b)
<1>4. n \in Nat /\ b \in Seq(StmtsTo[n])
  BY <1>2, LevelIsLeast DEF Code
<1> HIDE DEF n
<1>5. n - 1 \in Nat /\ b[i].then \in Seq(StmtsTo[n - 1]) /\ b[i].else \in Seq(StmtsTo[n - 1])
  BY <1>4, BlockParts
<1>6. /\ LevelOf(StmtsTo, b[i].then) \in Nat /\ LevelOf(StmtsTo, b[i].then) <= n - 1
      /\ LevelOf(StmtsTo, b[i].else) \in Nat /\ LevelOf(StmtsTo, b[i].else) <= n - 1
  BY <1>5, LevelIsLeast
<1>7. /\ CodeRank[b][1] = n
      /\ CodeRank[b[i].then][1] = LevelOf(StmtsTo, b[i].then)
      /\ CodeRank[b[i].else][1] = LevelOf(StmtsTo, b[i].else)
  BY <1>3 DEF CodeRank, n
<1>8. CodeRank[b[i].then][1] < CodeRank[b][1] /\ CodeRank[b[i].else][1] < CodeRank[b][1]
  BY <1>4, <1>6, <1>7
<1> QED
  BY <1>1, <1>3, <1>8 DEF Below

\* The rest of a block is code of smaller rank.
LEMMA CodeTail ==
  ASSUME NEW b \in Code, b # <<>>
  PROVE  /\ 1 \in DOMAIN b /\ Head(b) = b[1]
         /\ Tail(b) \in Code /\ Below(CodeRank[Tail(b)], CodeRank[b])
<1>1. 1 \in DOMAIN b /\ Head(b) = b[1]
  BY DEF Code
<1>2. MaxCodeDepth \in Nat
  BY DepthAssumption
<1> DEFINE n == LevelOf(StmtsTo, b)
<1>3. n \in Nat /\ b \in Seq(StmtsTo[n])
  BY <1>2, LevelIsLeast DEF Code
<1> HIDE DEF n
<1>4. Tail(b) \in Seq(StmtsTo[n]) /\ Tail(b) \in Code /\ Len(Tail(b)) = Len(b) - 1 /\ Len(b) \in Nat
  BY <1>3, HeadTailProperties, LenProperties DEF Code
<1>5. LevelOf(StmtsTo, Tail(b)) \in Nat /\ LevelOf(StmtsTo, Tail(b)) <= n
  BY <1>3, <1>4, LevelIsLeast
<1>6. /\ CodeRank[b][1] = n /\ CodeRank[b][2] = Len(b)
      /\ CodeRank[Tail(b)][1] = LevelOf(StmtsTo, Tail(b)) /\ CodeRank[Tail(b)][2] = Len(Tail(b))
  BY <1>4 DEF CodeRank, n
<1>7. CodeRank[Tail(b)][1] <= CodeRank[b][1] /\ CodeRank[Tail(b)][2] < CodeRank[b][2]
        /\ CodeRank[b][1] \in Nat /\ CodeRank[Tail(b)][1] \in Nat
  BY <1>3, <1>4, <1>5, <1>6
<1>8. Below(CodeRank[Tail(b)], CodeRank[b])
  BY <1>7 DEF Below
<1> QED
  BY <1>1, <1>4, <1>8

\* The arguments of an expression in a list are a list of smaller rank.
LEMMA ExprsParts ==
  ASSUME NEW es \in Seq(Exprs), NEW i \in DOMAIN es
  PROVE  /\ es[i] \in Exprs
         /\ es[i].args \in Seq(Exprs) /\ Below(ExprsRank[es[i].args], ExprsRank[es])
<1>1. es[i] \in Exprs
  BY ElementOfSeq, LenProperties
<1>2. MaxExprDepth \in Nat /\ MaxExprDepth - 1 \in Nat /\ MaxExprDepth - 1 <= MaxExprDepth
  BY DepthAssumption
<1>3. es[i].args \in Seq(Exprs)
  <2>1. es[i].args \in Seq(ExprsTo[MaxExprDepth - 1])
    BY <1>1, <1>2, ExprsIn DEF Exprs
  <2> QED
    BY <1>2, <2>1, TreesGrow DEF Exprs
<1> DEFINE n == LevelOf(ExprsTo, es)
<1>4. n \in Nat /\ es \in Seq(ExprsTo[n])
  BY <1>2, LevelIsLeast DEF Exprs
<1> HIDE DEF n
<1>5. n - 1 \in Nat /\ es[i].args \in Seq(ExprsTo[n - 1])
  <2>1. es[i] \in ExprsTo[n]
    BY <1>4, ElementOfSeq, LenProperties
  <2> QED
    BY <1>4, <2>1, ExprsIn
<1>6. LevelOf(ExprsTo, es[i].args) \in Nat /\ LevelOf(ExprsTo, es[i].args) <= n - 1
  BY <1>5, LevelIsLeast
<1>7. ExprsRank[es][1] = n /\ ExprsRank[es[i].args][1] = LevelOf(ExprsTo, es[i].args)
  BY <1>3 DEF ExprsRank, n
<1>8. ExprsRank[es[i].args][1] < ExprsRank[es][1]
  BY <1>4, <1>6, <1>7
<1> QED
  BY <1>1, <1>3, <1>8 DEF Below

\* The rest of a list of expressions is of smaller rank.
LEMMA ExprsTail ==
  ASSUME NEW es \in Seq(Exprs), es # <<>>
  PROVE  /\ 1 \in DOMAIN es /\ Head(es) = es[1]
         /\ Tail(es) \in Seq(Exprs) /\ Below(ExprsRank[Tail(es)], ExprsRank[es])
<1>1. 1 \in DOMAIN es /\ Head(es) = es[1]
  OBVIOUS
<1>2. MaxExprDepth \in Nat
  BY DepthAssumption
<1> DEFINE n == LevelOf(ExprsTo, es)
<1>3. n \in Nat /\ es \in Seq(ExprsTo[n])
  BY <1>2, LevelIsLeast DEF Exprs
<1> HIDE DEF n
<1>4. Tail(es) \in Seq(ExprsTo[n]) /\ Tail(es) \in Seq(Exprs) /\ Len(Tail(es)) = Len(es) - 1 /\ Len(es) \in Nat
  BY <1>3, HeadTailProperties, LenProperties
<1>5. LevelOf(ExprsTo, Tail(es)) \in Nat /\ LevelOf(ExprsTo, Tail(es)) <= n
  BY <1>3, <1>4, LevelIsLeast
<1>6. /\ ExprsRank[es][1] = n /\ ExprsRank[es][2] = Len(es)
      /\ ExprsRank[Tail(es)][1] = LevelOf(ExprsTo, Tail(es)) /\ ExprsRank[Tail(es)][2] = Len(Tail(es))
  BY <1>4 DEF ExprsRank, n
<1>7. ExprsRank[Tail(es)][1] <= ExprsRank[es][1] /\ ExprsRank[Tail(es)][2] < ExprsRank[es][2]
        /\ ExprsRank[es][1] \in Nat /\ ExprsRank[Tail(es)][1] \in Nat
  BY <1>3, <1>4, <1>5, <1>6
<1>8. Below(ExprsRank[Tail(es)], ExprsRank[es])
  BY <1>7 DEF Below
<1> QED
  BY <1>1, <1>4, <1>8

-----------------------------------------------------------------------------
(* HasUnwrap, StatementsOf, SamplesOf and Unwritable are what they are written as.*)

\* A function that satisfies such an equation is the one that exists.
LEMMA RecursionTyped ==
  ASSUME NEW T, NEW rk, NEW V, NEW E, Recurses(T, rk, V, E), NEW F, F = [x \in T |-> F[x]],
         \A x \in T, g \in Typed(T, V) : AgreeBelow(T, rk, g, F, x) => E[<<x, g>>] = F[x]
  PROVE  F \in Typed(T, V)
<1>1. PICK f \in Typed(T, V) : f = [x \in T |-> E[<<x, f>>]]
  BY RecursionExists
<1>2. \A x \in T : AgreeBelow(T, rk, f, F, x) => f[x] = F[x]
  BY <1>1
<1>3. \A x \in T : f[x] = F[x]
  <2>1. rk \in [T -> Nat \X Nat]
    BY DEF Recurses
  <2> QED
    BY ONLY <1>2, <2>1, RankUnique
<1>4. f = [x \in T |-> f[x]]
  BY <1>1
<1>5. f = F
  BY <1>3, <1>4
<1> QED
  BY <1>5

-----------------------------------------------------------------------------

HasUnwrapOf(f, exprs) == \E i \in DOMAIN exprs : exprs[i].op = "unwrap" \/ f[exprs[i].args]

\* HasUnwrap is total, and its definition holds everywhere.
LEMMA HasUnwrapUnfold ==
  /\ HasUnwrap \in [Seq(Exprs) -> BOOLEAN]
  /\ \A exprs \in Seq(Exprs) : HasUnwrap[exprs] <=> HasUnwrapOf(HasUnwrap, exprs)
<1> DEFINE T == Seq(Exprs)
           V == [x \in T |-> BOOLEAN]
           E == [p \in T \X Typed(T, V) |-> HasUnwrapOf(p[2], p[1])]
<1>1. \A x \in T, g \in Typed(T, V) : E[<<x, g>>] = HasUnwrapOf(g, x)
  OBVIOUS
<1>2. \A x \in T : V[x] = BOOLEAN
  OBVIOUS
<1>3. \A x \in T : \A g, h : AgreeBelow(T, ExprsRank, g, h, x) => HasUnwrapOf(g, x) = HasUnwrapOf(h, x)
  BY ExprsParts DEF HasUnwrapOf, AgreeBelow
<1>4. \A x \in T : \A g : HasUnwrapOf(g, x) \in BOOLEAN
  BY DEF HasUnwrapOf
<1> HIDE DEF T, V, E
<1>5. Recurses(T, ExprsRank, V, E)
  <2>1. ExprsRank \in [T -> Nat \X Nat]
    BY CodeRankType DEF T
  <2>2. \A x \in T : V[x] # {}
    BY <1>2
  <2>3. \A x \in T, g \in Typed(T, V) : E[<<x, g>>] \in V[x]
    BY <1>1, <1>2, <1>4
  <2>4. \A x \in T : \A g, h \in Typed(T, V) : AgreeBelow(T, ExprsRank, g, h, x) => E[<<x, g>>] = E[<<x, h>>]
    BY <1>1, <1>3
  <2> QED
    BY <2>1, <2>2, <2>3, <2>4 DEF Recurses
<1>6. PICK f \in Typed(T, V) : f = [x \in T |-> E[<<x, f>>]]
  BY <1>5, RecursionExists
<1>7. f = [x \in T |-> HasUnwrapOf(f, x)]
  BY <1>1, <1>6
<1>8. HasUnwrap = [x \in T |-> HasUnwrapOf(HasUnwrap, x)]
  BY <1>7 DEF HasUnwrap, HasUnwrapOf, T
<1>9. HasUnwrap \in Typed(T, V)
  <2>1. HasUnwrap = [x \in T |-> HasUnwrap[x]]
    BY <1>8
  <2>2. \A x \in T : HasUnwrap[x] = HasUnwrapOf(HasUnwrap, x)
    BY <1>8
  <2> QED
    BY <1>1, <1>3, <1>5, <2>1, <2>2, RecursionTyped
<1> QED
  BY <1>2, <1>8, <1>9 DEF Typed, T

-----------------------------------------------------------------------------

StatementsOfOf(f, block) == UNION {{s} \cup f[s.then] \cup f[s.else] : s \in Range(block)}

AnyStmt == StmtsTo[MaxCodeDepth]

\* StatementsOf is total, and its definition holds everywhere.
LEMMA StatementsOfUnfold ==
  /\ StatementsOf \in [Code -> SUBSET AnyStmt]
  /\ \A block \in Code : StatementsOf[block] = StatementsOfOf(StatementsOf, block)
<1> DEFINE V == [x \in Code |-> SUBSET AnyStmt]
           E == [p \in Code \X Typed(Code, V) |-> StatementsOfOf(p[2], p[1])]
<1>1. \A x \in Code, g \in Typed(Code, V) : E[<<x, g>>] = StatementsOfOf(g, x)
  OBVIOUS
<1>2. \A x \in Code : V[x] = SUBSET AnyStmt
  OBVIOUS
<1>3. \A x \in Code : \A g, h : AgreeBelow(Code, CodeRank, g, h, x) => StatementsOfOf(g, x) = StatementsOfOf(h, x)
  <2> SUFFICES ASSUME NEW x \in Code, NEW g, NEW h, AgreeBelow(Code, CodeRank, g, h, x)
               PROVE  StatementsOfOf(g, x) = StatementsOfOf(h, x)
    OBVIOUS
  <2>1. \A s \in Range(x) : g[s.then] = h[s.then] /\ g[s.else] = h[s.else]
    BY CodeParts DEF AgreeBelow, Range
  <2> QED
    BY <2>1 DEF StatementsOfOf
<1> HIDE DEF V, E
<1>4. ASSUME NEW x \in Code, NEW g \in Typed(Code, V) PROVE StatementsOfOf(g, x) \in SUBSET AnyStmt
  <2>1. \A s \in Range(x) : s \in AnyStmt /\ g[s.then] \in SUBSET AnyStmt /\ g[s.else] \in SUBSET AnyStmt
    BY <1>2, CodeParts DEF AnyStmt, Range, Typed
  <2> QED
    BY <2>1 DEF StatementsOfOf
<1>5. Recurses(Code, CodeRank, V, E)
  <2>1. \A x \in Code : V[x] # {}
    BY <1>2
  <2>2. \A x \in Code, g \in Typed(Code, V) : E[<<x, g>>] \in V[x]
    BY <1>1, <1>2, <1>4
  <2>3. \A x \in Code : \A g, h \in Typed(Code, V) : AgreeBelow(Code, CodeRank, g, h, x) => E[<<x, g>>] = E[<<x, h>>]
    BY <1>1, <1>3
  <2> QED
    BY <2>1, <2>2, <2>3, CodeRankType DEF Recurses
<1>6. PICK f \in Typed(Code, V) : f = [x \in Code |-> E[<<x, f>>]]
  BY <1>5, RecursionExists
<1>7. f = [x \in Code |-> StatementsOfOf(f, x)]
  BY <1>1, <1>6
<1>8. StatementsOf = [x \in Code |-> StatementsOfOf(StatementsOf, x)]
  BY <1>7 DEF StatementsOf, StatementsOfOf
<1>9. StatementsOf \in Typed(Code, V)
  <2>1. StatementsOf = [x \in Code |-> StatementsOf[x]]
    BY <1>8
  <2>2. \A x \in Code : StatementsOf[x] = StatementsOfOf(StatementsOf, x)
    BY <1>8
  <2> QED
    BY <1>1, <1>3, <1>5, <2>1, <2>2, RecursionTyped
<1> QED
  BY <1>2, <1>8, <1>9 DEF Typed

\* The parts of the first statement are of smaller rank than the block.
LEMMA HeadParts ==
  ASSUME NEW b \in Code, b # <<>>
  PROVE  /\ Head(b) \in AnyStmt /\ Tail(b) \in Code /\ Below(CodeRank[Tail(b)], CodeRank[b])
         /\ Head(b).then \in Code /\ Below(CodeRank[Head(b).then], CodeRank[b])
         /\ Head(b).else \in Code /\ Below(CodeRank[Head(b).else], CodeRank[b])
BY CodeTail, CodeParts DEF AnyStmt

-----------------------------------------------------------------------------

SamplesOfOf(f, block) ==
  IF block = <<>> THEN <<>>
  ELSE LET s == Head(block)
       IN  (IF s.op = "sample" THEN <<s>> ELSE f[s.then] \o f[s.else]) \o f[Tail(block)]

\* SamplesOf is total, and its definition holds everywhere.
LEMMA SamplesOfUnfold ==
  /\ SamplesOf \in [Code -> Seq(AnyStmt)]
  /\ \A block \in Code : SamplesOf[block] = SamplesOfOf(SamplesOf, block)
<1> DEFINE V == [x \in Code |-> Seq(AnyStmt)]
           E == [p \in Code \X Typed(Code, V) |-> SamplesOfOf(p[2], p[1])]
<1>1. \A x \in Code, g \in Typed(Code, V) : E[<<x, g>>] = SamplesOfOf(g, x)
  OBVIOUS
<1>2. \A x \in Code : V[x] = Seq(AnyStmt)
  OBVIOUS
<1>3. \A x \in Code : \A g, h : AgreeBelow(Code, CodeRank, g, h, x) => SamplesOfOf(g, x) = SamplesOfOf(h, x)
  <2> SUFFICES ASSUME NEW x \in Code, NEW g, NEW h, AgreeBelow(Code, CodeRank, g, h, x)
               PROVE  SamplesOfOf(g, x) = SamplesOfOf(h, x)
    OBVIOUS
  <2>1. x # <<>> => /\ g[Head(x).then] = h[Head(x).then] /\ g[Head(x).else] = h[Head(x).else]
                    /\ g[Tail(x)] = h[Tail(x)]
    BY HeadParts DEF AgreeBelow
  <2> QED
    BY <2>1 DEF SamplesOfOf
<1> HIDE DEF V, E
<1>4. ASSUME NEW x \in Code, NEW g \in Typed(Code, V) PROVE SamplesOfOf(g, x) \in Seq(AnyStmt)
  <2>1. \A b \in Code : g[b] \in Seq(AnyStmt)
    BY <1>2 DEF Typed
  <2>2. CASE x = <<>>
    BY <2>2 DEF SamplesOfOf
  <2>3. CASE x # <<>>
    <3>1. /\ Head(x) \in AnyStmt /\ g[Head(x).then] \in Seq(AnyStmt)
          /\ g[Head(x).else] \in Seq(AnyStmt) /\ g[Tail(x)] \in Seq(AnyStmt)
      BY <2>1, <2>3, HeadParts
    <3>2. <<Head(x)>> \in Seq(AnyStmt) /\ g[Head(x).then] \o g[Head(x).else] \in Seq(AnyStmt)
      BY <3>1, ConcatProperties
    <3> QED
      BY <2>3, <3>1, <3>2, ConcatProperties DEF SamplesOfOf
  <2> QED
    BY <2>2, <2>3
<1>5. Recurses(Code, CodeRank, V, E)
  <2>1. \A x \in Code : V[x] # {}
    BY <1>2, EmptySeq
  <2>2. \A x \in Code, g \in Typed(Code, V) : E[<<x, g>>] \in V[x]
    BY <1>1, <1>2, <1>4
  <2>3. \A x \in Code : \A g, h \in Typed(Code, V) : AgreeBelow(Code, CodeRank, g, h, x) => E[<<x, g>>] = E[<<x, h>>]
    BY <1>1, <1>3
  <2> QED
    BY <2>1, <2>2, <2>3, CodeRankType DEF Recurses
<1>6. PICK f \in Typed(Code, V) : f = [x \in Code |-> E[<<x, f>>]]
  BY <1>5, RecursionExists
<1>7. f = [x \in Code |-> SamplesOfOf(f, x)]
  BY <1>1, <1>6
<1>8. SamplesOf = [x \in Code |-> SamplesOfOf(SamplesOf, x)]
  BY <1>7 DEF SamplesOf, SamplesOfOf
<1>9. SamplesOf \in Typed(Code, V)
  <2>1. SamplesOf = [x \in Code |-> SamplesOf[x]]
    BY <1>8
  <2>2. \A x \in Code : SamplesOf[x] = SamplesOfOf(SamplesOf, x)
    BY <1>8
  <2> QED
    BY <1>1, <1>3, <1>5, <2>1, <2>2, RecursionTyped
<1> QED
  BY <1>2, <1>8, <1>9 DEF Typed

-----------------------------------------------------------------------------

UnwritableOf(f, block) ==
  \/ block = <<>>
  \/ Last(block).op \notin {"ite", "return", "abort"}
  \/ \E i \in DOMAIN block :
       LET s == block[i]
       IN  \/ s.op = "for"
           \/ s.op = "invoke" /\ s.target = ""
           \/ ~InFull(s)
           \/ s.op = "sample" /\ s.id = Unnumbered
           \/ HasUnwrap[Written(s)]
           \/ s.op = "ite" /\ (f[s.then] \/ f[s.else])

\* The definition of Unwritable holds everywhere.
LEMMA UnwritableUnfold ==
  \A block \in Code : Unwritable[block] <=> UnwritableOf(Unwritable, block)
<1> DEFINE V == [x \in Code |-> BOOLEAN]
           E == [p \in Code \X Typed(Code, V) |-> UnwritableOf(p[2], p[1])]
<1>1. \A x \in Code, g \in Typed(Code, V) : E[<<x, g>>] = UnwritableOf(g, x)
  OBVIOUS
<1>2. \A x \in Code : V[x] = BOOLEAN
  OBVIOUS
<1>3. \A x \in Code : \A g, h : AgreeBelow(Code, CodeRank, g, h, x) => UnwritableOf(g, x) = UnwritableOf(h, x)
  <2> SUFFICES ASSUME NEW x \in Code, NEW g, NEW h, AgreeBelow(Code, CodeRank, g, h, x)
               PROVE  UnwritableOf(g, x) = UnwritableOf(h, x)
    OBVIOUS
  <2>1. \A i \in DOMAIN x : g[x[i].then] = h[x[i].then] /\ g[x[i].else] = h[x[i].else]
    BY CodeParts DEF AgreeBelow
  <2> QED
    BY <2>1 DEF UnwritableOf
<1>4. \A x \in Code : \A g : UnwritableOf(g, x) \in BOOLEAN
  BY DEF UnwritableOf
<1> HIDE DEF V, E
<1>5. Recurses(Code, CodeRank, V, E)
  <2>1. \A x \in Code : V[x] # {}
    BY <1>2
  <2>2. \A x \in Code, g \in Typed(Code, V) : E[<<x, g>>] \in V[x]
    BY <1>1, <1>2, <1>4
  <2>3. \A x \in Code : \A g, h \in Typed(Code, V) : AgreeBelow(Code, CodeRank, g, h, x) => E[<<x, g>>] = E[<<x, h>>]
    BY <1>1, <1>3
  <2> QED
    BY <2>1, <2>2, <2>3, CodeRankType DEF Recurses
<1>6. PICK f \in Typed(Code, V) : f = [x \in Code |-> E[<<x, f>>]]
  BY <1>5, RecursionExists
<1>7. f = [x \in Code |-> UnwritableOf(f, x)]
  BY <1>1, <1>6
<1>8. Unwritable = [x \in Code |-> UnwritableOf(Unwritable, x)]
  BY <1>7 DEF Unwritable, UnwritableOf
<1> QED
  BY <1>8

-----------------------------------------------------------------------------
(* Samplify.                                                                 *)

\* Blocks with something else, by the rank of the block.
FirstRank(T) == [in \in T |-> CodeRank[in[1]]]

\* Functions on pairs recurse along the rank of the block.
LEMMA FirstRankType ==
  ASSUME NEW X
  PROVE  /\ FirstRank(Code \X X) \in [Code \X X -> Nat \X Nat]
         /\ \A b \in Code, x \in X : FirstRank(Code \X X)[<<b, x>>] = CodeRank[b]
BY CodeRankType DEF FirstRank

\* c stays within the depth of b.
NoDeeper(b, c) == \A n \in Nat : b \in Seq(StmtsTo[n]) => c \in Seq(StmtsTo[n])

LEMMA OneSeq ==
  ASSUME NEW S, NEW x, x \in S PROVE <<x>> \in Seq(S)
OBVIOUS

LEMMA NoDeeperIsCode ==
  ASSUME NEW b \in Code, NEW c, NoDeeper(b, c) PROVE c \in Code
BY DepthAssumption DEF Code, NoDeeper

LEMMA EmptyNoDeeper ==
  ASSUME NEW c, NoDeeper(<<>>, c) PROVE c = <<>>
<1>1. <<>> \in Seq(StmtsTo[0])
  OBVIOUS
<1>2. c \in Seq(StmtsTo[0])
  BY <1>1 DEF NoDeeper
<1>3. StmtsTo[0] = {}
  BY TreesUnfold
<1>4. c \in Seq({})
  BY <1>2, <1>3
<1> QED
  BY <1>4

\* A statement whose blocks are replaced by no deeper ones.
LEMMA Rebuilt ==
  ASSUME NEW n \in Nat, NEW s \in StmtsTo[n], NEW x, NEW y, NoDeeper(s.then, x), NoDeeper(s.else, y)
  PROVE  [s EXCEPT !.then = x, !.else = y] \in StmtsTo[n]
<1>1. n # 0 /\ n - 1 \in Nat /\ x \in Seq(StmtsTo[n - 1]) /\ y \in Seq(StmtsTo[n - 1])
  BY StmtsIn DEF NoDeeper
<1>2. s.then = <<>> => x = <<>>
  BY EmptyNoDeeper
<1>3. s.else = <<>> => y = <<>>
  BY EmptyNoDeeper
<1> DEFINE t == [s EXCEPT !.then = x, !.else = y]
<1>4. t \in [op : Kinds, to : Seq(Idents), idx : Seq(Exprs), args : Seq(Exprs),
             then : Seq(StmtsTo[n - 1]), else : Seq(StmtsTo[n - 1]),
             name : Idents, id : Int, target : Instances \cup {""}, span : Nat]
  BY <1>1, StmtsIn
<1>5. /\ t.op = s.op /\ t.to = s.to /\ t.idx = s.idx /\ t.args = s.args
      /\ t.then = x /\ t.else = y
  BY StmtsIn
<1>6. HasShape(t)
  BY <1>2, <1>3, <1>5, StmtsIn DEF HasShape
<1>7. t \in StmtLevel(StmtsTo[n - 1])
  BY <1>4, <1>6 DEF StmtLevel
<1> QED
  BY <1>1, <1>7, TreesUnfold

-----------------------------------------------------------------------------

SamplifyOf(f, in) ==
  LET block == in[1]
      c == in[2]
  IN  IF block = <<>> THEN [code |-> <<>>, counters |-> c]
      ELSE LET s == Head(block)
               then == f[<<s.then, c>>]
               else == f[<<s.else, then.counters>>]
               isSample == s.op = "sample"
               new == IF isSample THEN [s EXCEPT !.id = c.ctr, !.name = SampleName(s, Len(c.positions) + 1)]
                      ELSE [s EXCEPT !.then = then.code, !.else = else.code]
               next == IF isSample THEN Count(c, s) ELSE CountersAfter(c, else.counters)
               rest == f[<<Tail(block), next>>]
           IN  [code |-> <<new>> \o rest.code, counters |-> rest.counters]

SamplifyIn == Code \X Counters
SamplifyOut == [in \in SamplifyIn |-> {r \in [code : Code, counters : Counters] : NoDeeper(in[1], r.code)}]

\* Counting keeps the counters well typed.
LEMMA CountType ==
  ASSUME NEW c \in Counters, NEW s \in AnyStmt
  PROVE  Count(c, s) \in Counters /\ SampleName(s, Len(c.positions) + 1) \in Idents
<1>1. s.name \in Idents
  <2>1. MaxCodeDepth \in Nat
    BY DepthAssumption
  <2> QED
    BY <2>1, StmtsIn DEF AnyStmt
<1>2. c.ctr \in Nat /\ c.positions \in Seq(Idents) /\ Len(c.positions) + 1 \in Nat
  BY DEF Counters
<1>3. \A n \in Nat : <<"", n>> \in Idents
  BY DEF Idents
<1>4. SampleName(s, Len(c.positions) + 1) \in Idents
  BY <1>1, <1>2, <1>3 DEF SampleName
<1>5. Append(c.positions, SampleName(s, Len(c.positions) + 1)) \in Seq(Idents)
  BY <1>2, <1>4
<1> QED
  BY <1>2, <1>4, <1>5 DEF Count, Counters

\* A numbered sample statement.
LEMMA NumberedIn ==
  ASSUME NEW n \in Nat, NEW s \in StmtsTo[n], NEW i \in Nat, NEW x \in Idents
  PROVE  [s EXCEPT !.id = i, !.name = x] \in StmtsTo[n]
<1> DEFINE t == [s EXCEPT !.id = i, !.name = x]
<1>1. n # 0 /\ n - 1 \in Nat
  BY StmtsIn
<1>2. t \in [op : Kinds, to : Seq(Idents), idx : Seq(Exprs), args : Seq(Exprs),
             then : Seq(StmtsTo[n - 1]), else : Seq(StmtsTo[n - 1]),
             name : Idents, id : Int, target : Instances \cup {""}, span : Nat]
  <2>1. s \in [op : Kinds, to : Seq(Idents), idx : Seq(Exprs), args : Seq(Exprs),
               then : Seq(StmtsTo[n - 1]), else : Seq(StmtsTo[n - 1]),
               name : Idents, id : Int, target : Instances \cup {""}, span : Nat]
    BY StmtsIn
  <2>2. i \in Int
    OBVIOUS
  <2> QED
    BY <2>1, <2>2
<1>3. /\ t.op = s.op /\ t.to = s.to /\ t.idx = s.idx /\ t.args = s.args
      /\ t.then = s.then /\ t.else = s.else
  BY StmtsIn
<1>4. HasShape(t)
  BY <1>3, StmtsIn DEF HasShape
<1>5. t \in StmtLevel(StmtsTo[n - 1])
  BY <1>2, <1>4 DEF StmtLevel
<1> QED
  BY <1>1, <1>5, TreesUnfold

\* What the recursive calls are made with.
LEMMA SamplifyCalls ==
  ASSUME NEW g \in Typed(SamplifyIn, SamplifyOut), NEW b \in Code, NEW c \in Counters, b # <<>>
  PROVE  LET s == Head(b)
             then == g[<<s.then, c>>]
             else == g[<<s.else, then.counters>>]
             next == IF s.op = "sample" THEN Count(c, s) ELSE CountersAfter(c, else.counters)
             rest == g[<<Tail(b), next>>]
         IN  /\ then \in [code : Code, counters : Counters] /\ NoDeeper(s.then, then.code)
             /\ else \in [code : Code, counters : Counters] /\ NoDeeper(s.else, else.code)
             /\ next \in Counters
             /\ rest \in [code : Code, counters : Counters] /\ NoDeeper(Tail(b), rest.code)
<1>1. \A d \in Code, k \in Counters : g[<<d, k>>] \in [code : Code, counters : Counters] /\ NoDeeper(d, g[<<d, k>>].code)
  BY DEF Typed, SamplifyIn, SamplifyOut
<1>2. Count(c, Head(b)) \in Counters
  BY HeadParts, CountType
<1> QED
  BY <1>1, <1>2, HeadParts DEF CountersAfter

\* Samplify is total, makes code no deeper, and its definition holds everywhere.
LEMMA SamplifyUnfold ==
  /\ Samplify \in Typed(SamplifyIn, SamplifyOut)
  /\ \A in \in SamplifyIn : Samplify[in] = SamplifyOf(Samplify, in)
<1> DEFINE T == SamplifyIn
           V == SamplifyOut
           rk == FirstRank(T)
           E == [p \in T \X Typed(T, V) |-> SamplifyOf(p[2], p[1])]
<1>1. \A x \in T, g \in Typed(T, V) : E[<<x, g>>] = SamplifyOf(g, x)
  OBVIOUS
<1>2. ASSUME NEW x \in T, NEW g \in Typed(T, V), NEW h, AgreeBelow(T, rk, g, h, x)
      PROVE  SamplifyOf(g, x) = SamplifyOf(h, x)
  <2>1. PICK b \in Code, c \in Counters : x = <<b, c>>
    BY DEF SamplifyIn
  <2>2. CASE b = <<>>
    BY <2>1, <2>2 DEF SamplifyOf
  <2>3. CASE b # <<>>
    <3>1. \A d \in Code, k \in Counters : Below(CodeRank[d], CodeRank[b]) => g[<<d, k>>] = h[<<d, k>>]
      BY <1>2, <2>1, FirstRankType DEF AgreeBelow, SamplifyIn
    <3> DEFINE s == Head(b)
               then == g[<<s.then, c>>]
               else == g[<<s.else, then.counters>>]
               next == IF s.op = "sample" THEN Count(c, s) ELSE CountersAfter(c, else.counters)
    <3>2. then \in [code : Code, counters : Counters] /\ else \in [code : Code, counters : Counters] /\ next \in Counters
      BY <2>3, SamplifyCalls
    <3>3. then = h[<<s.then, c>>]
      BY <2>3, <3>1, HeadParts
    <3>4. else = h[<<s.else, then.counters>>]
      BY <2>3, <3>1, <3>2, HeadParts
    <3>5. g[<<Tail(b), next>>] = h[<<Tail(b), next>>]
      BY <2>3, <3>1, <3>2, HeadParts
    <3> QED
      BY <2>1, <3>3, <3>4, <3>5 DEF SamplifyOf
  <2> QED
    BY <2>2, <2>3
<1>3. ASSUME NEW x \in T, NEW g \in Typed(T, V) PROVE SamplifyOf(g, x) \in V[x]
  <2>1. PICK b \in Code, c \in Counters : x = <<b, c>>
    BY DEF SamplifyIn
  <2>2. SamplifyOf(g, x).counters \in Counters /\ NoDeeper(b, SamplifyOf(g, x).code)
          /\ SamplifyOf(g, x) = [code |-> SamplifyOf(g, x).code, counters |-> SamplifyOf(g, x).counters]
    <3>1. CASE b = <<>>
      BY <2>1, <3>1 DEF SamplifyOf, NoDeeper
    <3>2. CASE b # <<>>
      <4> DEFINE s == Head(b)
                 then == g[<<s.then, c>>]
                 else == g[<<s.else, then.counters>>]
                 next == IF s.op = "sample" THEN Count(c, s) ELSE CountersAfter(c, else.counters)
                 rest == g[<<Tail(b), next>>]
                 new == IF s.op = "sample" THEN [s EXCEPT !.id = c.ctr, !.name = SampleName(s, Len(c.positions) + 1)]
                        ELSE [s EXCEPT !.then = then.code, !.else = else.code]
      <4>1. /\ NoDeeper(s.then, then.code) /\ NoDeeper(s.else, else.code)
            /\ rest \in [code : Code, counters : Counters] /\ NoDeeper(Tail(b), rest.code)
        BY <3>2, SamplifyCalls
      <4>2. SampleName(s, Len(c.positions) + 1) \in Idents /\ c.ctr \in Nat
        BY <3>2, HeadParts, CountType DEF Counters
      <4>3. SamplifyOf(g, x) = [code |-> <<new>> \o rest.code, counters |-> rest.counters]
        BY <2>1, <3>2 DEF SamplifyOf
      <4>4. ASSUME NEW n \in Nat, b \in Seq(StmtsTo[n]) PROVE <<new>> \o rest.code \in Seq(StmtsTo[n])
        <5>1. s \in StmtsTo[n] /\ Tail(b) \in Seq(StmtsTo[n])
          BY <3>2, <4>4, HeadTailProperties
        <5>2. new \in StmtsTo[n]
          <6> HIDE DEF then, else, s
          <6> QED
            BY <4>1, <4>2, <5>1, Rebuilt, NumberedIn
        <5>3. rest.code \in Seq(StmtsTo[n])
          BY <4>1, <5>1 DEF NoDeeper
        <5> HIDE DEF new, rest
        <5>4. <<new>> \in Seq(StmtsTo[n])
          BY <5>2, OneSeq
        <5> QED
          BY <5>3, <5>4, ConcatProperties
      <4> HIDE DEF new, rest
      <4> QED
        BY <4>1, <4>3, <4>4 DEF NoDeeper
    <3> QED
      BY <3>1, <3>2
  <2>3. SamplifyOf(g, x).code \in Code
    BY <2>2, NoDeeperIsCode
  <2> QED
    BY <2>1, <2>2, <2>3 DEF SamplifyOut
<1>4. \A x \in T : V[x] # {}
  <2>1. \A b \in Code, c \in Counters : [code |-> b, counters |-> c] \in V[<<b, c>>]
    BY DEF SamplifyIn, SamplifyOut, NoDeeper
  <2>2. \A x \in T : \E b \in Code, c \in Counters : x = <<b, c>>
    BY DEF SamplifyIn
  <2> QED
    BY <2>1, <2>2
<1> HIDE DEF T, V, E, rk
<1>5. Recurses(T, rk, V, E)
  <2>1. \A x \in T, g \in Typed(T, V) : E[<<x, g>>] \in V[x]
    BY <1>1, <1>3
  <2>2. \A x \in T : \A g, h \in Typed(T, V) : AgreeBelow(T, rk, g, h, x) => E[<<x, g>>] = E[<<x, h>>]
    BY <1>1, <1>2
  <2>3. rk \in [T -> Nat \X Nat]
    BY FirstRankType DEF SamplifyIn, T, rk
  <2> QED
    BY <1>4, <2>1, <2>2, <2>3 DEF Recurses
<1>6. PICK f \in Typed(T, V) : f = [x \in T |-> E[<<x, f>>]]
  BY <1>5, RecursionExists
<1>7. f = [x \in T |-> SamplifyOf(f, x)]
  BY <1>1, <1>6
<1>8. Samplify = [x \in T |-> SamplifyOf(Samplify, x)]
  BY <1>7 DEF Samplify, SamplifyOf, T, SamplifyIn
<1>9. Samplify \in Typed(T, V)
  <2>1. Samplify = [x \in T |-> Samplify[x]]
    BY <1>8
  <2>2. \A x \in T : Samplify[x] = SamplifyOf(Samplify, x)
    BY <1>8
  <2> QED
    BY <1>1, <1>2, <1>5, <2>1, <2>2, RecursionTyped
<1> QED
  BY <1>8, <1>9 DEF T, V

-----------------------------------------------------------------------------
(* ReplaceUnwraps.                                                           *)

ReplaceUnwrapsOf(f, in) ==
  LET exprs == in[1]
      ctr == in[2]
  IN  IF exprs = <<>> THEN [exprs |-> <<>>, unwraps |-> <<>>]
      ELSE LET e == Head(exprs)
               first == Replaced(e, ctr, f[<<e.args, ctr>>])
               rest == f[<<Tail(exprs), Advanced(ctr, first.unwraps)>>]
           IN  [exprs |-> <<first.expr>> \o rest.exprs, unwraps |-> first.unwraps \o rest.unwraps]

NoDeeperExprs(b, c) == Len(c) = Len(b) /\ \A n \in Nat : b \in Seq(ExprsTo[n]) => c \in Seq(ExprsTo[n])
ReplacedList == [exprs : Seq(Exprs), unwraps : Seq(StmtsTo[1])]
ReplaceIn == Seq(Exprs) \X Nat
ReplaceOut == [in \in ReplaceIn |-> {r \in ReplacedList : NoDeeperExprs(in[1], r.exprs)}]

LEMMA GeneratedIn == \A n \in Nat : Generated(n) \in Idents
BY DEF Generated, Idents

\* An identifier is an expression of every depth.
LEMMA VarIn ==
  ASSUME NEW n \in Nat, n # 0, NEW x \in Idents PROVE Var(x) \in ExprsTo[n]
<1>1. Var(x) \in ExprLevel(ExprsTo[n - 1])
  BY DEF Var, Expr, ExprLevel, Operations
<1> QED
  BY <1>1, TreesUnfold

\* A plain assignment is a statement without blocks.
LEMMA AssignIn ==
  ASSUME NEW x \in Idents, NEW e \in Exprs
  PROVE  /\ Assign(x, <<>>, e) \in StmtsTo[1]
         /\ Assign(x, <<>>, e).op = "assign" /\ Assign(x, <<>>, e).args = <<e>>
         /\ Assign(x, <<>>, e).idx = <<>> /\ Assign(x, <<>>, e).to = <<x>>
<1> DEFINE t == Assign(x, <<>>, e)
<1>1. t.op = "assign" /\ t.args = <<e>> /\ t.idx = <<>> /\ t.to = <<x>> /\ t.then = <<>> /\ t.else = <<>>
  <2>1. t = [op |-> "assign", to |-> <<x>>, idx |-> <<>>, args |-> <<e>>, then |-> <<>>, else |-> <<>>,
             name |-> Ident(""), id |-> Unnumbered, target |-> "", span |-> 0]
    BY DEF Assign, Stmt
  <2> HIDE DEF t
  <2>2. t.op = "assign"
    BY <2>1
  <2>3. t.args = <<e>>
    BY <2>1
  <2>4. t.idx = <<>>
    BY <2>1
  <2>5. t.then = <<>> /\ t.else = <<>>
    BY <2>1
  <2>6. t.to = <<x>>
    BY <2>1
  <2> QED
    BY <2>2, <2>3, <2>4, <2>5, <2>6
<1>2. Ident("") \in Idents /\ Unnumbered \in Int
  <2>1. 0 \in Nat /\ -1 \in Int
    OBVIOUS
  <2>2. Ident("") \in Idents
    BY <2>1 DEF Ident, Idents
  <2> QED
    BY <2>1, <2>2 DEF Unnumbered
<1>3. <<x>> \in Seq(Idents) /\ <<e>> \in Seq(Exprs)
  BY OneSeq
<1>4. <<>> \in Seq(StmtsTo[0]) /\ <<>> \in Seq(Exprs) /\ "assign" \in Kinds /\ "" \in Instances \cup {""} /\ 0 \in Nat
  BY DEF Kinds
<1>5. t \in [op : Kinds, to : Seq(Idents), idx : Seq(Exprs), args : Seq(Exprs),
             then : Seq(StmtsTo[0]), else : Seq(StmtsTo[0]),
             name : Idents, id : Int, target : Instances \cup {""}, span : Nat]
  BY <1>2, <1>3, <1>4 DEF Assign, Stmt
<1> HIDE DEF t
<1>6. HasShape(t)
  <2>1. Len(t.args) = 1 /\ Len(t.to) = 1
    BY <1>1
  <2>2. t.op \notin {"parse", "ite", "sample", "invoke", "for"}
    BY <1>1
  <2> QED
    BY <1>1, <2>1, <2>2 DEF HasShape
<1>7. t \in StmtLevel(StmtsTo[0])
  BY <1>5, <1>6 DEF StmtLevel
<1>8. StmtsTo[1] = StmtLevel(StmtsTo[0])
  BY TreesUnfold
<1> QED
  BY <1>1, <1>7, <1>8 DEF t

LEMMA AppendIn ==
  ASSUME NEW S, NEW u \in Seq(S), NEW x \in S PROVE Append(u, x) \in Seq(S)
OBVIOUS

\* An expression whose parts are replaced by no deeper ones.
LEMMA RebuiltExpr ==
  ASSUME NEW n \in Nat, NEW e \in ExprsTo[n], NEW x, NoDeeperExprs(e.args, x)
  PROVE  [e EXCEPT !.args = x] \in ExprsTo[n]
<1>1. n # 0 /\ n - 1 \in Nat /\ e \in [op : Operations, name : Idents, args : Seq(ExprsTo[n - 1])]
  BY ExprsIn
<1>2. x \in Seq(ExprsTo[n - 1])
  BY <1>1 DEF NoDeeperExprs
<1>3. [e EXCEPT !.args = x] \in ExprLevel(ExprsTo[n - 1])
  BY <1>1, <1>2 DEF ExprLevel
<1> QED
  BY <1>1, <1>3, TreesUnfold

LEMMA AdvancedType ==
  ASSUME NEW n \in Nat, NEW S, NEW u \in Seq(S) PROVE Advanced(n, u) \in Nat
BY LenProperties DEF Advanced

\* One expression is replaced by one that is no deeper.
LEMMA ReplacedType ==
  ASSUME NEW e \in Exprs, NEW ctr \in Nat, NEW subs \in ReplacedList, NoDeeperExprs(e.args, subs.exprs)
  PROVE  /\ Replaced(e, ctr, subs).unwraps \in Seq(StmtsTo[1])
         /\ \A n \in Nat : e \in ExprsTo[n] => Replaced(e, ctr, subs).expr \in ExprsTo[n]
<1> DEFINE new == [e EXCEPT !.args = subs.exprs]
           x == Generated(Advanced(ctr, subs.unwraps))
<1>1. subs.unwraps \in Seq(StmtsTo[1])
  BY DEF ReplacedList
<1>2. new \in Exprs
  <2>1. MaxExprDepth \in Nat
    BY DepthAssumption
  <2> QED
    BY <2>1, RebuiltExpr DEF Exprs
<1>3. x \in Idents
  BY <1>1, AdvancedType, GeneratedIn
<1>4. \A n \in Nat : e \in ExprsTo[n] => n # 0 /\ new \in ExprsTo[n]
  BY ExprsIn, RebuiltExpr
<1>5. Replaced(e, ctr, subs) =
        IF e.op = "unwrap" THEN [expr |-> Var(x), unwraps |-> Append(subs.unwraps, Assign(x, <<>>, new))]
        ELSE [expr |-> new, unwraps |-> subs.unwraps]
  BY DEF Replaced
<1> HIDE DEF new, x
<1>6. Append(subs.unwraps, Assign(x, <<>>, new)) \in Seq(StmtsTo[1])
  BY <1>1, <1>2, <1>3, AssignIn, AppendIn
<1>7. \A n \in Nat : n # 0 => Var(x) \in ExprsTo[n]
  BY <1>3, VarIn
<1> QED
  BY <1>1, <1>4, <1>5, <1>6, <1>7

\* The results of the calls of ReplaceUnwraps are well typed.
LEMMA ReplaceCalls ==
  ASSUME NEW g \in Typed(ReplaceIn, ReplaceOut), NEW exprs \in Seq(Exprs), NEW ctr \in Nat, exprs # <<>>
  PROVE  LET e == Head(exprs)
             subs == g[<<e.args, ctr>>]
             first == Replaced(e, ctr, subs)
             rest == g[<<Tail(exprs), Advanced(ctr, first.unwraps)>>]
         IN  /\ e \in Exprs /\ e.args \in Seq(Exprs)
             /\ subs \in ReplacedList /\ NoDeeperExprs(e.args, subs.exprs)
             /\ first.unwraps \in Seq(StmtsTo[1]) /\ Advanced(ctr, first.unwraps) \in Nat
             /\ rest \in ReplacedList /\ NoDeeperExprs(Tail(exprs), rest.exprs)
<1> DEFINE e == Head(exprs)
           subs == g[<<e.args, ctr>>]
           first == Replaced(e, ctr, subs)
           rest == g[<<Tail(exprs), Advanced(ctr, first.unwraps)>>]
<1>1. \A d \in Seq(Exprs), k \in Nat : g[<<d, k>>] \in ReplacedList /\ NoDeeperExprs(d, g[<<d, k>>].exprs)
  BY DEF Typed, ReplaceIn, ReplaceOut
<1>2. e \in Exprs /\ e.args \in Seq(Exprs) /\ Tail(exprs) \in Seq(Exprs)
  BY ExprsTail, ExprsParts
<1>3. subs \in ReplacedList /\ NoDeeperExprs(e.args, subs.exprs)
  BY <1>1, <1>2
<1> HIDE DEF e, subs
<1>4. first.unwraps \in Seq(StmtsTo[1])
  BY <1>2, <1>3, ReplacedType
<1> HIDE DEF first
<1>5. Advanced(ctr, first.unwraps) \in Nat
  BY <1>4, AdvancedType
<1>6. rest \in ReplacedList /\ NoDeeperExprs(Tail(exprs), rest.exprs)
  BY <1>1, <1>2, <1>5
<1> QED
  BY <1>2, <1>3, <1>4, <1>5, <1>6 DEF first, e, subs

ReplaceRank == [in \in ReplaceIn |-> ExprsRank[in[1]]]

\* ReplaceUnwraps is total, keeps the number and depth of the expressions, and
\* its definition holds everywhere.
LEMMA ReplaceUnwrapsUnfold ==
  /\ ReplaceUnwraps \in Typed(ReplaceIn, ReplaceOut)
  /\ \A in \in ReplaceIn : ReplaceUnwraps[in] = ReplaceUnwrapsOf(ReplaceUnwraps, in)
<1> DEFINE T == ReplaceIn
           V == ReplaceOut
           rk == ReplaceRank
           E == [p \in T \X Typed(T, V) |-> ReplaceUnwrapsOf(p[2], p[1])]
<1>1. \A x \in T, g \in Typed(T, V) : E[<<x, g>>] = ReplaceUnwrapsOf(g, x)
  OBVIOUS
<1>2. ASSUME NEW in \in T, NEW g \in Typed(T, V), NEW h, AgreeBelow(T, rk, g, h, in)
      PROVE  ReplaceUnwrapsOf(g, in) = ReplaceUnwrapsOf(h, in)
  <2>1. PICK exprs \in Seq(Exprs), ctr \in Nat : in = <<exprs, ctr>>
    BY DEF ReplaceIn
  <2>2. CASE exprs = <<>>
    BY <2>1, <2>2 DEF ReplaceUnwrapsOf
  <2>3. CASE exprs # <<>>
    <3>1. \A d \in Seq(Exprs), k \in Nat : Below(ExprsRank[d], ExprsRank[exprs]) => g[<<d, k>>] = h[<<d, k>>]
      BY <1>2, <2>1 DEF AgreeBelow, ReplaceIn, ReplaceRank
    <3> DEFINE e == Head(exprs)
               subs == g[<<e.args, ctr>>]
               first == Replaced(e, ctr, subs)
    <3>2. Advanced(ctr, first.unwraps) \in Nat
      BY <2>3, ReplaceCalls
    <3>3. subs = h[<<e.args, ctr>>]
      BY <2>3, <3>1, ExprsTail, ExprsParts
    <3>4. g[<<Tail(exprs), Advanced(ctr, first.unwraps)>>] = h[<<Tail(exprs), Advanced(ctr, first.unwraps)>>]
      <4> HIDE DEF first
      <4> QED
        BY <2>3, <3>1, <3>2, ExprsTail
    <3> QED
      BY <2>1, <3>3, <3>4 DEF ReplaceUnwrapsOf
  <2> QED
    BY <2>2, <2>3
<1>3. ASSUME NEW in \in T, NEW g \in Typed(T, V) PROVE ReplaceUnwrapsOf(g, in) \in V[in]
  <2>1. PICK exprs \in Seq(Exprs), ctr \in Nat : in = <<exprs, ctr>>
    BY DEF ReplaceIn
  <2> DEFINE r == ReplaceUnwrapsOf(g, in)
  <2>2. r \in [exprs : {r.exprs}, unwraps : Seq(StmtsTo[1])] /\ NoDeeperExprs(exprs, r.exprs)
    <3>1. CASE exprs = <<>>
      BY <2>1, <3>1 DEF ReplaceUnwrapsOf, NoDeeperExprs
    <3>2. CASE exprs # <<>>
      <4> DEFINE e == Head(exprs)
                 subs == g[<<e.args, ctr>>]
                 first == Replaced(e, ctr, subs)
                 rest == g[<<Tail(exprs), Advanced(ctr, first.unwraps)>>]
      <4>1. /\ e \in Exprs /\ subs \in ReplacedList /\ NoDeeperExprs(e.args, subs.exprs)
            /\ first.unwraps \in Seq(StmtsTo[1])
            /\ rest \in ReplacedList /\ NoDeeperExprs(Tail(exprs), rest.exprs)
        BY <3>2, ReplaceCalls
      <4>2. r = [exprs |-> <<first.expr>> \o rest.exprs, unwraps |-> first.unwraps \o rest.unwraps]
        BY <2>1, <3>2 DEF ReplaceUnwrapsOf
      <4>4. ASSUME NEW n \in Nat, exprs \in Seq(ExprsTo[n])
            PROVE  <<first.expr>> \o rest.exprs \in Seq(ExprsTo[n])
        <5>1. e \in ExprsTo[n] /\ Tail(exprs) \in Seq(ExprsTo[n])
          BY <3>2, <4>4, HeadTailProperties
        <5>2. first.expr \in ExprsTo[n]
          BY <4>1, <5>1, ReplacedType
        <5>3. rest.exprs \in Seq(ExprsTo[n])
          BY <4>1, <5>1 DEF NoDeeperExprs
        <5> HIDE DEF first, rest
        <5>4. <<first.expr>> \in Seq(ExprsTo[n])
          BY <5>2, OneSeq
        <5> QED
          BY <5>3, <5>4, ConcatProperties
      <4> HIDE DEF first, rest, r
      <4>5. first.unwraps \o rest.unwraps \in Seq(StmtsTo[1])
        BY <4>1, ConcatProperties DEF ReplacedList
      <4>6. Len(<<first.expr>> \o rest.exprs) = Len(exprs)
        <5>1. MaxExprDepth \in Nat
          BY DepthAssumption
        <5>2. first.expr \in Exprs /\ rest.exprs \in Seq(Exprs)
          BY <4>1, <5>1, ReplacedType DEF first, ReplacedList, Exprs
        <5>3. Len(<<first.expr>> \o rest.exprs) = 1 + Len(rest.exprs)
          BY <5>2, OneSeq, ConcatProperties
        <5>4. Len(rest.exprs) = Len(Tail(exprs)) /\ Len(Tail(exprs)) = Len(exprs) - 1 /\ Len(exprs) \in Nat
          BY <3>2, <4>1, HeadTailProperties, LenProperties DEF NoDeeperExprs
        <5>5. \A k \in Nat : 1 + (k - 1) = k
          OBVIOUS
        <5>6. Len(<<first.expr>> \o rest.exprs) = 1 + (Len(exprs) - 1)
          BY <5>3, <5>4
        <5> QED
          BY <5>4, <5>5, <5>6
      <4> QED
        BY <4>2, <4>4, <4>5, <4>6 DEF NoDeeperExprs
    <3> QED
      BY <3>1, <3>2
  <2> HIDE DEF r
  <2>3. r.exprs \in Seq(Exprs)
    BY <2>2, DepthAssumption DEF NoDeeperExprs, Exprs
  <2>4. r \in ReplacedList
    BY <2>2, <2>3 DEF ReplacedList
  <2>5. r \in V[in]
    BY <2>1, <2>2, <2>4 DEF ReplaceOut
  <2> QED
    BY <2>5 DEF r
<1>4. \A in \in T : V[in] # {}
  <2>3. <<>> \in Seq(StmtsTo[1])
    OBVIOUS
  <2>1. \A es \in Seq(Exprs), n \in Nat : [exprs |-> es, unwraps |-> <<>>] \in V[<<es, n>>]
    BY <2>3 DEF ReplaceIn, ReplaceOut, ReplacedList, NoDeeperExprs
  <2>2. \A in \in T : \E es \in Seq(Exprs), n \in Nat : in = <<es, n>>
    BY DEF ReplaceIn
  <2> QED
    BY <2>1, <2>2
<1> HIDE DEF T, V, E, rk
<1>5. Recurses(T, rk, V, E)
  <2>1. \A x \in T, g \in Typed(T, V) : E[<<x, g>>] \in V[x]
    BY <1>1, <1>3
  <2>2. \A x \in T : \A g, h \in Typed(T, V) : AgreeBelow(T, rk, g, h, x) => E[<<x, g>>] = E[<<x, h>>]
    BY <1>1, <1>2
  <2>3. rk \in [T -> Nat \X Nat]
    BY CodeRankType DEF ReplaceRank, ReplaceIn, T, rk
  <2> QED
    BY <1>4, <2>1, <2>2, <2>3 DEF Recurses
<1>6. PICK f \in Typed(T, V) : f = [x \in T |-> E[<<x, f>>]]
  BY <1>5, RecursionExists
<1>7. f = [x \in T |-> ReplaceUnwrapsOf(f, x)]
  BY <1>1, <1>6
<1>8. ReplaceUnwraps = [x \in T |-> ReplaceUnwrapsOf(ReplaceUnwraps, x)]
  BY <1>7 DEF ReplaceUnwraps, ReplaceUnwrapsOf, T, ReplaceIn
<1>9. ReplaceUnwraps \in Typed(T, V)
  <2>1. ReplaceUnwraps = [x \in T |-> ReplaceUnwraps[x]]
    BY <1>8
  <2>2. \A x \in T : ReplaceUnwraps[x] = ReplaceUnwrapsOf(ReplaceUnwraps, x)
    BY <1>8
  <2> QED
    BY <1>1, <1>2, <1>5, <2>1, <2>2, RecursionTyped
<1> QED
  BY <1>8, <1>9 DEF T, V

-----------------------------------------------------------------------------
(* Unwrapify.                                                                *)

\* What ReplaceUnwraps returns.
LEMMA ReplaceUnwrapsType ==
  ASSUME NEW exprs \in Seq(Exprs), NEW ctr \in Nat
  PROVE  /\ ReplaceUnwraps[<<exprs, ctr>>].exprs \in Seq(Exprs)
         /\ ReplaceUnwraps[<<exprs, ctr>>].unwraps \in Seq(StmtsTo[1])
         /\ Len(ReplaceUnwraps[<<exprs, ctr>>].exprs) = Len(exprs)
         /\ Advanced(ctr, ReplaceUnwraps[<<exprs, ctr>>].unwraps) \in Nat
<1>1. ReplaceUnwraps[<<exprs, ctr>>] \in ReplacedList /\ NoDeeperExprs(exprs, ReplaceUnwraps[<<exprs, ctr>>].exprs)
  BY ReplaceUnwrapsUnfold DEF Typed, ReplaceIn, ReplaceOut
<1>2. ReplaceUnwraps[<<exprs, ctr>>].unwraps \in Seq(StmtsTo[1])
  BY <1>1 DEF ReplacedList
<1>3. Advanced(ctr, ReplaceUnwraps[<<exprs, ctr>>].unwraps) \in Nat
  BY <1>2, AdvancedType
<1> QED
  BY <1>1, <1>2, <1>3 DEF ReplacedList, NoDeeperExprs

\* A statement whose expressions and blocks are replaced.
Unwrapping(s, es, x, y) ==
  [s EXCEPT !.idx = SubSeq(es, 1, Len(s.idx)), !.args = SubSeq(es, Len(s.idx) + 1, Len(es)), !.then = x, !.else = y]

UnwrapifyOf(f, in) ==
  LET block == in[1]
      ctr == in[2]
  IN  IF block = <<>> THEN [code |-> <<>>, ctr |-> ctr]
      ELSE LET s == Head(block)
               r == ReplaceUnwraps[<<ExprsOf(s), ctr>>]
               then == f[<<s.then, Advanced(ctr, r.unwraps)>>]
               else == f[<<s.else, then.ctr>>]
               rest == f[<<Tail(block), else.ctr>>]
           IN  [code |-> r.unwraps \o <<Unwrapping(s, r.exprs, then.code, else.code)>> \o rest.code, ctr |-> rest.ctr]

Unwrapped == [code : Code, ctr : Nat]
UnwrapifyIn == Code \X Nat
UnwrapifyOut == [in \in UnwrapifyIn |-> {r \in Unwrapped : NoDeeper(in[1], r.code)}]

\* The expressions of a statement, counted.
LEMMA ExprsOfType ==
  ASSUME NEW n \in Nat, NEW s \in StmtsTo[n]
  PROVE  /\ s.idx \in Seq(Exprs) /\ s.args \in Seq(Exprs) /\ ExprsOf(s) \in Seq(Exprs)
         /\ Len(ExprsOf(s)) = Len(s.idx) + Len(s.args) /\ Len(s.idx) \in Nat /\ Len(s.args) \in Nat
<1>1. s.idx \in Seq(Exprs) /\ s.args \in Seq(Exprs)
  BY StmtsIn
<1> QED
  BY <1>1, ConcatProperties, LenProperties DEF ExprsOf

\* The results of the calls of Unwrapify are well typed.
LEMMA UnwrapifyCalls ==
  ASSUME NEW g \in Typed(UnwrapifyIn, UnwrapifyOut), NEW b \in Code, NEW ctr \in Nat, b # <<>>
  PROVE  LET s == Head(b)
             r == ReplaceUnwraps[<<ExprsOf(s), ctr>>]
             then == g[<<s.then, Advanced(ctr, r.unwraps)>>]
             else == g[<<s.else, then.ctr>>]
             rest == g[<<Tail(b), else.ctr>>]
         IN  /\ ExprsOf(s) \in Seq(Exprs)
             /\ then \in Unwrapped /\ NoDeeper(s.then, then.code)
             /\ else \in Unwrapped /\ NoDeeper(s.else, else.code)
             /\ rest \in Unwrapped /\ NoDeeper(Tail(b), rest.code)
<1>1. \A d \in Code, k \in Nat : g[<<d, k>>] \in Unwrapped /\ NoDeeper(d, g[<<d, k>>].code)
  BY DEF Typed, UnwrapifyIn, UnwrapifyOut
<1>2. MaxCodeDepth \in Nat
  BY DepthAssumption
<1>3. ExprsOf(Head(b)) \in Seq(Exprs)
  BY <1>2, HeadParts, ExprsOfType DEF AnyStmt
<1>4. Advanced(ctr, ReplaceUnwraps[<<ExprsOf(Head(b)), ctr>>].unwraps) \in Nat
  BY <1>3, ReplaceUnwrapsType
<1> QED
  BY <1>1, <1>3, <1>4, HeadParts DEF Unwrapped

\* A sequence cut in two.
LEMMA SplitSeq ==
  ASSUME NEW S, NEW es \in Seq(S), NEW k \in 0 .. Len(es)
  PROVE  /\ SubSeq(es, 1, k) \in Seq(S) /\ Len(SubSeq(es, 1, k)) = k
         /\ SubSeq(es, k + 1, Len(es)) \in Seq(S) /\ Len(SubSeq(es, k + 1, Len(es))) = Len(es) - k
         /\ SubSeq(es, 1, k) \o SubSeq(es, k + 1, Len(es)) = es
<1>1. Len(es) \in Nat /\ k \in Nat /\ k <= Len(es)
  BY LenProperties
<1>2. \A i \in 1 .. Len(es) : es[i] \in S
  BY ElementOfSeq
<1>3. (\A i \in 1 .. k : i \in 1 .. Len(es)) /\ (\A i \in k + 1 .. Len(es) : i \in 1 .. Len(es))
  BY <1>1
<1>4. SubSeq(es, 1, k) \in Seq(S) /\ Len(SubSeq(es, 1, k)) = IF 1 <= k THEN k - 1 + 1 ELSE 0
  <2>1. \A i \in 1 .. k : es[i] \in S
    BY <1>2, <1>3
  <2>2. 1 \in Int /\ k \in Int
    BY <1>1
  <2> QED
    BY <2>1, <2>2, SubSeqProperties
<1>5. /\ SubSeq(es, k + 1, Len(es)) \in Seq(S)
      /\ Len(SubSeq(es, k + 1, Len(es))) = IF k + 1 <= Len(es) THEN Len(es) - (k + 1) + 1 ELSE 0
  <2>1. \A i \in k + 1 .. Len(es) : es[i] \in S
    BY <1>2, <1>3
  <2>2. k + 1 \in Int /\ Len(es) \in Int
    BY <1>1
  <2> QED
    BY <2>1, <2>2, SubSeqProperties
<1>6. (IF 1 <= k THEN k - 1 + 1 ELSE 0) = k
  BY <1>1
<1>7. (IF k + 1 <= Len(es) THEN Len(es) - (k + 1) + 1 ELSE 0) = Len(es) - k
  BY <1>1
<1>8. SubSeq(es, 1, k) \o SubSeq(es, k + 1, Len(es)) = SubSeq(es, 1, Len(es))
  <2>1. 1 \in 1 .. Len(es) + 1 /\ k \in 1 - 1 .. Len(es) /\ Len(es) \in k .. Len(es)
    BY <1>1
  <2> QED
    BY <2>1, ConcatAdjacentSubSeq
<1>9. SubSeq(es, 1, k) \o SubSeq(es, k + 1, Len(es)) = es
  BY <1>8, SubSeqFull
<1>10. Len(SubSeq(es, 1, k)) = k
  BY <1>4, <1>6
<1>11. Len(SubSeq(es, k + 1, Len(es))) = Len(es) - k
  BY <1>5, <1>7
<1> QED
  BY <1>4, <1>5, <1>9, <1>10, <1>11

\* A statement with other expressions, as many as it had, is a statement.
LEMMA UnwrappingIn ==
  ASSUME NEW n \in Nat, NEW s \in StmtsTo[n], NEW es \in Seq(Exprs), Len(es) = Len(ExprsOf(s)),
         NEW x, NEW y, NoDeeper(s.then, x), NoDeeper(s.else, y)
  PROVE  LET t == Unwrapping(s, es, x, y)
         IN  /\ t \in StmtsTo[n]
             /\ ExprsOf(t) = es /\ Len(t.args) = Len(s.args) /\ (t.idx = <<>> <=> s.idx = <<>>)
             /\ t.op = s.op /\ t.to = s.to /\ t.id = s.id /\ t.span = s.span /\ t.then = x /\ t.else = y
             /\ t.name = s.name
<1> DEFINE idx == SubSeq(es, 1, Len(s.idx))
           args == SubSeq(es, Len(s.idx) + 1, Len(es))
           t == Unwrapping(s, es, x, y)
<1>1. /\ Len(es) = Len(s.idx) + Len(s.args) /\ Len(s.idx) \in Nat /\ Len(s.args) \in Nat
      /\ s.idx \in Seq(Exprs)
  BY ExprsOfType
<1>2. idx \in Seq(Exprs) /\ Len(idx) = Len(s.idx) /\ args \in Seq(Exprs) /\ Len(args) = Len(s.args) /\ idx \o args = es
  <2> HIDE DEF idx, args, t
  <2>2. \A i, j, k \in Nat : k = i + j => i \in 0 .. k /\ k - i = j
    OBVIOUS
  <2>3. Len(es) \in Nat
    BY LenProperties
  <2>1. Len(s.idx) \in 0 .. Len(es) /\ Len(es) - Len(s.idx) = Len(s.args)
    BY <1>1, <2>2, <2>3
  <2> QED
    BY <2>1, SplitSeq DEF idx, args
<1>3. n # 0 /\ n - 1 \in Nat /\ x \in Seq(StmtsTo[n - 1]) /\ y \in Seq(StmtsTo[n - 1])
  BY StmtsIn DEF NoDeeper
<1>4. (s.then = <<>> => x = <<>>) /\ (s.else = <<>> => y = <<>>)
  BY EmptyNoDeeper
<1>5. idx = <<>> <=> s.idx = <<>>
  BY <1>1, <1>2, EmptySeq
<1>6. t = [s EXCEPT !.idx = idx, !.args = args, !.then = x, !.else = y]
  BY DEF Unwrapping
<1> HIDE DEF idx, args, t
<1>7. t \in [op : Kinds, to : Seq(Idents), idx : Seq(Exprs), args : Seq(Exprs),
             then : Seq(StmtsTo[n - 1]), else : Seq(StmtsTo[n - 1]),
             name : Idents, id : Int, target : Instances \cup {""}, span : Nat]
  BY <1>2, <1>3, <1>6, StmtsIn
<1>8. /\ t.op = s.op /\ t.to = s.to /\ t.id = s.id /\ t.span = s.span /\ t.name = s.name
      /\ t.idx = idx /\ t.args = args /\ t.then = x /\ t.else = y
  BY <1>6, StmtsIn
<1>9. HasShape(t)
  <2>1. HasShape(s)
    BY StmtsIn
  <2>2. t.idx # <<>> => t.to # <<>>
    BY <1>5, <1>8, <2>1 DEF HasShape
  <2>3. t.op \in {"assign", "parse", "ite"} => Len(t.args) = 1
    BY <1>2, <1>8, <2>1 DEF HasShape
  <2> QED
    BY <1>4, <1>8, <2>1, <2>2, <2>3 DEF HasShape
<1>10. t \in StmtsTo[n]
  <2>1. t \in StmtLevel(StmtsTo[n - 1])
    BY <1>7, <1>9 DEF StmtLevel
  <2> QED
    BY <1>3, <2>1, TreesUnfold
<1> QED
  BY <1>2, <1>5, <1>8, <1>10 DEF t, ExprsOf

\* Unwrapify is total, makes code no deeper, and its definition holds everywhere.
LEMMA UnwrapifyUnfold ==
  /\ Unwrapify \in Typed(UnwrapifyIn, UnwrapifyOut)
  /\ \A in \in UnwrapifyIn : Unwrapify[in] = UnwrapifyOf(Unwrapify, in)
<1> DEFINE T == UnwrapifyIn
           V == UnwrapifyOut
           rk == FirstRank(T)
           E == [p \in T \X Typed(T, V) |-> UnwrapifyOf(p[2], p[1])]
<1>1. \A x \in T, g \in Typed(T, V) : E[<<x, g>>] = UnwrapifyOf(g, x)
  OBVIOUS
<1>2. ASSUME NEW in \in T, NEW g \in Typed(T, V), NEW h, AgreeBelow(T, rk, g, h, in)
      PROVE  UnwrapifyOf(g, in) = UnwrapifyOf(h, in)
  <2>1. PICK b \in Code, ctr \in Nat : in = <<b, ctr>>
    BY DEF UnwrapifyIn
  <2>2. CASE b = <<>>
    BY <2>1, <2>2 DEF UnwrapifyOf
  <2>3. CASE b # <<>>
    <3>1. \A d \in Code, k \in Nat : Below(CodeRank[d], CodeRank[b]) => g[<<d, k>>] = h[<<d, k>>]
      BY <1>2, <2>1 DEF AgreeBelow, UnwrapifyIn, FirstRank
    <3> DEFINE s == Head(b)
               r == ReplaceUnwraps[<<ExprsOf(s), ctr>>]
               then == g[<<s.then, Advanced(ctr, r.unwraps)>>]
               else == g[<<s.else, then.ctr>>]
               rest == g[<<Tail(b), else.ctr>>]
    <3>2. ExprsOf(s) \in Seq(Exprs) /\ then.ctr \in Nat /\ else.ctr \in Nat
      BY <2>3, UnwrapifyCalls DEF Unwrapped
    <3>3. Advanced(ctr, r.unwraps) \in Nat
      BY <3>2, ReplaceUnwrapsType
    <3>4. then = h[<<s.then, Advanced(ctr, r.unwraps)>>]
      BY <2>3, <3>1, <3>3, HeadParts
    <3>5. else = h[<<s.else, then.ctr>>]
      BY <2>3, <3>1, <3>2, HeadParts
    <3>6. rest = h[<<Tail(b), else.ctr>>]
      BY <2>3, <3>1, <3>2, HeadParts
    <3> DEFINE hthen == h[<<s.then, Advanced(ctr, r.unwraps)>>]
               helse == h[<<s.else, hthen.ctr>>]
               hrest == h[<<Tail(b), helse.ctr>>]
    <3>7. UnwrapifyOf(g, in) = [code |-> r.unwraps \o <<Unwrapping(s, r.exprs, then.code, else.code)>> \o rest.code,
                                ctr |-> rest.ctr]
      BY <2>1, <2>3 DEF UnwrapifyOf
    <3>8. UnwrapifyOf(h, in) = [code |-> r.unwraps \o <<Unwrapping(s, r.exprs, hthen.code, helse.code)>> \o hrest.code,
                                ctr |-> hrest.ctr]
      BY <2>1, <2>3 DEF UnwrapifyOf
    <3>9. then = hthen
      BY <3>4
    <3>10. else = helse
      BY <3>5, <3>9
    <3>11. rest = hrest
      BY <3>6, <3>10
    <3> HIDE DEF s, r, then, else, rest, hthen, helse, hrest
    <3> QED
      BY <3>7, <3>8, <3>9, <3>10, <3>11
  <2> QED
    BY <2>2, <2>3
<1>3. ASSUME NEW in \in T, NEW g \in Typed(T, V) PROVE UnwrapifyOf(g, in) \in V[in]
  <2>1. PICK b \in Code, ctr \in Nat : in = <<b, ctr>>
    BY DEF UnwrapifyIn
  <2> DEFINE o == UnwrapifyOf(g, in)
  <2>2. o \in [code : {o.code}, ctr : Nat] /\ NoDeeper(b, o.code)
    <3>1. CASE b = <<>>
      BY <2>1, <3>1 DEF UnwrapifyOf, NoDeeper
    <3>2. CASE b # <<>>
      <4> DEFINE s == Head(b)
                 r == ReplaceUnwraps[<<ExprsOf(s), ctr>>]
                 then == g[<<s.then, Advanced(ctr, r.unwraps)>>]
                 else == g[<<s.else, then.ctr>>]
                 rest == g[<<Tail(b), else.ctr>>]
                 new == Unwrapping(s, r.exprs, then.code, else.code)
      <4>1. /\ ExprsOf(s) \in Seq(Exprs)
            /\ NoDeeper(s.then, then.code) /\ NoDeeper(s.else, else.code)
            /\ rest \in Unwrapped /\ NoDeeper(Tail(b), rest.code)
        BY <3>2, UnwrapifyCalls
      <4>2. o = [code |-> r.unwraps \o <<new>> \o rest.code, ctr |-> rest.ctr]
        BY <2>1, <3>2 DEF UnwrapifyOf
      <4>3. r.exprs \in Seq(Exprs) /\ r.unwraps \in Seq(StmtsTo[1]) /\ Len(r.exprs) = Len(ExprsOf(s))
        BY <4>1, ReplaceUnwrapsType
      <4>4. ASSUME NEW n \in Nat, b \in Seq(StmtsTo[n]) PROVE r.unwraps \o <<new>> \o rest.code \in Seq(StmtsTo[n])
        <5>1. s \in StmtsTo[n] /\ Tail(b) \in Seq(StmtsTo[n])
          BY <3>2, <4>4, HeadTailProperties
        <5>2. new \in StmtsTo[n]
          <6> HIDE DEF s, r, then, else
          <6> QED
            BY <4>1, <4>3, <5>1, UnwrappingIn
        <5>3. rest.code \in Seq(StmtsTo[n])
          BY <4>1, <5>1 DEF NoDeeper
        <5>4. r.unwraps \in Seq(StmtsTo[n])
          <6>1. n # 0
            BY <5>1, StmtsIn
          <6>2. 1 \in Nat /\ 1 <= n
            BY <6>1
          <6> QED
            BY <4>3, <6>2, TreesGrow
        <5> HIDE DEF new, rest, r
        <5>5. <<new>> \in Seq(StmtsTo[n])
          BY <5>2, OneSeq
        <5>6. <<new>> \o rest.code \in Seq(StmtsTo[n])
          BY <5>3, <5>5, ConcatProperties
        <5>7. r.unwraps \o <<new>> \in Seq(StmtsTo[n])
          BY <5>4, <5>5, ConcatProperties
        <5> QED
          BY <5>3, <5>7, ConcatProperties
      <4> HIDE DEF new, rest, r, o
      <4> QED
        BY <4>1, <4>2, <4>4 DEF NoDeeper, Unwrapped
    <3> QED
      BY <3>1, <3>2
  <2> HIDE DEF o
  <2>3. o.code \in Code
    BY <2>2, NoDeeperIsCode
  <2>4. o \in V[in]
    BY <2>1, <2>2, <2>3 DEF UnwrapifyOut, Unwrapped
  <2> QED
    BY <2>4 DEF o
<1>4. \A in \in T : V[in] # {}
  <2>1. \A b \in Code, n \in Nat : [code |-> b, ctr |-> n] \in V[<<b, n>>]
    BY DEF UnwrapifyIn, UnwrapifyOut, Unwrapped, NoDeeper
  <2>2. \A in \in T : \E b \in Code, n \in Nat : in = <<b, n>>
    BY DEF UnwrapifyIn
  <2> QED
    BY <2>1, <2>2
<1> HIDE DEF T, V, E, rk
<1>5. Recurses(T, rk, V, E)
  <2>1. \A x \in T, g \in Typed(T, V) : E[<<x, g>>] \in V[x]
    BY <1>1, <1>3
  <2>2. \A x \in T : \A g, h \in Typed(T, V) : AgreeBelow(T, rk, g, h, x) => E[<<x, g>>] = E[<<x, h>>]
    BY <1>1, <1>2
  <2>3. rk \in [T -> Nat \X Nat]
    BY FirstRankType DEF UnwrapifyIn, T, rk
  <2> QED
    BY <1>4, <2>1, <2>2, <2>3 DEF Recurses
<1>6. PICK f \in Typed(T, V) : f = [x \in T |-> E[<<x, f>>]]
  BY <1>5, RecursionExists
<1>7. f = [x \in T |-> UnwrapifyOf(f, x)]
  BY <1>1, <1>6
<1>8. Unwrapify = [x \in T |-> UnwrapifyOf(Unwrapify, x)]
  BY <1>7 DEF Unwrapify, UnwrapifyOf, Unwrapping, T, UnwrapifyIn
<1>9. Unwrapify \in Typed(T, V)
  <2>1. Unwrapify = [x \in T |-> Unwrapify[x]]
    BY <1>8
  <2>2. \A x \in T : Unwrapify[x] = UnwrapifyOf(Unwrapify, x)
    BY <1>8
  <2> QED
    BY <1>1, <1>2, <1>5, <2>1, <2>2, RecursionTyped
<1> QED
  BY <1>8, <1>9 DEF T, V

-----------------------------------------------------------------------------
(* Resolve.                                                                  *)

\* A sequence that is built position by position from another.
LEMMA SeqOfFunction ==
  ASSUME NEW S, NEW A, NEW b \in Seq(A), NEW f, f = [i \in DOMAIN b |-> f[i]], \A i \in DOMAIN b : f[i] \in S
  PROVE  f \in Seq(S) /\ DOMAIN f = DOMAIN b /\ Len(f) = Len(b)
<1>1. DOMAIN b = 1 .. Len(b) /\ Len(b) \in Nat
  BY LenProperties
<1>2. f \in [1 .. Len(b) -> S]
  BY <1>1
<1> QED
  BY <1>1, <1>2

-----------------------------------------------------------------------------

\* An invocation that gets its target.

ResolveOf(f, block) ==
  [ok |-> \A s \in Range(block) :
            /\ s.op = "invoke" => s.name \in DOMAIN Wires
            /\ s.op = "ite" => f[s.then].ok /\ f[s.else].ok,
   code |-> [i \in DOMAIN block |->
              LET s == block[i]
              IN  IF s.op = "invoke" /\ s.name \in DOMAIN Wires THEN [s EXCEPT !.target = Wires[s.name]]
                  ELSE IF s.op = "ite" THEN [s EXCEPT !.then = f[@].code, !.else = f[@].code]
                  ELSE s]]

ResolveOut == [b \in Code |-> {r \in [ok : BOOLEAN, code : Code] : NoDeeper(b, r.code)}]

\* A statement with a target is a statement.
LEMMA TargetedIn ==
  ASSUME NEW n \in Nat, NEW s \in StmtsTo[n], NEW i \in Instances
  PROVE  [s EXCEPT !.target = i] \in StmtsTo[n]
<1> DEFINE t == [s EXCEPT !.target = i]
<1>1. n # 0 /\ n - 1 \in Nat
  BY StmtsIn
<1>2. t \in [op : Kinds, to : Seq(Idents), idx : Seq(Exprs), args : Seq(Exprs),
             then : Seq(StmtsTo[n - 1]), else : Seq(StmtsTo[n - 1]),
             name : Idents, id : Int, target : Instances \cup {""}, span : Nat]
  BY StmtsIn
<1>3. /\ t.op = s.op /\ t.to = s.to /\ t.idx = s.idx /\ t.args = s.args
      /\ t.then = s.then /\ t.else = s.else
  BY StmtsIn
<1>4. HasShape(t)
  BY <1>3, StmtsIn DEF HasShape
<1>5. t \in StmtLevel(StmtsTo[n - 1])
  BY <1>2, <1>4 DEF StmtLevel
<1> QED
  BY <1>1, <1>5, TreesUnfold

\* Resolve is total, makes code no deeper, and its definition holds everywhere.
LEMMA ResolveUnfold ==
  /\ Resolve \in Typed(Code, ResolveOut)
  /\ \A b \in Code : Resolve[b] = ResolveOf(Resolve, b)
<1> DEFINE T == Code
           V == ResolveOut
           E == [p \in T \X Typed(T, V) |-> ResolveOf(p[2], p[1])]
<1>1. \A x \in T, g \in Typed(T, V) : E[<<x, g>>] = ResolveOf(g, x)
  OBVIOUS
<1>2. ASSUME NEW b \in T, NEW g \in Typed(T, V), NEW h, AgreeBelow(T, CodeRank, g, h, b)
      PROVE  ResolveOf(g, b) = ResolveOf(h, b)
  <2>1. \A i \in DOMAIN b : g[b[i].then] = h[b[i].then] /\ g[b[i].else] = h[b[i].else]
    BY <1>2, CodeParts DEF AgreeBelow
  <2>2. \A s \in Range(b) : \E i \in DOMAIN b : s = b[i]
    BY DEF Range
  <2>3. \A s \in Range(b) : g[s.then] = h[s.then] /\ g[s.else] = h[s.else]
    BY <2>1, <2>2
  <2> DEFINE new(f) == [i \in DOMAIN b |->
              LET s == b[i]
              IN  IF s.op = "invoke" /\ s.name \in DOMAIN Wires THEN [s EXCEPT !.target = Wires[s.name]]
                  ELSE IF s.op = "ite" THEN [s EXCEPT !.then = f[@].code, !.else = f[@].code]
                  ELSE s]
             ok(f) == \A s \in Range(b) :
                        /\ s.op = "invoke" => s.name \in DOMAIN Wires
                        /\ s.op = "ite" => f[s.then].ok /\ f[s.else].ok
  <2>4. \A i \in DOMAIN b : b[i] = [b[i] EXCEPT !.then = @]
    BY CodeParts, DepthAssumption, StmtsIn
  <2>5. new(g) = new(h)
    BY <2>1
  <2>6. ok(g) = ok(h)
    BY <2>3
  <2>7. ResolveOf(g, b) = [ok |-> ok(g), code |-> new(g)] /\ ResolveOf(h, b) = [ok |-> ok(h), code |-> new(h)]
    BY DEF ResolveOf
  <2> HIDE DEF ok, new
  <2> QED
    BY <2>5, <2>6, <2>7
<1>3. ASSUME NEW b \in T, NEW g \in Typed(T, V) PROVE ResolveOf(g, b) \in V[b]
  <2> DEFINE o == ResolveOf(g, b)
  <2>1. o.ok \in BOOLEAN /\ o = [ok |-> o.ok, code |-> o.code]
    BY DEF ResolveOf
  <2>2. \A i \in DOMAIN b : /\ NoDeeper(b[i].then, g[b[i].then].code)
                            /\ NoDeeper(b[i].else, g[b[i].else].code)
    BY CodeParts DEF Typed, ResolveOut
  <2>3. ASSUME NEW n \in Nat, b \in Seq(StmtsTo[n]) PROVE o.code \in Seq(StmtsTo[n])
    <3>1. o.code = [i \in DOMAIN b |-> o.code[i]]
      BY DEF ResolveOf
    <3>2. ASSUME NEW i \in DOMAIN b PROVE o.code[i] \in StmtsTo[n]
      <4>1. b[i] \in StmtsTo[n]
        BY <2>3, BlockParts
      <4>2. \/ b[i].op = "invoke" /\ b[i].name \in DOMAIN Wires /\ o.code[i] = [b[i] EXCEPT !.target = Wires[b[i].name]]
            \/ o.code[i] = [b[i] EXCEPT !.then = g[@].code, !.else = g[@].code]
            \/ o.code[i] = b[i]
        BY DEF ResolveOf
      <4>3. [b[i] EXCEPT !.then = g[@].code, !.else = g[@].code]
              = [b[i] EXCEPT !.then = g[b[i].then].code, !.else = g[b[i].else].code]
        BY <4>1, StmtsIn
      <4>4. b[i].name \in DOMAIN Wires => Wires[b[i].name] \in Instances
        BY TextAssumption
      <4> HIDE DEF o
      <4>5. [b[i] EXCEPT !.then = g[b[i].then].code, !.else = g[b[i].else].code] \in StmtsTo[n]
        BY <2>2, <4>1, Rebuilt
      <4> QED
        BY <4>1, <4>2, <4>3, <4>4, <4>5, TargetedIn
    <3> HIDE DEF o
    <3> QED
      BY <2>3, <3>1, <3>2, SeqOfFunction
  <2> HIDE DEF o
  <2>4. NoDeeper(b, o.code)
    BY <2>3 DEF NoDeeper
  <2>5. o.code \in Code
    BY <2>4, NoDeeperIsCode
  <2>6. o \in [ok : BOOLEAN, code : Code]
    BY <2>1, <2>5
  <2>7. o \in V[b]
    BY <2>4, <2>6 DEF ResolveOut
  <2> QED
    BY <2>7 DEF o
<1>4. \A b \in T : V[b] # {}
  <2>1. \A b \in Code : [ok |-> TRUE, code |-> b] \in V[b]
    BY DEF ResolveOut, NoDeeper
  <2> QED
    BY <2>1
<1> HIDE DEF T, V, E
<1>5. Recurses(T, CodeRank, V, E)
  <2>1. \A x \in T, g \in Typed(T, V) : E[<<x, g>>] \in V[x]
    BY <1>1, <1>3
  <2>2. \A x \in T : \A g, h \in Typed(T, V) : AgreeBelow(T, CodeRank, g, h, x) => E[<<x, g>>] = E[<<x, h>>]
    BY <1>1, <1>2
  <2>3. CodeRank \in [T -> Nat \X Nat]
    BY CodeRankType DEF T
  <2> QED
    BY <1>4, <2>1, <2>2, <2>3 DEF Recurses
<1>6. PICK f \in Typed(T, V) : f = [x \in T |-> E[<<x, f>>]]
  BY <1>5, RecursionExists
<1>7. f = [x \in T |-> ResolveOf(f, x)]
  BY <1>1, <1>6
<1>8. Resolve = [x \in T |-> ResolveOf(Resolve, x)]
  BY <1>7 DEF Resolve, ResolveOf, T
<1>9. Resolve \in Typed(T, V)
  <2>1. Resolve = [x \in T |-> Resolve[x]]
    BY <1>8
  <2>2. \A x \in T : Resolve[x] = ResolveOf(Resolve, x)
    BY <1>8
  <2> QED
    BY <1>1, <1>2, <1>5, <2>1, <2>2, RecursionTyped
<1> QED
  BY <1>8, <1>9 DEF T, V

-----------------------------------------------------------------------------
(* Returnify.                                                                *)

\* The last statement of a block, and those before it.
LEMMA LastParts ==
  ASSUME NEW S, NEW b \in Seq(S), b # <<>>
  PROVE  /\ Len(b) \in DOMAIN b /\ Last(b) = b[Len(b)] /\ Last(b) \in S
         /\ Front(b) \in Seq(S) /\ Len(Front(b)) = Len(b) - 1
         /\ \A i \in DOMAIN Front(b) : i \in DOMAIN b /\ Front(b)[i] = b[i]
<1>1. Len(b) \in Nat /\ Len(b) # 0 /\ DOMAIN b = 1 .. Len(b)
  BY LenProperties, EmptySeq
<1>2. Len(b) \in DOMAIN b
  BY <1>1
<1>3. Last(b) = b[Len(b)] /\ Last(b) \in S
  BY <1>2, ElementOfSeq, <1>1 DEF Last
<1>4. /\ SubSeq(b, 1, Len(b) - 1) \in Seq(S)
      /\ Len(SubSeq(b, 1, Len(b) - 1)) = IF 1 <= Len(b) - 1 THEN Len(b) - 1 - 1 + 1 ELSE 0
      /\ \A i \in 1 .. Len(b) - 1 - 1 + 1 : SubSeq(b, 1, Len(b) - 1)[i] = b[1 + i - 1]
  <2>1. \A i \in 1 .. Len(b) - 1 : b[i] \in S
    BY <1>1, ElementOfSeq
  <2>2. 1 \in Int /\ Len(b) - 1 \in Int
    BY <1>1
  <2> QED
    BY <2>1, <2>2, SubSeqProperties
<1>5. (IF 1 <= Len(b) - 1 THEN Len(b) - 1 - 1 + 1 ELSE 0) = Len(b) - 1
  BY <1>1
<1>6. Front(b) = SubSeq(b, 1, Len(b) - 1)
  BY DEF Front
<1>7. Len(Front(b)) = Len(b) - 1
  BY <1>4, <1>5, <1>6
<1>8. DOMAIN Front(b) = 1 .. Len(b) - 1
  BY <1>4, <1>6, <1>7, LenProperties
<1>9. ASSUME NEW i \in DOMAIN Front(b) PROVE i \in DOMAIN b /\ Front(b)[i] = b[i]
  <2>1. i \in Int /\ i \in DOMAIN b /\ i \in 1 .. Len(b) - 1 - 1 + 1 /\ 1 + i - 1 = i
    BY <1>1, <1>8
  <2> QED
    BY <1>4, <1>6, <2>1
<1> QED
  BY <1>2, <1>3, <1>4, <1>6, <1>7, <1>9

-----------------------------------------------------------------------------

ReturnifyOf(f, in) ==
  LET block == in[1]
      noneOk == in[2]
  IN  IF block # <<>> /\ Last(block).op = "ite"
        THEN LET ite == Last(block)
                 then == f[<<ite.then, noneOk>>]
                 else == f[<<ite.else, noneOk>>]
             IN  [ok |-> then.ok /\ else.ok,
                  code |-> Append(Front(block), [ite EXCEPT !.then = then.code, !.else = else.code])]
      ELSE Ended(block, noneOk)

\* c is at most one level deeper than b.
OneDeeper(b, c) == \A n \in Nat : b \in Seq(StmtsTo[n]) => c \in Seq(StmtsTo[n + 1])

Returned == [ok : BOOLEAN, code : Seq(StmtsTo[MaxCodeDepth + 1])]
ReturnifyIn == Code \X BOOLEAN
ReturnifyOut == [in \in ReturnifyIn |-> {r \in Returned : OneDeeper(in[1], r.code)}]

LEMMA OneDeeperType ==
  ASSUME NEW b \in Code, NEW c, OneDeeper(b, c) PROVE c \in Seq(StmtsTo[MaxCodeDepth + 1])
BY DepthAssumption DEF Code, OneDeeper

\* A statement whose blocks get one level deeper.
LEMMA Deepened ==
  ASSUME NEW n \in Nat, NEW s \in StmtsTo[n], s.op = "ite", NEW x, NEW y, OneDeeper(s.then, x), OneDeeper(s.else, y)
  PROVE  [s EXCEPT !.then = x, !.else = y] \in StmtsTo[n + 1]
<1>1. n # 0 /\ n - 1 \in Nat /\ s.then \in Seq(StmtsTo[n - 1]) /\ s.else \in Seq(StmtsTo[n - 1])
  BY StmtsIn
<1>2. x \in Seq(StmtsTo[(n - 1) + 1]) /\ y \in Seq(StmtsTo[(n - 1) + 1])
  BY <1>1 DEF OneDeeper
<1>3. (n - 1) + 1 = n /\ n + 1 \in Nat /\ n + 1 # 0 /\ (n + 1) - 1 = n
  OBVIOUS
<1>4. x \in Seq(StmtsTo[n]) /\ y \in Seq(StmtsTo[n])
  BY <1>2, <1>3
<1> DEFINE t == [s EXCEPT !.then = x, !.else = y]
<1>5. t \in [op : Kinds, to : Seq(Idents), idx : Seq(Exprs), args : Seq(Exprs),
             then : Seq(StmtsTo[n]), else : Seq(StmtsTo[n]),
             name : Idents, id : Int, target : Instances \cup {""}, span : Nat]
  BY <1>4, StmtsIn
<1>6. t.op = s.op /\ t.to = s.to /\ t.idx = s.idx /\ t.args = s.args
  BY StmtsIn
<1>7. HasShape(t)
  BY <1>6, StmtsIn DEF HasShape
<1>8. t \in StmtLevel(StmtsTo[n])
  BY <1>5, <1>7 DEF StmtLevel
<1> HIDE DEF t
<1>9. t \in StmtsTo[n + 1]
  BY <1>3, <1>8, TreesUnfold
<1> QED
  BY <1>9 DEF t

\* A return without a value.
LEMMA ReturnIn == ASSUME NEW n \in Nat PROVE Return(<<>>) \in StmtsTo[n + 1]
<1> DEFINE t == Return(<<>>)
<1>1. n + 1 \in Nat /\ n + 1 # 0 /\ (n + 1) - 1 = n
  OBVIOUS
<1>9. 0 \in Nat /\ -1 \in Int
  OBVIOUS
<1>2. Ident("") \in Idents
  BY <1>9 DEF Idents, Ident
<1>3. <<>> \in Seq(Idents) /\ <<>> \in Seq(Exprs) /\ <<>> \in Seq(StmtsTo[n])
  OBVIOUS
<1>4. t \in [op : Kinds, to : Seq(Idents), idx : Seq(Exprs), args : Seq(Exprs),
             then : Seq(StmtsTo[n]), else : Seq(StmtsTo[n]),
             name : Idents, id : Int, target : Instances \cup {""}, span : Nat]
  BY <1>2, <1>3, <1>9 DEF Return, Stmt, Kinds, Unnumbered
<1>5. HasShape(t)
  BY DEF HasShape, Return, Stmt
<1>6. t \in StmtLevel(StmtsTo[n])
  BY <1>4, <1>5 DEF StmtLevel
<1> QED
  BY <1>1, <1>6, TreesUnfold

\* A return that is added to an empty branch makes it one deeper.
LEMMA EndedType ==
  ASSUME NEW b \in Code, NEW noneOk \in BOOLEAN
  PROVE  Ended(b, noneOk) = [ok |-> Ended(b, noneOk).ok, code |-> Ended(b, noneOk).code]
         /\ Ended(b, noneOk).ok \in BOOLEAN /\ OneDeeper(b, Ended(b, noneOk).code)
<1>1. ASSUME NEW n \in Nat, b \in Seq(StmtsTo[n]) PROVE Append(b, Return(<<>>)) \in Seq(StmtsTo[n + 1]) /\ b \in Seq(StmtsTo[n + 1])
  <2>1. n + 1 \in Nat /\ n <= n + 1
    OBVIOUS
  <2>2. b \in Seq(StmtsTo[n + 1])
    BY <1>1, <2>1, TreesGrow
  <2> QED
    BY <2>2, ReturnIn, AppendIn
<1> QED
  BY <1>1 DEF Ended, OneDeeper

\* Returnify is total, makes code at most one deeper, and its definition holds
\* everywhere.
LEMMA ReturnifyUnfold ==
  /\ Returnify \in Typed(ReturnifyIn, ReturnifyOut)
  /\ \A in \in ReturnifyIn : Returnify[in] = ReturnifyOf(Returnify, in)
<1> DEFINE T == ReturnifyIn
           V == ReturnifyOut
           rk == FirstRank(T)
           E == [p \in T \X Typed(T, V) |-> ReturnifyOf(p[2], p[1])]
<1>1. \A x \in T, g \in Typed(T, V) : E[<<x, g>>] = ReturnifyOf(g, x)
  OBVIOUS
<1>2. ASSUME NEW in \in T, NEW g \in Typed(T, V), NEW h, AgreeBelow(T, rk, g, h, in)
      PROVE  ReturnifyOf(g, in) = ReturnifyOf(h, in)
  <2>1. PICK b \in Code, noneOk \in BOOLEAN : in = <<b, noneOk>>
    BY DEF ReturnifyIn
  <2>2. CASE b = <<>>
    BY <2>1, <2>2 DEF ReturnifyOf
  <2>3. CASE b # <<>>
    <3>1. \A d \in Code, k \in BOOLEAN : Below(CodeRank[d], CodeRank[b]) => g[<<d, k>>] = h[<<d, k>>]
      BY <1>2, <2>1 DEF AgreeBelow, ReturnifyIn, FirstRank
    <3>2. Len(b) \in DOMAIN b /\ Last(b) = b[Len(b)]
      BY <2>3, LastParts DEF Code
    <3>3. g[<<Last(b).then, noneOk>>] = h[<<Last(b).then, noneOk>>] /\ g[<<Last(b).else, noneOk>>] = h[<<Last(b).else, noneOk>>]
      BY <3>1, <3>2, CodeParts
    <3> QED
      BY <2>1, <3>3 DEF ReturnifyOf
  <2> QED
    BY <2>2, <2>3
<1>3. ASSUME NEW in \in T, NEW g \in Typed(T, V) PROVE ReturnifyOf(g, in) \in V[in]
  <2>1. PICK b \in Code, noneOk \in BOOLEAN : in = <<b, noneOk>>
    BY DEF ReturnifyIn
  <2> DEFINE o == ReturnifyOf(g, in)
  <2>2. o = [ok |-> o.ok, code |-> o.code] /\ o.ok \in BOOLEAN /\ OneDeeper(b, o.code)
    <3>1. CASE ~(b # <<>> /\ Last(b).op = "ite")
      <4>1. o = Ended(b, noneOk)
        BY <2>1, <3>1 DEF ReturnifyOf
      <4> QED
        BY <4>1, EndedType
    <3>2. CASE b # <<>> /\ Last(b).op = "ite"
      <4> DEFINE s == Last(b)
                 then == g[<<s.then, noneOk>>]
                 else == g[<<s.else, noneOk>>]
                 new == [s EXCEPT !.then = then.code, !.else = else.code]
      <4>1. o = [ok |-> then.ok /\ else.ok, code |-> Append(Front(b), new)]
        BY <2>1, <3>2 DEF ReturnifyOf
      <4>2. /\ then.ok \in BOOLEAN /\ OneDeeper(s.then, then.code)
            /\ else.ok \in BOOLEAN /\ OneDeeper(s.else, else.code)
        <5>1. \A d \in Code : g[<<d, noneOk>>].ok \in BOOLEAN /\ OneDeeper(d, g[<<d, noneOk>>].code)
          BY DEF Typed, ReturnifyIn, ReturnifyOut, Returned
        <5>2. s = b[Len(b)] /\ Len(b) \in DOMAIN b
          BY <3>2, LastParts DEF Code
        <5> QED
          BY <5>1, <5>2, CodeParts
      <4>3. ASSUME NEW n \in Nat, b \in Seq(StmtsTo[n]) PROVE Append(Front(b), new) \in Seq(StmtsTo[n + 1])
        <5>1. s \in StmtsTo[n] /\ Front(b) \in Seq(StmtsTo[n])
          BY <3>2, <4>3, LastParts
        <5>2. new \in StmtsTo[n + 1]
          <6> HIDE DEF s, then, else
          <6>1. s.op = "ite"
            BY <3>2 DEF s
          <6> QED
            BY <4>2, <5>1, <6>1, Deepened
        <5>3. Front(b) \in Seq(StmtsTo[n + 1])
          <6>1. n + 1 \in Nat /\ n <= n + 1
            OBVIOUS
          <6> QED
            BY <5>1, <6>1, TreesGrow
        <5> HIDE DEF new
        <5> QED
          BY <5>2, <5>3, AppendIn
      <4> HIDE DEF new, then, else, o
      <4> QED
        BY <4>1, <4>2, <4>3 DEF OneDeeper
    <3> QED
      BY <3>1, <3>2
  <2> HIDE DEF o
  <2>3. o.code \in Seq(StmtsTo[MaxCodeDepth + 1])
    BY <2>2, OneDeeperType
  <2>4. o \in V[in]
    BY <2>1, <2>2, <2>3 DEF ReturnifyOut, Returned
  <2> QED
    BY <2>4 DEF o
<1>4. \A in \in T : V[in] # {}
  <2>1. ASSUME NEW b \in Code, NEW k \in BOOLEAN PROVE V[<<b, k>>] # {}
    <3>1. Ended(b, k).code \in Seq(StmtsTo[MaxCodeDepth + 1])
      BY EndedType, OneDeeperType
    <3>2. Ended(b, k) \in V[<<b, k>>]
      BY <3>1, EndedType DEF ReturnifyIn, ReturnifyOut, Returned
    <3> QED
      BY <3>2
  <2>2. \A in \in T : \E b \in Code, n \in BOOLEAN : in = <<b, n>>
    BY DEF ReturnifyIn
  <2> QED
    BY <2>1, <2>2
<1> HIDE DEF T, V, E, rk
<1>5. Recurses(T, rk, V, E)
  <2>1. \A x \in T, g \in Typed(T, V) : E[<<x, g>>] \in V[x]
    BY <1>1, <1>3
  <2>2. \A x \in T : \A g, h \in Typed(T, V) : AgreeBelow(T, rk, g, h, x) => E[<<x, g>>] = E[<<x, h>>]
    BY <1>1, <1>2
  <2>3. rk \in [T -> Nat \X Nat]
    BY FirstRankType DEF ReturnifyIn, T, rk
  <2> QED
    BY <1>4, <2>1, <2>2, <2>3 DEF Recurses
<1>6. PICK f \in Typed(T, V) : f = [x \in T |-> E[<<x, f>>]]
  BY <1>5, RecursionExists
<1>7. f = [x \in T |-> ReturnifyOf(f, x)]
  BY <1>1, <1>6
<1>8. Returnify = [x \in T |-> ReturnifyOf(Returnify, x)]
  BY <1>7 DEF Returnify, ReturnifyOf, T, ReturnifyIn
<1>9. Returnify \in Typed(T, V)
  <2>1. Returnify = [x \in T |-> Returnify[x]]
    BY <1>8
  <2>2. \A x \in T : Returnify[x] = ReturnifyOf(Returnify, x)
    BY <1>8
  <2> QED
    BY <1>1, <1>2, <1>5, <2>1, <2>2, RecursionTyped
<1> QED
  BY <1>8, <1>9 DEF T, V

-----------------------------------------------------------------------------
(* The size of a block, and induction over blocks.                           *)

\* The number of statements of a block, at any depth.
Size[block \in Code] ==
  IF block = <<>> THEN 0 ELSE 1 + Size[Head(block).then] + Size[Head(block).else] + Size[Tail(block)]

SizeOf(f, block) ==
  IF block = <<>> THEN 0 ELSE 1 + f[Head(block).then] + f[Head(block).else] + f[Tail(block)]

\* Size is total, and its definition holds everywhere.
LEMMA SizeUnfold ==
  /\ Size \in [Code -> Nat]
  /\ \A b \in Code : Size[b] = SizeOf(Size, b)
<1> DEFINE T == Code
           V == [x \in T |-> Nat]
           E == [p \in T \X Typed(T, V) |-> SizeOf(p[2], p[1])]
<1>1. \A x \in T, g \in Typed(T, V) : E[<<x, g>>] = SizeOf(g, x)
  OBVIOUS
<1>2. \A x \in T : V[x] = Nat
  OBVIOUS
<1>3. \A x \in T : \A g, h : AgreeBelow(T, CodeRank, g, h, x) => SizeOf(g, x) = SizeOf(h, x)
  BY HeadParts DEF SizeOf, AgreeBelow
<1>4. ASSUME NEW x \in T, NEW g \in Typed(T, V) PROVE SizeOf(g, x) \in Nat
  <2>1. \A d \in Code : g[d] \in Nat
    BY DEF Typed
  <2>2. CASE x = <<>>
    BY <2>2 DEF SizeOf
  <2>3. CASE x # <<>>
    <3>1. g[Head(x).then] \in Nat /\ g[Head(x).else] \in Nat /\ g[Tail(x)] \in Nat
      BY <2>1, <2>3, HeadParts
    <3> QED
      BY <2>3, <3>1 DEF SizeOf
  <2> QED
    BY <2>2, <2>3
<1> HIDE DEF T, V, E
<1>5. Recurses(T, CodeRank, V, E)
  <2>1. CodeRank \in [T -> Nat \X Nat]
    BY CodeRankType DEF T
  <2>2. \A x \in T : V[x] # {}
    BY <1>2
  <2>3. \A x \in T, g \in Typed(T, V) : E[<<x, g>>] \in V[x]
    BY <1>1, <1>2, <1>4
  <2>4. \A x \in T : \A g, h \in Typed(T, V) : AgreeBelow(T, CodeRank, g, h, x) => E[<<x, g>>] = E[<<x, h>>]
    BY <1>1, <1>3
  <2> QED
    BY <2>1, <2>2, <2>3, <2>4 DEF Recurses
<1>6. PICK f \in Typed(T, V) : f = [x \in T |-> E[<<x, f>>]]
  BY <1>5, RecursionExists
<1>7. f = [x \in T |-> SizeOf(f, x)]
  BY <1>1, <1>6
<1>8. Size = [x \in T |-> SizeOf(Size, x)]
  BY <1>7 DEF Size, SizeOf, T
<1>9. Size \in Typed(T, V)
  <2>1. Size = [x \in T |-> Size[x]]
    BY <1>8
  <2>2. \A x \in T : Size[x] = SizeOf(Size, x)
    BY <1>8
  <2> QED
    BY <1>1, <1>3, <1>5, <2>1, <2>2, RecursionTyped
<1> QED
  BY <1>2, <1>8, <1>9 DEF Typed, T

\* The size of a block in terms of its parts.
LEMMA SizeParts ==
  ASSUME NEW b \in Code, b # <<>>
  PROVE  /\ Size[b] = 1 + Size[Head(b).then] + Size[Head(b).else] + Size[Tail(b)]
         /\ Size[Head(b).then] \in Nat /\ Size[Head(b).else] \in Nat /\ Size[Tail(b)] \in Nat
BY SizeUnfold, HeadParts DEF SizeOf

\* Induction on a block, from its end, and on what is inside its first statement.
LEMMA TailInduction ==
  ASSUME NEW S, <<>> \in S, \A b \in Code : b # <<>> /\ Tail(b) \in S => b \in S
  PROVE  Code \subseteq S
<1>1. ASSUME NEW b \in Code, \A y \in Code : Below(CodeRank[y], CodeRank[b]) => y \in S PROVE b \in S
  BY <1>1, CodeTail
<1> QED
  BY <1>1, CodeRankType, RankInduction

\* Induction over code by its first statement.
LEMMA CodeInduction ==
  ASSUME NEW S, <<>> \in S,
         \A b \in Code : b # <<>> /\ Head(b).then \in S /\ Head(b).else \in S /\ Tail(b) \in S => b \in S
  PROVE  Code \subseteq S
<1>1. ASSUME NEW b \in Code, \A y \in Code : Below(CodeRank[y], CodeRank[b]) => y \in S PROVE b \in S
  BY <1>1, HeadParts
<1> QED
  BY <1>1, CodeRankType, RankInduction

\* Induction on a block, on what is inside its statements.
LEMMA InnerInduction ==
  ASSUME NEW S, \A b \in Code : (\A i \in DOMAIN b : b[i].then \in S /\ b[i].else \in S) => b \in S
  PROVE  Code \subseteq S
<1>1. ASSUME NEW b \in Code, \A y \in Code : Below(CodeRank[y], CodeRank[b]) => y \in S PROVE b \in S
  BY <1>1, CodeParts
<1> QED
  BY <1>1, CodeRankType, RankInduction

LEMMA ConcatParts ==
  ASSUME NEW S, NEW a \in Seq(S), a # <<>>, NEW b \in Seq(S)
  PROVE  a \o b # <<>> /\ Head(a \o b) = Head(a) /\ Tail(a \o b) = Tail(a) \o b
<1>1. /\ Len(a) \in Nat /\ Len(a) # 0 /\ Len(b) \in Nat /\ a \o b \in Seq(S) /\ Len(a \o b) = Len(a) + Len(b)
      /\ Tail(a) \in Seq(S) /\ Len(Tail(a)) = Len(a) - 1
  BY ConcatProperties, LenProperties, HeadTailProperties, EmptySeq
<1>2. a \o b # <<>>
  BY <1>1, EmptySeq
<1>3. Head(a \o b) = Head(a)
  BY <1>1
<1>4. Tail(a \o b) \in Seq(S) /\ Len(Tail(a \o b)) = Len(a) + Len(b) - 1
  BY <1>1, <1>2, HeadTailProperties
<1>5. Tail(a) \o b \in Seq(S) /\ Len(Tail(a) \o b) = Len(a) + Len(b) - 1
  BY <1>1, ConcatProperties
<1>6. \A i \in 1 .. Len(a) + Len(b) - 1 : Tail(a \o b)[i] = (Tail(a) \o b)[i]
  BY <1>1
<1>7. Tail(a \o b) = Tail(a) \o b
  BY <1>4, <1>5, <1>6, SeqEqual
<1> QED
  BY <1>2, <1>3, <1>7

LEMMA CodeConcat == \A a, b \in Code : a \o b \in Code
BY ConcatProperties DEF Code

LEMMA SizeEmpty == <<>> \in Code /\ Size[<<>>] = 0
<1>1. <<>> \in Code
  BY DEF Code
<1>2. Size[<<>>] = SizeOf(Size, <<>>)
  BY <1>1, SizeUnfold
<1> QED
  BY <1>1, <1>2 DEF SizeOf

\* The size of two blocks joined.
LEMMA SizeAdds == \A a, b \in Code : Size[a \o b] = Size[a] + Size[b]
<1> SUFFICES ASSUME NEW b \in Code PROVE \A a \in Code : Size[a \o b] = Size[a] + Size[b]
  OBVIOUS
<1> DEFINE S == {a \in Code : Size[a \o b] = Size[a] + Size[b]}
<1>1. <<>> \in S
  <2>1. <<>> \o b = b
    BY ConcatEmptySeq DEF Code
  <2>2. Size[b] \in Nat
    BY SizeUnfold
  <2> QED
    BY <2>1, <2>2, SizeEmpty
<1>2. ASSUME NEW a \in Code, a # <<>>, Tail(a) \in S PROVE a \in S
  <2>1. a \o b # <<>> /\ Head(a \o b) = Head(a) /\ Tail(a \o b) = Tail(a) \o b /\ a \o b \in Code
    BY <1>2, ConcatParts, CodeConcat DEF Code
  <2>2. Size[a \o b] = 1 + Size[Head(a).then] + Size[Head(a).else] + Size[Tail(a) \o b]
    BY <2>1, SizeParts
  <2>3. Size[Tail(a) \o b] = Size[Tail(a)] + Size[b] /\ Size[b] \in Nat
    BY <1>2, SizeUnfold
  <2>4. /\ Size[a] = 1 + Size[Head(a).then] + Size[Head(a).else] + Size[Tail(a)]
        /\ Size[Head(a).then] \in Nat /\ Size[Head(a).else] \in Nat /\ Size[Tail(a)] \in Nat
    BY <1>2, SizeParts
  <2>5. \A i, j, k, l \in Nat : 1 + i + j + (k + l) = 1 + i + j + k + l
    OBVIOUS
  <2>6. Size[a \o b] = Size[a] + Size[b]
    BY <2>2, <2>3, <2>4, <2>5
  <2> QED
    BY <2>6
<1>3. Code \subseteq S
  <2> HIDE DEF S
  <2> QED
    BY <1>1, <1>2, TailInduction
<1> QED
  BY <1>3

\* A block, cut at one of its statements.
LEMMA CutAt ==
  ASSUME NEW S, NEW b \in Seq(S), NEW i \in DOMAIN b
  PROVE  /\ SubSeq(b, 1, i - 1) \in Seq(S) /\ SubSeq(b, i + 1, Len(b)) \in Seq(S)
         /\ b = SubSeq(b, 1, i - 1) \o (<<b[i]>> \o SubSeq(b, i + 1, Len(b)))
<1>1. Len(b) \in Nat /\ i \in 1 .. Len(b) /\ b[i] \in S
  BY LenProperties, ElementOfSeq
<1>2. i \in 0 .. Len(b) /\ i - 1 \in 0 .. Len(b) /\ (i - 1) + 1 = i
  BY <1>1
<1>3. SubSeq(b, 1, i - 1) \in Seq(S) /\ SubSeq(b, 1, i - 1) \o SubSeq(b, (i - 1) + 1, Len(b)) = b
  BY <1>2, SplitSeq
<1>4. SubSeq(b, i + 1, Len(b)) \in Seq(S)
  BY <1>2, SplitSeq
<1>5. SubSeq(b, i, i) \o SubSeq(b, i + 1, Len(b)) = SubSeq(b, i, Len(b))
  <2>1. i \in 1 .. Len(b) + 1 /\ i \in i - 1 .. Len(b) /\ Len(b) \in i .. Len(b)
    BY <1>1
  <2> QED
    BY <2>1, ConcatAdjacentSubSeq
<1>6. SubSeq(b, i, i) = <<b[i]>>
  <2>1. i \in Int /\ \A j \in i .. i : b[j] \in S
    BY <1>1
  <2>2. /\ SubSeq(b, i, i) \in Seq(S) /\ Len(SubSeq(b, i, i)) = IF i <= i THEN i - i + 1 ELSE 0
        /\ \A j \in 1 .. i - i + 1 : SubSeq(b, i, i)[j] = b[i + j - 1]
    BY <1>1, <2>1, SubSeqProperties, SMTT(60)
  <2>3. i - i + 1 = 1 /\ i <= i /\ i + 1 - 1 = i /\ 1 \in 1 .. 1
    BY <1>1
  <2>4. Len(SubSeq(b, i, i)) = 1 /\ SubSeq(b, i, i)[1] = b[i]
    BY <2>2, <2>3
  <2>5. <<b[i]>> \in Seq(S) /\ Len(<<b[i]>>) = 1 /\ <<b[i]>>[1] = b[i]
    BY <1>1
  <2>6. \A j \in 1 .. 1 : j = 1
    OBVIOUS
  <2> QED
    BY <2>2, <2>4, <2>5, <2>6, SeqEqual
<1> QED
  BY <1>2, <1>3, <1>4, <1>5, <1>6

\* The branches of a conditional with what follows it are smaller than the block.
LEMMA SizeAt ==
  ASSUME NEW b \in Code, NEW i \in DOMAIN b
  PROVE  LET after == SubSeq(b, i + 1, Len(b))
         IN  /\ after \in Code /\ b[i].then \o after \in Code /\ b[i].else \o after \in Code
             /\ Size[b] \in Nat
             /\ Size[b[i].then] \in Nat /\ Size[b[i].then] < Size[b]
             /\ Size[b[i].else] \in Nat /\ Size[b[i].else] < Size[b]
             /\ Size[b[i].then \o after] \in Nat /\ Size[b[i].then \o after] < Size[b]
             /\ Size[b[i].else \o after] \in Nat /\ Size[b[i].else \o after] < Size[b]
<1> DEFINE before == SubSeq(b, 1, i - 1)
           after == SubSeq(b, i + 1, Len(b))
           s == b[i]
<1>1. before \in Code /\ after \in Code /\ b = before \o (<<s>> \o after) /\ s \in StmtsTo[MaxCodeDepth]
  BY CutAt, ElementOfSeq, LenProperties DEF Code
<1>2. s.then \in Code /\ s.else \in Code
  BY CodeParts
<1> HIDE DEF before, after, s
<1>3. <<s>> \in Code /\ <<s>> # <<>> /\ Head(<<s>>) = s /\ Tail(<<s>>) = <<>>
  BY <1>1 DEF Code
<1>4. Size[<<>>] = 0
  BY SizeEmpty
<1>5. Size[<<s>>] = 1 + Size[s.then] + Size[s.else] + Size[<<>>]
  BY <1>3, SizeParts
<1>6. Size[b] = Size[before] + Size[<<s>> \o after] /\ Size[<<s>> \o after] = Size[<<s>>] + Size[after]
  BY <1>1, <1>3, SizeAdds, CodeConcat
<1>7. /\ s.then \o after \in Code /\ s.else \o after \in Code
      /\ Size[s.then \o after] = Size[s.then] + Size[after] /\ Size[s.else \o after] = Size[s.else] + Size[after]
  BY <1>1, <1>2, SizeAdds, CodeConcat
<1>8. Size[s.then] \in Nat /\ Size[s.else] \in Nat /\ Size[after] \in Nat /\ Size[before] \in Nat
  BY <1>1, <1>2, SizeUnfold
<1>9. \A m, n, k, l \in Nat : LET t == k + ((1 + m + n + 0) + l)
                              IN  t \in Nat /\ m < t /\ n < t /\ m + l < t /\ n + l < t /\ m + l \in Nat /\ n + l \in Nat
  OBVIOUS
<1>10. Size[b] = Size[before] + ((1 + Size[s.then] + Size[s.else] + 0) + Size[after])
  BY <1>4, <1>5, <1>6
<1>11. /\ Size[b] \in Nat /\ Size[s.then] < Size[b] /\ Size[s.else] < Size[b]
       /\ Size[s.then] + Size[after] < Size[b] /\ Size[s.else] + Size[after] < Size[b]
       /\ Size[s.then] + Size[after] \in Nat /\ Size[s.else] + Size[after] \in Nat
  BY <1>8, <1>9, <1>10
<1> QED
  BY <1>1, <1>7, <1>8, <1>11 DEF s, after

-----------------------------------------------------------------------------
(* Treeify, whose blocks may get deeper, but are of fewer statements.        *)

TreeLoop(f, s) == IF s.op = "for" THEN [s EXCEPT !.then = f[<<@, Len(@)>>]] ELSE s

Conditionals(block) == {i \in DOMAIN block : block[i].op = "ite"}
FirstConditional(block) == CHOOSE i \in Conditionals(block) : \A j \in Conditionals(block) : i <= j
After(block, k) == SubSeq(block, k + 1, Len(block))

\* A conditional whose branches take what follows it.
Branched(f, s, after) ==
  [s EXCEPT !.then = f[<<@ \o after, Len(@)>>], !.else = f[<<@ \o after, Len(@)>>]]

TreeifyOf(f, in) ==
  LET block == in[1]
      own == in[2]
      k == FirstConditional(block)
  IN  IF Conditionals(block) = {} THEN [i \in DOMAIN block |-> IF i <= own THEN block[i] ELSE TreeLoop(f, block[i])]
      ELSE Append([i \in 1 .. k - 1 |-> TreeLoop(f, block[i])], Branched(f, block[k], After(block, k)))

SizeRank == [in \in Code \X Nat |-> <<Size[in[1]], 0>>]
TreeifyIn == Code \X Nat
TreeifyOut == [in \in TreeifyIn |-> Seq(StmtsTo[MaxCodeDepth + Size[in[1]]])]

LEMMA SizeRankType == SizeRank \in [TreeifyIn -> Nat \X Nat]
BY SizeUnfold DEF SizeRank, TreeifyIn

\* There is a first conditional, if there is one.
LEMMA FirstConditionalIs ==
  ASSUME NEW b \in Code, Conditionals(b) # {}
  PROVE  /\ FirstConditional(b) \in DOMAIN b /\ b[FirstConditional(b)].op = "ite"
         /\ \A i \in 1 .. FirstConditional(b) - 1 : i \in DOMAIN b /\ b[i].op # "ite"
<1>1. DOMAIN b = 1 .. Len(b) /\ Len(b) \in Nat
  BY LenProperties DEF Code
<1>2. Conditionals(b) \in SUBSET Nat
  BY <1>1 DEF Conditionals
<1>3. \E i \in Conditionals(b) : \A j \in Conditionals(b) : i <= j
  BY <1>2, Least
<1>4. FirstConditional(b) \in Conditionals(b) /\ \A j \in Conditionals(b) : FirstConditional(b) <= j
  BY <1>3 DEF FirstConditional
<1>5. FirstConditional(b) \in 1 .. Len(b)
  BY <1>1, <1>4 DEF Conditionals
<1>6. ASSUME NEW i \in 1 .. FirstConditional(b) - 1 PROVE i \in DOMAIN b /\ ~(FirstConditional(b) <= i)
  BY <1>1, <1>5
<1> QED
  BY <1>4, <1>6 DEF Conditionals

\* A statement whose blocks are replaced by ones of any level.
LEMMA Retyped ==
  ASSUME NEW n \in Nat, NEW s \in StmtsTo[n], NEW m \in Nat, NEW x \in Seq(StmtsTo[m]), NEW y \in Seq(StmtsTo[m]),
         s.op \in {"ite", "for"}
  PROVE  [s EXCEPT !.then = x, !.else = y] \in StmtsTo[m + 1]
<1> DEFINE t == [s EXCEPT !.then = x, !.else = y]
<1>1. n # 0 /\ n - 1 \in Nat
  BY StmtsIn
<1>2. m + 1 \in Nat /\ m + 1 # 0 /\ (m + 1) - 1 = m
  OBVIOUS
<1>8. s \in [op : Kinds, to : Seq(Idents), idx : Seq(Exprs), args : Seq(Exprs),
             then : Seq(StmtsTo[n - 1]), else : Seq(StmtsTo[n - 1]),
             name : Idents, id : Int, target : Instances \cup {""}, span : Nat]
  BY StmtsIn
<1>3. t \in [op : Kinds, to : Seq(Idents), idx : Seq(Exprs), args : Seq(Exprs),
             then : Seq(StmtsTo[m]), else : Seq(StmtsTo[m]),
             name : Idents, id : Int, target : Instances \cup {""}, span : Nat]
  BY <1>8
<1>4. t.op = s.op /\ t.to = s.to /\ t.idx = s.idx /\ t.args = s.args
  BY StmtsIn
<1>5. HasShape(t)
  BY <1>4, StmtsIn DEF HasShape
<1>6. t \in StmtLevel(StmtsTo[m])
  BY <1>3, <1>5 DEF StmtLevel
<1> HIDE DEF t
<1>7. t \in StmtsTo[m + 1]
  BY <1>2, <1>6, TreesUnfold
<1> QED
  BY <1>7 DEF t

\* The results of the calls of Treeify are well typed.
LEMMA TreeifyCalls ==
  ASSUME NEW g \in Typed(TreeifyIn, TreeifyOut), NEW b \in Code, NEW i \in DOMAIN b, NEW m \in Nat,
         m + 1 = MaxCodeDepth + Size[b]
  PROVE  /\ MaxCodeDepth <= m /\ \A own \in Nat : /\ g[<<b[i].then, own>>] \in Seq(StmtsTo[m])
                           /\ g[<<b[i].then \o After(b, i), own>>] \in Seq(StmtsTo[m])
                           /\ g[<<b[i].else \o After(b, i), own>>] \in Seq(StmtsTo[m])
<1>1. \A d \in Code, own \in Nat : g[<<d, own>>] \in Seq(StmtsTo[MaxCodeDepth + Size[d]])
  BY DEF Typed, TreeifyIn, TreeifyOut
<1>2. ASSUME NEW d \in Code, Size[d] \in Nat, Size[d] < Size[b], NEW own \in Nat PROVE g[<<d, own>>] \in Seq(StmtsTo[m])
  <2>1. MaxCodeDepth \in Nat /\ Size[b] \in Nat
    BY DepthAssumption, SizeAt
  <2>2. MaxCodeDepth + Size[d] \in Nat /\ MaxCodeDepth + Size[d] <= m
    BY <1>2, <2>1
  <2> QED
    BY <1>1, <2>2, TreesGrow
<1>3. MaxCodeDepth <= m
  <2>1. MaxCodeDepth \in Nat /\ Size[b] \in Nat /\ Size[b[i].then] \in Nat /\ Size[b[i].then] < Size[b]
    BY DepthAssumption, SizeAt
  <2> QED
    BY <2>1
<1> QED
  BY <1>2, <1>3, SizeAt, CodeParts DEF After

LEMMA TreeLoopIn ==
  ASSUME NEW g \in Typed(TreeifyIn, TreeifyOut), NEW b \in Code, NEW i \in DOMAIN b
  PROVE  /\ b[i] \in StmtsTo[MaxCodeDepth + Size[b]] /\ TreeLoop(g, b[i]) \in StmtsTo[MaxCodeDepth + Size[b]]
         /\ b[i].op = "ite" => Branched(g, b[i], After(b, i)) \in StmtsTo[MaxCodeDepth + Size[b]]
<1> DEFINE m == MaxCodeDepth + Size[b] - 1
<1>1. MaxCodeDepth \in Nat /\ Size[b] \in Nat /\ m \in Nat /\ m + 1 = MaxCodeDepth + Size[b]
  BY DepthAssumption, SizeUnfold
<1>2. MaxCodeDepth <= m
  BY <1>1, TreeifyCalls, EmptySeq
<1>3. b[i] \in StmtsTo[MaxCodeDepth] /\ b[i].then \in Code /\ b[i].else \in Code
  BY CodeParts
<1>4. Len(b[i].then) \in Nat /\ Len(b[i].else) \in Nat
  BY <1>3, LenProperties DEF Code
<1>5. b[i].else \in Seq(StmtsTo[m])
  BY <1>1, <1>2, <1>3, TreesGrow DEF Code
<1>6. b[i] \in StmtsTo[m + 1]
  <2>1. m + 1 \in Nat /\ MaxCodeDepth <= m + 1
    BY <1>1, <1>2
  <2> QED
    BY <1>1, <1>3, <2>1, TreesGrow
<1>7. /\ g[<<b[i].then, Len(b[i].then)>>] \in Seq(StmtsTo[m])
      /\ g[<<b[i].then \o After(b, i), Len(b[i].then)>>] \in Seq(StmtsTo[m])
      /\ g[<<b[i].else \o After(b, i), Len(b[i].else)>>] \in Seq(StmtsTo[m])
  BY <1>1, <1>4, TreeifyCalls
<1> HIDE DEF m
<1>8. TreeLoop(g, b[i]) \in StmtsTo[m + 1]
  <2>1. CASE b[i].op # "for"
    BY <1>6, <2>1 DEF TreeLoop
  <2>2. CASE b[i].op = "for"
    <3>1. [b[i] EXCEPT !.then = g[<<@, Len(@)>>]] = [b[i] EXCEPT !.then = g[<<b[i].then, Len(b[i].then)>>], !.else = b[i].else]
      BY <1>1, <1>3, StmtsIn
    <3>2. [b[i] EXCEPT !.then = g[<<b[i].then, Len(b[i].then)>>], !.else = b[i].else] \in StmtsTo[m + 1]
      BY <1>1, <1>3, <1>5, <1>7, <2>2, Retyped
    <3> QED
      BY <2>2, <3>1, <3>2 DEF TreeLoop
  <2> QED
    BY <2>1, <2>2
<1>9. ASSUME b[i].op = "ite" PROVE Branched(g, b[i], After(b, i)) \in StmtsTo[m + 1]
  <2>1. Branched(g, b[i], After(b, i)) = [b[i] EXCEPT !.then = g[<<b[i].then \o After(b, i), Len(b[i].then)>>],
                                                      !.else = g[<<b[i].else \o After(b, i), Len(b[i].else)>>]]
    BY <1>1, <1>3, StmtsIn DEF Branched
  <2>2. b[i].op \in {"ite", "for"}
    BY <1>9
  <2>3. [b[i] EXCEPT !.then = g[<<b[i].then \o After(b, i), Len(b[i].then)>>],
                     !.else = g[<<b[i].else \o After(b, i), Len(b[i].else)>>]] \in StmtsTo[m + 1]
    BY <1>1, <1>3, <1>7, <2>2, Retyped
  <2> QED
    BY <2>1, <2>3
<1> QED
  BY <1>1, <1>6, <1>8, <1>9

\* What Treeify is written as is well typed.
LEMMA TreeifyTyped ==
  ASSUME NEW g \in Typed(TreeifyIn, TreeifyOut), NEW b \in Code, NEW own \in Nat
  PROVE  TreeifyOf(g, <<b, own>>) \in Seq(StmtsTo[MaxCodeDepth + Size[b]])
<1>1. DOMAIN b = 1 .. Len(b) /\ Len(b) \in Nat /\ b \in Seq(StmtsTo[MaxCodeDepth])
  BY LenProperties DEF Code
<1>2. CASE Conditionals(b) = {}
  <2> DEFINE c == [i \in DOMAIN b |-> IF i <= own THEN b[i] ELSE TreeLoop(g, b[i])]
  <2>1. TreeifyOf(g, <<b, own>>) = c
    BY <1>2 DEF TreeifyOf
  <2>2. \A i \in DOMAIN b : c[i] \in StmtsTo[MaxCodeDepth + Size[b]]
    BY TreeLoopIn
  <2>3. c = [i \in DOMAIN b |-> c[i]]
    OBVIOUS
  <2> HIDE DEF c
  <2> DEFINE S == StmtsTo[MaxCodeDepth + Size[b]]
  <2>4. \A i \in DOMAIN b : c[i] \in S
    BY <2>2
  <2> HIDE DEF S
  <2>5. c \in Seq(S)
    BY <1>1, <2>3, <2>4, SeqOfFunction
  <2> QED
    BY <2>1, <2>5 DEF S
<1>3. CASE Conditionals(b) # {}
  <2> DEFINE k == FirstConditional(b)
             c == [i \in 1 .. k - 1 |-> TreeLoop(g, b[i])]
             t == Branched(g, b[k], After(b, k))
  <2>1. TreeifyOf(g, <<b, own>>) = Append(c, t)
    BY <1>3 DEF TreeifyOf
  <2>2. k \in 1 .. Len(b) /\ b[k].op = "ite" /\ \A i \in 1 .. k - 1 : i \in DOMAIN b
    BY <1>1, <1>3, FirstConditionalIs
  <2>3. t \in StmtsTo[MaxCodeDepth + Size[b]]
    BY <1>1, <2>2, TreeLoopIn
  <2>4. \A i \in 1 .. k - 1 : TreeLoop(g, b[i]) \in StmtsTo[MaxCodeDepth + Size[b]]
    BY <2>2, TreeLoopIn
  <2>5. k - 1 \in Nat
    BY <1>1, <2>2
  <2> HIDE DEF k, t
  <2>6. c \in Seq(StmtsTo[MaxCodeDepth + Size[b]])
    BY <2>4, <2>5
  <2> HIDE DEF c
  <2> QED
    BY <2>1, <2>3, <2>6, AppendIn
<1> QED
  BY <1>2, <1>3

\* It calls itself on smaller blocks only.
LEMMA TreeifyLocal ==
  ASSUME NEW g, NEW h, NEW b \in Code, NEW own \in Nat, AgreeBelow(TreeifyIn, SizeRank, g, h, <<b, own>>)
  PROVE  TreeifyOf(g, <<b, own>>) = TreeifyOf(h, <<b, own>>)
<1>1. ASSUME NEW d \in Code, NEW k \in Nat, Size[d] \in Nat, Size[d] < Size[b] PROVE g[<<d, k>>] = h[<<d, k>>]
  <2>1. SizeRank[<<d, k>>] = <<Size[d], 0>> /\ SizeRank[<<b, own>>] = <<Size[b], 0>> /\ <<d, k>> \in TreeifyIn
    BY DEF SizeRank, TreeifyIn
  <2>2. Below(<<Size[d], 0>>, <<Size[b], 0>>)
    BY <1>1 DEF Below
  <2> QED
    BY <2>1, <2>2 DEF AgreeBelow
<1>2. ASSUME NEW i \in DOMAIN b
      PROVE  /\ TreeLoop(g, b[i]) = TreeLoop(h, b[i])
             /\ Branched(g, b[i], After(b, i)) = Branched(h, b[i], After(b, i))
  <2>1. b[i] \in StmtsTo[MaxCodeDepth] /\ b[i].then \in Code /\ b[i].else \in Code /\ MaxCodeDepth \in Nat
    BY CodeParts, DepthAssumption
  <2>2. Len(b[i].then) \in Nat /\ Len(b[i].else) \in Nat
    BY <2>1, LenProperties DEF Code
  <2>3. /\ g[<<b[i].then, Len(b[i].then)>>] = h[<<b[i].then, Len(b[i].then)>>]
        /\ g[<<b[i].then \o After(b, i), Len(b[i].then)>>] = h[<<b[i].then \o After(b, i), Len(b[i].then)>>]
        /\ g[<<b[i].else \o After(b, i), Len(b[i].else)>>] = h[<<b[i].else \o After(b, i), Len(b[i].else)>>]
    BY <1>1, <2>1, <2>2, SizeAt DEF After
  <2>4. /\ [b[i] EXCEPT !.then = g[<<@, Len(@)>>]] = [b[i] EXCEPT !.then = g[<<b[i].then, Len(b[i].then)>>]]
        /\ [b[i] EXCEPT !.then = h[<<@, Len(@)>>]] = [b[i] EXCEPT !.then = h[<<b[i].then, Len(b[i].then)>>]]
    BY <2>1, StmtsIn
  <2>5. \A f : Branched(f, b[i], After(b, i)) = [b[i] EXCEPT !.then = f[<<b[i].then \o After(b, i), Len(b[i].then)>>],
                                                             !.else = f[<<b[i].else \o After(b, i), Len(b[i].else)>>]]
    BY <2>1, StmtsIn DEF Branched
  <2> QED
    BY <2>3, <2>4, <2>5 DEF TreeLoop
<1>3. CASE Conditionals(b) = {}
  BY <1>2, <1>3 DEF TreeifyOf
<1>4. CASE Conditionals(b) # {}
  <2> DEFINE k == FirstConditional(b)
  <2>1. k \in DOMAIN b /\ \A i \in 1 .. k - 1 : i \in DOMAIN b
    BY <1>4, FirstConditionalIs
  <2>2. [i \in 1 .. k - 1 |-> TreeLoop(g, b[i])] = [i \in 1 .. k - 1 |-> TreeLoop(h, b[i])]
    BY <1>2, <2>1
  <2>3. Branched(g, b[k], After(b, k)) = Branched(h, b[k], After(b, k))
    BY <1>2, <2>1
  <2> QED
    BY <1>4, <2>2, <2>3 DEF TreeifyOf
<1> QED
  BY <1>3, <1>4

\* Treeify is total, and its definition holds everywhere.
LEMMA TreeifyUnfold ==
  /\ Treeify \in Typed(TreeifyIn, TreeifyOut)
  /\ \A in \in TreeifyIn : Treeify[in] = TreeifyOf(Treeify, in)
<1> DEFINE T == TreeifyIn
           V == TreeifyOut
           rk == SizeRank
           E == [p \in T \X Typed(T, V) |-> TreeifyOf(p[2], p[1])]
<1>1. \A x \in T, g \in Typed(T, V) : E[<<x, g>>] = TreeifyOf(g, x)
  OBVIOUS
<1>0. \A in \in T : \E b \in Code, own \in Nat : in = <<b, own>>
  BY DEF TreeifyIn
<1>2. ASSUME NEW in \in T, NEW g \in Typed(T, V), NEW h, AgreeBelow(T, rk, g, h, in)
      PROVE  TreeifyOf(g, in) = TreeifyOf(h, in)
  BY <1>0, <1>2, TreeifyLocal
<1>3. ASSUME NEW in \in T, NEW g \in Typed(T, V) PROVE TreeifyOf(g, in) \in V[in]
  <2>1. PICK b \in Code, own \in Nat : in = <<b, own>>
    BY <1>0
  <2>2. V[<<b, own>>] = Seq(StmtsTo[MaxCodeDepth + Size[b]])
    BY DEF TreeifyOut, TreeifyIn
  <2> QED
    BY <2>1, <2>2, TreeifyTyped
<1>4. \A in \in T : V[in] # {}
  <2>1. \A in \in T : V[in] = Seq(StmtsTo[MaxCodeDepth + Size[in[1]]])
    BY DEF TreeifyOut
  <2>2. \A S : <<>> \in Seq(S)
    OBVIOUS
  <2> QED
    BY <2>1, <2>2
<1> HIDE DEF T, V, E, rk
<1>5. Recurses(T, rk, V, E)
  <2>1. \A x \in T, g \in Typed(T, V) : E[<<x, g>>] \in V[x]
    BY <1>1, <1>3
  <2>2. \A x \in T : \A g, h \in Typed(T, V) : AgreeBelow(T, rk, g, h, x) => E[<<x, g>>] = E[<<x, h>>]
    BY <1>1, <1>2
  <2>3. rk \in [T -> Nat \X Nat]
    BY SizeRankType DEF T, rk
  <2> QED
    BY <1>4, <2>1, <2>2, <2>3 DEF Recurses
<1>6. PICK f \in Typed(T, V) : f = [x \in T |-> E[<<x, f>>]]
  BY <1>5, RecursionExists
<1>7. f = [x \in T |-> TreeifyOf(f, x)]
  BY <1>1, <1>6
<1>8. Treeify = [x \in T |-> TreeifyOf(Treeify, x)]
  BY <1>7 DEF Treeify, TreeifyOf, TreeLoop, Branched, Conditionals, FirstConditional, After, T, TreeifyIn
<1>9. Treeify \in Typed(T, V)
  <2>1. Treeify = [x \in T |-> Treeify[x]]
    BY <1>8
  <2>2. \A x \in T : Treeify[x] = TreeifyOf(Treeify, x)
    BY <1>8
  <2> QED
    BY <1>1, <1>2, <1>5, <2>1, <2>2, RecursionTyped
<1> QED
  BY <1>8, <1>9 DEF T, V

-----------------------------------------------------------------------------
(* InitTables.                                                               *)

\* Whether a statement assigns to an entry of a generated table, and the
\* assignment that goes before it.
TableOf(s) == s.idx # <<>> /\ IsGenerated(s.to[1])
NewTable(s) == Assign(s.to[1], <<>>, Expr("newtable", Ident(""), <<>>))
Starts(s, done) == IF TableOf(s) /\ s.to[1] \notin done THEN <<NewTable(s)>> ELSE <<>>
DoneAfter(s, done) == IF TableOf(s) THEN done \cup {s.to[1]} ELSE done

InitTablesOf(f, in) ==
  LET block == in[1]
      done == in[2]
  IN  IF block = <<>> THEN <<>>
      ELSE LET s == Head(block)
               new == IF s.op = "ite" THEN [s EXCEPT !.then = f[<<@, done>>], !.else = f[<<@, done>>]] ELSE s
           IN  Starts(s, done) \o <<new>> \o f[<<Tail(block), DoneAfter(s, done)>>]

InitIn == Code \X SUBSET Idents
InitOut == [in \in InitIn |-> {c \in Code : NoDeeper(in[1], c)}]

LEMMA StartsType ==
  ASSUME NEW n \in Nat, NEW s \in StmtsTo[n], NEW done \in SUBSET Idents
  PROVE  /\ Starts(s, done) \in Seq(StmtsTo[1]) /\ DoneAfter(s, done) \in SUBSET Idents
         /\ TableOf(s) => NewTable(s) \in StmtsTo[1] /\ NewTable(s).op = "assign" /\ NewTable(s).idx = <<>>
                          /\ NewTable(s).args = <<Expr("newtable", Ident(""), <<>>)>>
<1>1. s.to \in Seq(Idents) /\ s.idx \in Seq(Exprs) /\ HasShape(s)
  BY StmtsIn
<1>2. s.idx # <<>> => s.to[1] \in Idents
  <2>1. s.idx # <<>> => s.to # <<>>
    BY <1>1 DEF HasShape
  <2>2. s.to # <<>> => 1 \in 1 .. Len(s.to)
    BY <1>1
  <2> QED
    BY <1>1, <2>1, <2>2, ElementOfSeq
<1>3. TableOf(s) => s.to[1] \in Idents
  BY <1>2 DEF TableOf
<1>4. Expr("newtable", Ident(""), <<>>) \in Exprs
  <2>1. MaxExprDepth \in Nat /\ MaxExprDepth # 0
    BY DepthAssumption
  <2>2. 0 \in Nat
    OBVIOUS
  <2>3. Ident("") \in Idents
    BY <2>2 DEF Idents, Ident
  <2>5. \A S : <<>> \in Seq(S)
    OBVIOUS
  <2>6. "newtable" \in Operations
    BY DEF Operations
  <2>4. Expr("newtable", Ident(""), <<>>) \in ExprLevel(ExprsTo[MaxExprDepth - 1])
    BY <2>3, <2>5, <2>6 DEF Expr, ExprLevel
  <2> QED
    BY <2>1, <2>4, TreesUnfold DEF Exprs
<1>5. TableOf(s) => NewTable(s) \in StmtsTo[1] /\ NewTable(s).op = "assign" /\ NewTable(s).idx = <<>>
                          /\ NewTable(s).args = <<Expr("newtable", Ident(""), <<>>)>>
  BY <1>3, <1>4, AssignIn DEF NewTable
<1>6. Starts(s, done) \in Seq(StmtsTo[1])
  <2>1. CASE TableOf(s) /\ s.to[1] \notin done
    <3>1. <<NewTable(s)>> \in Seq(StmtsTo[1])
      BY <1>5, <2>1, OneSeq
    <3> QED
      BY <2>1, <3>1 DEF Starts
  <2>2. CASE ~(TableOf(s) /\ s.to[1] \notin done)
    BY <2>2, EmptySeq DEF Starts
  <2> QED
    BY <2>1, <2>2
<1> QED
  BY <1>3, <1>5, <1>6 DEF DoneAfter

\* InitTables is total, makes code no deeper, and its definition holds everywhere.
LEMMA InitTablesUnfold ==
  /\ InitTables \in Typed(InitIn, InitOut)
  /\ \A in \in InitIn : InitTables[in] = InitTablesOf(InitTables, in)
<1> DEFINE T == InitIn
           V == InitOut
           rk == FirstRank(T)
           E == [p \in T \X Typed(T, V) |-> InitTablesOf(p[2], p[1])]
<1>1. \A x \in T, g \in Typed(T, V) : E[<<x, g>>] = InitTablesOf(g, x)
  OBVIOUS
<1>0. \A in \in T : \E b \in Code, done \in SUBSET Idents : in = <<b, done>>
  BY DEF InitIn
<1>2. ASSUME NEW in \in T, NEW g \in Typed(T, V), NEW h, AgreeBelow(T, rk, g, h, in)
      PROVE  InitTablesOf(g, in) = InitTablesOf(h, in)
  <2>1. PICK b \in Code, done \in SUBSET Idents : in = <<b, done>>
    BY <1>0
  <2>2. CASE b = <<>>
    BY <2>1, <2>2 DEF InitTablesOf
  <2>3. CASE b # <<>>
    <3>1. \A d \in Code, k \in SUBSET Idents : Below(CodeRank[d], CodeRank[b]) => g[<<d, k>>] = h[<<d, k>>]
      BY <1>2, <2>1 DEF AgreeBelow, InitIn, FirstRank
    <3> DEFINE s == Head(b)
               new(f) == IF s.op = "ite" THEN [s EXCEPT !.then = f[<<@, done>>], !.else = f[<<@, done>>]] ELSE s
    <3>2. s \in StmtsTo[MaxCodeDepth] /\ MaxCodeDepth \in Nat
      BY <2>3, HeadParts, DepthAssumption DEF AnyStmt
    <3>3. DoneAfter(s, done) \in SUBSET Idents
      BY <3>2, StartsType
    <3>4. g[<<Tail(b), DoneAfter(s, done)>>] = h[<<Tail(b), DoneAfter(s, done)>>]
      BY <2>3, <3>1, <3>3, HeadParts
    <3>5. g[<<s.then, done>>] = h[<<s.then, done>>] /\ g[<<s.else, done>>] = h[<<s.else, done>>]
      BY <2>3, <3>1, HeadParts
    <3>6. new(g) = new(h)
      BY <3>5
    <3>7. \A f : InitTablesOf(f, in) = Starts(s, done) \o <<new(f)>> \o f[<<Tail(b), DoneAfter(s, done)>>]
      BY <2>1, <2>3 DEF InitTablesOf
    <3> HIDE DEF s, new
    <3> QED
      BY <3>4, <3>6, <3>7
  <2> QED
    BY <2>2, <2>3
<1>3. ASSUME NEW in \in T, NEW g \in Typed(T, V) PROVE InitTablesOf(g, in) \in V[in]
  <2>1. PICK b \in Code, done \in SUBSET Idents : in = <<b, done>>
    BY <1>0
  <2> DEFINE o == InitTablesOf(g, in)
  <2>2. NoDeeper(b, o)
    <3>1. CASE b = <<>>
      BY <2>1, <3>1 DEF InitTablesOf, NoDeeper
    <3>2. CASE b # <<>>
      <4> DEFINE s == Head(b)
                 new == IF s.op = "ite" THEN [s EXCEPT !.then = g[<<@, done>>], !.else = g[<<@, done>>]] ELSE s
                 rest == g[<<Tail(b), DoneAfter(s, done)>>]
      <4>1. \A d \in Code, k \in SUBSET Idents : NoDeeper(d, g[<<d, k>>])
        BY DEF Typed, InitIn, InitOut
      <4>2. s \in StmtsTo[MaxCodeDepth] /\ MaxCodeDepth \in Nat /\ s.then \in Code /\ s.else \in Code /\ Tail(b) \in Code
        BY <3>2, HeadParts, DepthAssumption DEF AnyStmt
      <4>3. Starts(s, done) \in Seq(StmtsTo[1]) /\ DoneAfter(s, done) \in SUBSET Idents
        BY <4>2, StartsType
      <4>4. NoDeeper(s.then, g[<<s.then, done>>]) /\ NoDeeper(s.else, g[<<s.else, done>>]) /\ NoDeeper(Tail(b), rest)
        BY <4>1, <4>2, <4>3
      <4>5. o = Starts(s, done) \o <<new>> \o rest
        BY <2>1, <3>2 DEF InitTablesOf
      <4>6. ASSUME NEW n \in Nat, b \in Seq(StmtsTo[n]) PROVE Starts(s, done) \o <<new>> \o rest \in Seq(StmtsTo[n])
        <5>1. s \in StmtsTo[n] /\ Tail(b) \in Seq(StmtsTo[n])
          BY <3>2, <4>6, HeadTailProperties
        <5>2. new \in StmtsTo[n]
          <6>1. [s EXCEPT !.then = g[<<s.then, done>>], !.else = g[<<s.else, done>>]] \in StmtsTo[n]
            BY <4>4, <5>1, Rebuilt
          <6>2. [s EXCEPT !.then = g[<<@, done>>], !.else = g[<<@, done>>]]
                  = [s EXCEPT !.then = g[<<s.then, done>>], !.else = g[<<s.else, done>>]]
            BY <5>1, StmtsIn
          <6> QED
            BY <5>1, <6>1, <6>2
        <5>3. rest \in Seq(StmtsTo[n])
          BY <4>4, <5>1 DEF NoDeeper
        <5>4. Starts(s, done) \in Seq(StmtsTo[n])
          <6>1. n # 0
            BY <5>1, StmtsIn
          <6>2. 1 \in Nat /\ 1 <= n
            BY <6>1
          <6> QED
            BY <4>3, <6>2, TreesGrow
        <5> HIDE DEF new, rest
        <5>5. <<new>> \in Seq(StmtsTo[n])
          BY <5>2, OneSeq
        <5>6. Starts(s, done) \o <<new>> \in Seq(StmtsTo[n])
          BY <5>4, <5>5, ConcatProperties
        <5> QED
          BY <5>3, <5>6, ConcatProperties
      <4> HIDE DEF new, rest, o
      <4> QED
        BY <4>5, <4>6 DEF NoDeeper
    <3> QED
      BY <3>1, <3>2
  <2> HIDE DEF o
  <2>3. o \in Code
    BY <2>2, NoDeeperIsCode
  <2>4. o \in V[in]
    BY <2>1, <2>2, <2>3 DEF InitOut
  <2> QED
    BY <2>4 DEF o
<1>4. \A in \in T : V[in] # {}
  <2>1. \A b \in Code, n \in SUBSET Idents : b \in V[<<b, n>>]
    BY DEF InitIn, InitOut, NoDeeper
  <2> QED
    BY <1>0, <2>1
<1> HIDE DEF T, V, E, rk
<1>5. Recurses(T, rk, V, E)
  <2>1. \A x \in T, g \in Typed(T, V) : E[<<x, g>>] \in V[x]
    BY <1>1, <1>3
  <2>2. \A x \in T : \A g, h \in Typed(T, V) : AgreeBelow(T, rk, g, h, x) => E[<<x, g>>] = E[<<x, h>>]
    BY <1>1, <1>2
  <2>3. rk \in [T -> Nat \X Nat]
    BY FirstRankType DEF InitIn, T, rk
  <2> QED
    BY <1>4, <2>1, <2>2, <2>3 DEF Recurses
<1>6. PICK f \in Typed(T, V) : f = [x \in T |-> E[<<x, f>>]]
  BY <1>5, RecursionExists
<1>7. f = [x \in T |-> InitTablesOf(f, x)]
  BY <1>1, <1>6
<1>8. InitTables = [x \in T |-> InitTablesOf(InitTables, x)]
  BY <1>7 DEF InitTables, InitTablesOf, Starts, NewTable, DoneAfter, TableOf, T, InitIn
<1>9. InitTables \in Typed(T, V)
  <2>1. InitTables = [x \in T |-> InitTables[x]]
    BY <1>8
  <2>2. \A x \in T : InitTables[x] = InitTablesOf(InitTables, x)
    BY <1>8
  <2> QED
    BY <1>1, <1>2, <1>5, <2>1, <2>2, RecursionTyped
<1> QED
  BY <1>8, <1>9 DEF T, V

-----------------------------------------------------------------------------
(* Views: what the properties need to know of the statements of a block.     *)

\* What a statement is, its blocks and the names of samples aside.
View(s) == [op |-> s.op, idx |-> s.idx, args |-> s.args, id |-> s.id, target |-> s.target, span |-> s.span,
            name |-> IF s.op = "invoke" THEN s.name ELSE Ident("")]
Views(b) == {View(s) : s \in StatementsOf[b]}
ViewsAt(s) == {View(s)} \cup Views(s.then) \cup Views(s.else)

LEMMA InFullView == \A s : InFull(View(s)) <=> InFull(s)
BY DEF InFull, View

\* A statement has its arguments if it is the same invocation as one that has.
SameCall(s, t) == s.op = t.op /\ (s.op = "invoke" => s.name = t.name) /\ Len(s.args) = Len(t.args)
LEMMA SameCallInFull == \A s, t : SameCall(s, t) => (InFull(s) <=> InFull(t))
BY DEF SameCall, InFull

\* The views of a block are those of its statements and of what is inside them.
LEMMA ViewsIndex ==
  ASSUME NEW b \in Code
  PROVE  /\ \A i \in DOMAIN b : ViewsAt(b[i]) \subseteq Views(b)
         /\ \A v \in Views(b) : \E i \in DOMAIN b : v \in ViewsAt(b[i])
<1>1. StatementsOf[b] = UNION {{s} \cup StatementsOf[s.then] \cup StatementsOf[s.else] : s \in Range(b)}
  BY StatementsOfUnfold DEF StatementsOfOf
<1>2. \A s : s \in Range(b) <=> \E i \in DOMAIN b : s = b[i]
  BY DEF Range
<1>3. \A i \in DOMAIN b : {b[i]} \cup StatementsOf[b[i].then] \cup StatementsOf[b[i].else] \subseteq StatementsOf[b]
  BY <1>1, <1>2
<1>4. \A t \in StatementsOf[b] : \E i \in DOMAIN b : t \in {b[i]} \cup StatementsOf[b[i].then] \cup StatementsOf[b[i].else]
  BY <1>1, <1>2
<1> QED
  BY <1>3, <1>4 DEF Views, ViewsAt

LEMMA ViewsEmpty == Views(<<>>) = {}
<1>1. <<>> \in Code /\ DOMAIN <<>> = {}
  BY SizeEmpty
<1> QED
  BY <1>1, ViewsIndex

\* The views of two blocks joined.
LEMMA ViewsConcat ==
  ASSUME NEW a \in Code, NEW b \in Code
  PROVE  a \o b \in Code /\ Views(a \o b) = Views(a) \cup Views(b)
<1>1. a \o b \in Code
  BY CodeConcat
<1>2. /\ Len(a) \in Nat /\ Len(b) \in Nat /\ DOMAIN a = 1 .. Len(a) /\ DOMAIN b = 1 .. Len(b)
      /\ DOMAIN (a \o b) = 1 .. Len(a) + Len(b)
      /\ \A i \in 1 .. Len(a) + Len(b) : (a \o b)[i] = IF i <= Len(a) THEN a[i] ELSE b[i - Len(a)]
  BY <1>1, ConcatProperties, LenProperties DEF Code
<1>3. ASSUME NEW i \in DOMAIN a PROVE i \in DOMAIN (a \o b) /\ (a \o b)[i] = a[i]
  <2>1. i \in 1 .. Len(a) + Len(b) /\ i <= Len(a)
    BY <1>2
  <2> QED
    BY <1>2, <2>1
<1>4. ASSUME NEW i \in DOMAIN b PROVE \E j \in DOMAIN (a \o b) : (a \o b)[j] = b[i]
  <2>1. i + Len(a) \in 1 .. Len(a) + Len(b) /\ ~(i + Len(a) <= Len(a)) /\ (i + Len(a)) - Len(a) = i
    BY <1>2
  <2> QED
    BY <1>2, <2>1
<1>5. ASSUME NEW i \in DOMAIN (a \o b)
      PROVE  (\E j \in DOMAIN a : (a \o b)[i] = a[j]) \/ (\E j \in DOMAIN b : (a \o b)[i] = b[j])
  <2>1. i \in 1 .. Len(a) + Len(b) /\ (i <= Len(a) => i \in DOMAIN a) /\ (~(i <= Len(a)) => i - Len(a) \in DOMAIN b)
    BY <1>2
  <2> QED
    BY <1>2, <2>1
<1>6. Views(a \o b) \subseteq Views(a) \cup Views(b)
  BY <1>1, <1>5, ViewsIndex
<1>7. Views(a) \subseteq Views(a \o b)
  BY <1>1, <1>3, ViewsIndex
<1>8. Views(b) \subseteq Views(a \o b)
  BY <1>1, <1>4, ViewsIndex
<1> QED
  BY <1>1, <1>6, <1>7, <1>8

LEMMA ViewsOne ==
  ASSUME NEW n \in Nat, n <= MaxCodeDepth, NEW s \in StmtsTo[n]
  PROVE  <<s>> \in Code /\ Views(<<s>>) = ViewsAt(s)
<1>1. s \in StmtsTo[MaxCodeDepth]
  BY DepthAssumption, TreesGrow
<1>3. <<s>> \in Code
  BY <1>1, OneSeq DEF Code
<1>2. <<s>> \in Code /\ DOMAIN <<s>> = {1} /\ <<s>>[1] = s
  BY <1>3
<1> QED
  BY <1>2, ViewsIndex

LEMMA ViewsAppend ==
  ASSUME NEW b \in Code, NEW s \in StmtsTo[MaxCodeDepth]
  PROVE  Append(b, s) \in Code /\ Views(Append(b, s)) = Views(b) \cup ViewsAt(s)
<1>1. MaxCodeDepth \in Nat /\ MaxCodeDepth <= MaxCodeDepth
  BY DepthAssumption
<1>2. Append(b, s) = b \o <<s>>
  BY AppendIsConcat DEF Code
<1> QED
  BY <1>1, <1>2, ViewsOne, ViewsConcat

\* The first statement and the others.
LEMMA ViewsHead ==
  ASSUME NEW b \in Code, b # <<>>
  PROVE  Views(b) = ViewsAt(Head(b)) \cup Views(Tail(b)) /\ Head(b) \in StmtsTo[MaxCodeDepth] /\ Tail(b) \in Code
<1>1. MaxCodeDepth \in Nat /\ MaxCodeDepth <= MaxCodeDepth
  BY DepthAssumption
<1>2. Head(b) \in StmtsTo[MaxCodeDepth] /\ Tail(b) \in Code
  BY HeadParts DEF AnyStmt
<1>3. b = <<Head(b)>> \o Tail(b)
  <2>1. b \in Seq(StmtsTo[MaxCodeDepth]) /\ <<Head(b)>> \in Seq(StmtsTo[MaxCodeDepth]) /\ Tail(b) \in Seq(StmtsTo[MaxCodeDepth])
    BY <1>2, OneSeq DEF Code
  <2>2. Len(b) \in Nat /\ Len(b) # 0 /\ Len(Tail(b)) = Len(b) - 1 /\ Len(<<Head(b)>>) = 1
    BY <2>1, HeadTailProperties, EmptySeq, LenProperties
  <2>3. <<Head(b)>> \o Tail(b) \in Seq(StmtsTo[MaxCodeDepth]) /\ Len(<<Head(b)>> \o Tail(b)) = Len(b)
    BY <2>1, <2>2, ConcatProperties
  <2>4. \A i \in 1 .. Len(b) : b[i] = (<<Head(b)>> \o Tail(b))[i]
    BY <2>1, <2>2
  <2> QED
    BY <2>1, <2>3, <2>4, SeqEqual
<1>4. Views(<<Head(b)>> \o Tail(b)) = ViewsAt(Head(b)) \cup Views(Tail(b))
  BY <1>1, <1>2, ViewsOne, ViewsConcat
<1> QED
  BY <1>2, <1>3, <1>4

-----------------------------------------------------------------------------
(* No unwrap is left inside an expression after unwrapify.                   *)

\* Where the positions of two sequences go when they are joined.
Joined(a, b, c) ==
  /\ \A i \in DOMAIN a : i \in DOMAIN c /\ c[i] = a[i]
  /\ \A i \in DOMAIN b : \E j \in DOMAIN c : c[j] = b[i]
  /\ \A i \in DOMAIN c : (\E j \in DOMAIN a : c[i] = a[j]) \/ (\E j \in DOMAIN b : c[i] = b[j])

LEMMA ConcatPositions ==
  ASSUME NEW S, NEW a \in Seq(S), NEW b \in Seq(S)
  PROVE  a \o b \in Seq(S) /\ Joined(a, b, a \o b)
<1>2. /\ Len(a) \in Nat /\ Len(b) \in Nat /\ DOMAIN a = 1 .. Len(a) /\ DOMAIN b = 1 .. Len(b)
      /\ DOMAIN (a \o b) = 1 .. Len(a) + Len(b) /\ a \o b \in Seq(S)
      /\ \A i \in 1 .. Len(a) + Len(b) : (a \o b)[i] = IF i <= Len(a) THEN a[i] ELSE b[i - Len(a)]
  BY ConcatProperties, LenProperties
<1>3. ASSUME NEW i \in DOMAIN a PROVE i \in DOMAIN (a \o b) /\ (a \o b)[i] = a[i]
  <2>1. i \in 1 .. Len(a) + Len(b) /\ i <= Len(a)
    BY <1>2
  <2> QED
    BY <1>2, <2>1
<1>4. ASSUME NEW i \in DOMAIN b PROVE \E j \in DOMAIN (a \o b) : (a \o b)[j] = b[i]
  <2>1. i + Len(a) \in 1 .. Len(a) + Len(b) /\ ~(i + Len(a) <= Len(a)) /\ (i + Len(a)) - Len(a) = i
    BY <1>2
  <2> QED
    BY <1>2, <2>1
<1>5. ASSUME NEW i \in DOMAIN (a \o b)
      PROVE  (\E j \in DOMAIN a : (a \o b)[i] = a[j]) \/ (\E j \in DOMAIN b : (a \o b)[i] = b[j])
  <2>1. i \in 1 .. Len(a) + Len(b) /\ (i <= Len(a) => i \in DOMAIN a) /\ (~(i <= Len(a)) => i - Len(a) \in DOMAIN b)
    BY <1>2
  <2> QED
    BY <1>2, <2>1
<1> QED
  BY <1>2, <1>3, <1>4, <1>5 DEF Joined

LEMMA HasUnwrapIs ==
  ASSUME NEW es \in Seq(Exprs)
  PROVE  HasUnwrap[es] <=> \E i \in DOMAIN es : es[i].op = "unwrap" \/ HasUnwrap[es[i].args]
BY HasUnwrapUnfold DEF HasUnwrapOf

LEMMA HasUnwrapEmpty == <<>> \in Seq(Exprs) /\ ~HasUnwrap[<<>>]
<1>1. <<>> \in Seq(Exprs) /\ DOMAIN <<>> = {}
  OBVIOUS
<1> QED
  BY <1>1, HasUnwrapIs

\* Unwraps in two lists joined.
LEMMA HasUnwrapConcat ==
  ASSUME NEW a \in Seq(Exprs), NEW b \in Seq(Exprs)
  PROVE  a \o b \in Seq(Exprs) /\ (HasUnwrap[a \o b] <=> HasUnwrap[a] \/ HasUnwrap[b])
<1> DEFINE c == a \o b
<1>1. c \in Seq(Exprs) /\ Joined(a, b, c)
  BY ConcatPositions
<1> HIDE DEF c
<1>2. HasUnwrap[a] <=> \E i \in DOMAIN a : a[i].op = "unwrap" \/ HasUnwrap[a[i].args]
  BY HasUnwrapIs
<1>3. HasUnwrap[b] <=> \E i \in DOMAIN b : b[i].op = "unwrap" \/ HasUnwrap[b[i].args]
  BY HasUnwrapIs
<1>4. HasUnwrap[c] <=> \E i \in DOMAIN c : c[i].op = "unwrap" \/ HasUnwrap[c[i].args]
  BY <1>1, HasUnwrapIs
<1>5. HasUnwrap[c] <=> HasUnwrap[a] \/ HasUnwrap[b]
  BY <1>1, <1>2, <1>3, <1>4 DEF Joined
<1> QED
  BY <1>1, <1>5 DEF c

LEMMA HasUnwrapOne ==
  ASSUME NEW e \in Exprs
  PROVE  <<e>> \in Seq(Exprs) /\ (HasUnwrap[<<e>>] <=> e.op = "unwrap" \/ HasUnwrap[e.args])
<1>1. <<e>> \in Seq(Exprs)
  BY OneSeq
<1>2. DOMAIN <<e>> = {1} /\ <<e>>[1] = e
  BY <1>1
<1> DEFINE c == <<e>>
<1> HIDE DEF c
<1>3. HasUnwrap[c] <=> \E i \in DOMAIN c : c[i].op = "unwrap" \/ HasUnwrap[c[i].args]
  BY <1>1, HasUnwrapIs DEF c
<1>4. DOMAIN c = {1} /\ c[1] = e
  BY <1>2 DEF c
<1>5. HasUnwrap[c] <=> e.op = "unwrap" \/ HasUnwrap[e.args]
  BY <1>3, <1>4
<1> QED
  BY <1>1, <1>5 DEF c

\* The assignments that unwrapify makes.
FreeAssigns(u) == u \in Seq(StmtsTo[1]) /\ \A i \in DOMAIN u : u[i].op = "assign" /\ ~HasUnwrap[Written(u[i])]

\* Assignments of unwraps joined.
LEMMA FreeAssignsJoin ==
  /\ FreeAssigns(<<>>)
  /\ \A u, v : FreeAssigns(u) /\ FreeAssigns(v) => FreeAssigns(u \o v)
<1>1. FreeAssigns(<<>>)
  <2>1. <<>> \in Seq(StmtsTo[1]) /\ DOMAIN <<>> = {}
    OBVIOUS
  <2> QED
    BY <2>1 DEF FreeAssigns
<1>2. ASSUME NEW u, NEW v, FreeAssigns(u), FreeAssigns(v) PROVE FreeAssigns(u \o v)
  <2>1. u \in Seq(StmtsTo[1]) /\ v \in Seq(StmtsTo[1])
    BY <1>2 DEF FreeAssigns
  <2> DEFINE c == u \o v
  <2>2. c \in Seq(StmtsTo[1]) /\ Joined(u, v, c)
    BY <2>1, ConcatPositions
  <2> HIDE DEF c
  <2>3. FreeAssigns(c)
    BY <1>2, <2>2 DEF FreeAssigns, Joined
  <2> QED
    BY <2>3 DEF c
<1> QED
  BY <1>1, <1>2

\* What becomes of one expression has no unwrap.
LEMMA ReplacedFree ==
  ASSUME NEW e \in Exprs, NEW ctr \in Nat, NEW subs \in ReplacedList, NoDeeperExprs(e.args, subs.exprs),
         ~HasUnwrap[subs.exprs], FreeAssigns(subs.unwraps)
  PROVE  LET r == Replaced(e, ctr, subs)
         IN  r.expr \in Exprs /\ ~HasUnwrap[<<r.expr>>] /\ FreeAssigns(r.unwraps)
<1> DEFINE new == [e EXCEPT !.args = subs.exprs]
           x == Generated(Advanced(ctr, subs.unwraps))
<1>1. MaxExprDepth \in Nat /\ MaxExprDepth # 0 /\ e \in ExprsTo[MaxExprDepth]
  BY DepthAssumption DEF Exprs
<1>2. new \in Exprs
  BY <1>1, RebuiltExpr DEF Exprs
<1>3. new.op = e.op /\ new.args = subs.exprs
  BY <1>1, ExprsIn
<1>4. CASE e.op # "unwrap"
  <2>1. Replaced(e, ctr, subs) = [expr |-> new, unwraps |-> subs.unwraps]
    BY <1>4 DEF Replaced
  <2> HIDE DEF new
  <2>2. ~HasUnwrap[<<new>>]
    BY <1>2, <1>3, <1>4, HasUnwrapOne
  <2> QED
    BY <1>2, <2>1, <2>2
<1>5. CASE e.op = "unwrap"
  <2>1. Replaced(e, ctr, subs) = [expr |-> Var(x), unwraps |-> Append(subs.unwraps, Assign(x, <<>>, new))]
    BY <1>5 DEF Replaced
  <2>2. x \in Idents
    BY AdvancedType, GeneratedIn DEF ReplacedList
  <2> HIDE DEF new, x
  <2>3. Var(x) \in Exprs
    BY <1>1, <2>2, VarIn DEF Exprs
  <2>4. ~HasUnwrap[<<Var(x)>>]
    <3>1. Var(x).op # "unwrap" /\ Var(x).args = <<>>
      BY DEF Var, Expr
    <3> QED
      BY <2>3, <3>1, HasUnwrapOne, HasUnwrapEmpty
  <2> DEFINE t == Assign(x, <<>>, new)
  <2>5. t \in StmtsTo[1] /\ t.op = "assign" /\ t.args = <<new>> /\ t.idx = <<>>
    BY <1>2, <2>2, AssignIn
  <2>6. Written(t) = <<>> \o subs.exprs
    <3>1. t.args[1] = new
      BY <2>5
    <3> HIDE DEF t
    <3> QED
      BY <1>3, <1>5, <2>5, <3>1 DEF Written
  <2> HIDE DEF t
  <2>7. <<>> \o subs.exprs = subs.exprs
    BY ConcatEmptySeq DEF ReplacedList
  <2>8. FreeAssigns(<<t>>)
    <3>1. <<t>> \in Seq(StmtsTo[1])
      BY <2>5, OneSeq
    <3>2. DOMAIN <<t>> = {1} /\ <<t>>[1] = t
      BY <3>1
    <3>3. t.op = "assign" /\ ~HasUnwrap[Written(t)]
      BY <2>5, <2>6, <2>7
    <3> QED
      BY <3>1, <3>2, <3>3 DEF FreeAssigns
  <2>9. Append(subs.unwraps, t) = subs.unwraps \o <<t>>
    BY <2>5, AppendIsConcat DEF ReplacedList
  <2>10. FreeAssigns(Append(subs.unwraps, t))
    BY <2>8, <2>9, FreeAssignsJoin
  <2> QED
    BY <2>1, <2>3, <2>4, <2>10 DEF t
<1> QED
  BY <1>4, <1>5

\* ReplaceUnwraps leaves no unwrap in the expressions, and in the assignments it
\* makes none but the assigned one.
LEMMA ReplaceUnwrapsFree ==
  \A es \in Seq(Exprs), ctr \in Nat : /\ ~HasUnwrap[ReplaceUnwraps[<<es, ctr>>].exprs]
                                      /\ FreeAssigns(ReplaceUnwraps[<<es, ctr>>].unwraps)
<1> DEFINE Unwrapless(r) == ~HasUnwrap[r.exprs] /\ FreeAssigns(r.unwraps)
           S == {es \in Seq(Exprs) : \A ctr \in Nat : Unwrapless(ReplaceUnwraps[<<es, ctr>>])}
<1>1. ASSUME NEW es \in Seq(Exprs), \A y \in Seq(Exprs) : Below(ExprsRank[y], ExprsRank[es]) => y \in S
      PROVE  es \in S
  <2> SUFFICES ASSUME NEW ctr \in Nat PROVE Unwrapless(ReplaceUnwraps[<<es, ctr>>])
    OBVIOUS
  <2>1. ReplaceUnwraps[<<es, ctr>>] = ReplaceUnwrapsOf(ReplaceUnwraps, <<es, ctr>>)
    BY ReplaceUnwrapsUnfold DEF ReplaceIn
  <2>2. CASE es = <<>>
    <3>1. ReplaceUnwraps[<<es, ctr>>] = [exprs |-> <<>>, unwraps |-> <<>>]
      BY <2>1, <2>2 DEF ReplaceUnwrapsOf
    <3> QED
      BY <3>1, HasUnwrapEmpty, FreeAssignsJoin
  <2>3. CASE es # <<>>
    <3> DEFINE e == Head(es)
               subs == ReplaceUnwraps[<<e.args, ctr>>]
               first == Replaced(e, ctr, subs)
               rest == ReplaceUnwraps[<<Tail(es), Advanced(ctr, first.unwraps)>>]
    <3>1. /\ e \in Exprs /\ e.args \in Seq(Exprs) /\ Below(ExprsRank[e.args], ExprsRank[es])
          /\ Tail(es) \in Seq(Exprs) /\ Below(ExprsRank[Tail(es)], ExprsRank[es])
      BY <2>3, ExprsTail, ExprsParts
    <3>2. subs \in ReplacedList /\ NoDeeperExprs(e.args, subs.exprs)
      BY <3>1, ReplaceUnwrapsUnfold DEF Typed, ReplaceIn, ReplaceOut
    <3>3. Unwrapless(subs)
      BY <1>1, <3>1
    <3>4. first.expr \in Exprs /\ ~HasUnwrap[<<first.expr>>] /\ FreeAssigns(first.unwraps)
      BY <3>1, <3>2, <3>3, ReplacedFree
    <3>5. Advanced(ctr, first.unwraps) \in Nat
      <4> HIDE DEF first
      <4> QED
        BY <3>4, AdvancedType DEF FreeAssigns
    <3>6. Unwrapless(rest) /\ rest.exprs \in Seq(Exprs)
      <4> HIDE DEF first
      <4> QED
        BY <1>1, <3>1, <3>5, ReplaceUnwrapsType
    <3>7. ReplaceUnwraps[<<es, ctr>>] = [exprs |-> <<first.expr>> \o rest.exprs, unwraps |-> first.unwraps \o rest.unwraps]
      BY <2>1, <2>3 DEF ReplaceUnwrapsOf
    <3> HIDE DEF first, rest
    <3>8. ~HasUnwrap[<<first.expr>> \o rest.exprs]
      BY <3>4, <3>6, HasUnwrapOne, HasUnwrapConcat
    <3>9. FreeAssigns(first.unwraps \o rest.unwraps)
      BY <3>4, <3>6, FreeAssignsJoin
    <3> QED
      BY <3>7, <3>8, <3>9
  <2> QED
    BY <2>2, <2>3
<1>2. Seq(Exprs) \subseteq S
  <2> DEFINE T == Seq(Exprs)
  <2> HIDE DEF S
  <2>1. ExprsRank \in [T -> Nat \X Nat]
    BY CodeRankType
  <2>2. \A es \in T : (\A y \in T : Below(ExprsRank[y], ExprsRank[es]) => y \in S) => es \in S
    BY <1>1
  <2> HIDE DEF T
  <2>3. T \subseteq S
    BY <2>1, <2>2, RankInduction
  <2> QED
    BY <2>3 DEF T
<1> QED
  BY <1>2

-----------------------------------------------------------------------------
(* Samplify numbers the sample statements in the order of the text.          *)

\* The one with the number n + j - 1 is the j-th.
From(list, n, v) == \E j \in DOMAIN list : v.id = n + j - 1 /\ v.span = list[j].span

LEMMA FromJoin ==
  ASSUME NEW S, NEW k \in Seq(S), NEW l \in Seq(S), NEW n \in Nat, NEW v
  PROVE  /\ From(k, n, v) => From(k \o l, n, v)
         /\ From(l, n + Len(k), v) => From(k \o l, n, v)
<1>1. /\ Len(k) \in Nat /\ Len(l) \in Nat /\ DOMAIN k = 1 .. Len(k) /\ DOMAIN l = 1 .. Len(l)
      /\ DOMAIN (k \o l) = 1 .. Len(k) + Len(l)
      /\ \A i \in 1 .. Len(k) + Len(l) : (k \o l)[i] = IF i <= Len(k) THEN k[i] ELSE l[i - Len(k)]
  BY ConcatProperties, LenProperties
<1>2. ASSUME NEW j \in DOMAIN k PROVE j \in DOMAIN (k \o l) /\ (k \o l)[j] = k[j]
  <2>1. j \in 1 .. Len(k) + Len(l) /\ j <= Len(k)
    BY <1>1
  <2> QED
    BY <1>1, <2>1
<1>3. ASSUME NEW j \in DOMAIN l
      PROVE  Len(k) + j \in DOMAIN (k \o l) /\ (k \o l)[Len(k) + j] = l[j] /\ n + (Len(k) + j) - 1 = n + Len(k) + j - 1
  <2>1. Len(k) + j \in 1 .. Len(k) + Len(l) /\ ~(Len(k) + j <= Len(k)) /\ (Len(k) + j) - Len(k) = j
    BY <1>1
  <2>2. n + (Len(k) + j) - 1 = n + Len(k) + j - 1
    BY <1>1
  <2> QED
    BY <1>1, <2>1, <2>2
<1> DEFINE c == k \o l
<1>4. \A j \in DOMAIN k : j \in DOMAIN c /\ c[j] = k[j]
  BY <1>2
<1>5. \A j \in DOMAIN l : Len(k) + j \in DOMAIN c /\ c[Len(k) + j] = l[j] /\ n + (Len(k) + j) - 1 = n + Len(k) + j - 1
  BY <1>3
<1> HIDE DEF c
<1>6. From(k, n, v) => From(c, n, v)
  BY <1>4 DEF From
<1>7. From(l, n + Len(k), v) => From(c, n, v)
  BY <1>5 DEF From
<1> QED
  BY <1>6, <1>7 DEF c

Numbered(b, c, r) ==
  /\ r.counters.ctr = c.ctr + Len(SamplesOf[b])
  /\ Len(r.counters.positions) = Len(c.positions) + Len(SamplesOf[b])
  /\ \A v \in Views(r.code) : \E u \in Views(b) : u.op = v.op /\ (InFull(u) => InFull(v))
  /\ \A v \in Views(r.code) : v.op = "sample" => From(SamplesOf[b], c.ctr, v)

\* The parts of a step of samplify.
LEMMA SamplifyStep ==
  ASSUME NEW b \in Code, b # <<>>, NEW c \in Counters
  PROVE  LET s == Head(b)
             then == Samplify[<<s.then, c>>]
             else == Samplify[<<s.else, then.counters>>]
             isSample == s.op = "sample"
             new == IF isSample THEN [s EXCEPT !.id = c.ctr, !.name = SampleName(s, Len(c.positions) + 1)]
                    ELSE [s EXCEPT !.then = then.code, !.else = else.code]
             next == IF isSample THEN Count(c, s) ELSE CountersAfter(c, else.counters)
             rest == Samplify[<<Tail(b), next>>]
         IN  /\ Samplify[<<b, c>>] = [code |-> <<new>> \o rest.code, counters |-> rest.counters]
             /\ next \in Counters /\ then.counters \in Counters /\ else.counters \in Counters
             /\ rest.counters \in Counters /\ rest.code \in Code
             /\ then.code \in Code /\ else.code \in Code
             /\ new \in StmtsTo[MaxCodeDepth] /\ s \in StmtsTo[MaxCodeDepth] /\ MaxCodeDepth \in Nat
<1> DEFINE s == Head(b)
           then == Samplify[<<s.then, c>>]
           else == Samplify[<<s.else, then.counters>>]
           isSample == s.op = "sample"
           new == IF isSample THEN [s EXCEPT !.id = c.ctr, !.name = SampleName(s, Len(c.positions) + 1)]
                  ELSE [s EXCEPT !.then = then.code, !.else = else.code]
           next == IF isSample THEN Count(c, s) ELSE CountersAfter(c, else.counters)
           rest == Samplify[<<Tail(b), next>>]
<1>1. \A d \in Code, k \in Counters : /\ Samplify[<<d, k>>] \in [code : Code, counters : Counters]
                                      /\ NoDeeper(d, Samplify[<<d, k>>].code)
  BY SamplifyUnfold DEF Typed, SamplifyIn, SamplifyOut
<1>2. Samplify[<<b, c>>] = SamplifyOf(Samplify, <<b, c>>)
  BY SamplifyUnfold DEF SamplifyIn
<1>3. Samplify[<<b, c>>] = [code |-> <<new>> \o rest.code, counters |-> rest.counters]
  BY <1>2 DEF SamplifyOf
<1>4. s \in StmtsTo[MaxCodeDepth] /\ s \in AnyStmt /\ MaxCodeDepth \in Nat /\ s.then \in Code /\ s.else \in Code /\ Tail(b) \in Code
  BY HeadParts, DepthAssumption DEF AnyStmt
<1>5. /\ then.counters \in Counters /\ then.code \in Code /\ NoDeeper(s.then, then.code)
      /\ else.counters \in Counters /\ else.code \in Code /\ NoDeeper(s.else, else.code)
  <2>1. then \in [code : Code, counters : Counters] /\ NoDeeper(s.then, then.code)
    BY <1>1, <1>4
  <2>2. then.counters \in Counters
    BY <2>1
  <2>3. else \in [code : Code, counters : Counters] /\ NoDeeper(s.else, else.code)
    BY <1>1, <1>4, <2>2
  <2> HIDE DEF then, else
  <2> QED
    BY <2>1, <2>3
<1>6. next \in Counters
  BY <1>4, <1>5, CountType DEF CountersAfter
<1>7. rest.counters \in Counters /\ rest.code \in Code
  <2> HIDE DEF next
  <2>1. rest \in [code : Code, counters : Counters]
    BY <1>1, <1>4, <1>6
  <2> QED
    BY <2>1
<1>8. new \in StmtsTo[MaxCodeDepth]
  <2>1. c.ctr \in Nat
    BY DEF Counters
  <2>2. [s EXCEPT !.id = c.ctr, !.name = SampleName(s, Len(c.positions) + 1)] \in StmtsTo[MaxCodeDepth]
    BY <1>4, <2>1, CountType, NumberedIn
  <2>3. [s EXCEPT !.then = then.code, !.else = else.code] \in StmtsTo[MaxCodeDepth]
    BY <1>4, <1>5, Rebuilt
  <2> QED
    BY <2>2, <2>3
<1> QED
  BY <1>3, <1>4, <1>5, <1>6, <1>7, <1>8

LEMMA SamplesOfIs ==
  ASSUME NEW b \in Code
  PROVE  /\ SamplesOf[b] \in Seq(AnyStmt) /\ Len(SamplesOf[b]) \in Nat
         /\ b = <<>> => SamplesOf[b] = <<>>
         /\ b # <<>> => SamplesOf[b] = (IF Head(b).op = "sample" THEN <<Head(b)>>
                                        ELSE SamplesOf[Head(b).then] \o SamplesOf[Head(b).else]) \o SamplesOf[Tail(b)]
<1>1. SamplesOf[b] \in Seq(AnyStmt)
  BY SamplesOfUnfold
<1>2. SamplesOf[b] = SamplesOfOf(SamplesOf, b)
  BY SamplesOfUnfold
<1>3. Len(SamplesOf[b]) \in Nat
  BY <1>1, LenProperties
<1> QED
  BY <1>1, <1>2, <1>3 DEF SamplesOfOf

\* The three cases of SamplifyNumbers: an empty block, a sample statement first,
\* and another statement first.
LEMMA NumberedEmpty ==
  ASSUME NEW c \in Counters PROVE Numbered(<<>>, c, Samplify[<<<<>>, c>>])
<1>1. <<>> \in Code /\ Len(<<>>) = 0
  BY SizeEmpty
<1>2. Samplify[<<<<>>, c>>] = SamplifyOf(Samplify, <<<<>>, c>>)
  BY <1>1, SamplifyUnfold DEF SamplifyIn
<1>3. Samplify[<<<<>>, c>>] = [code |-> <<>>, counters |-> c]
  BY <1>2 DEF SamplifyOf
<1>4. Len(SamplesOf[<<>>]) = 0
  BY <1>1, SamplesOfIs
<1>5. c.ctr \in Nat /\ Len(c.positions) \in Nat
  BY LenProperties DEF Counters
<1> QED
  BY <1>3, <1>4, <1>5, ViewsEmpty DEF Numbered

LEMMA NumberedSample ==
  ASSUME NEW b \in Code, b # <<>>, NEW c \in Counters, Head(b).op = "sample",
         \A d \in Counters : Numbered(Tail(b), d, Samplify[<<Tail(b), d>>])
  PROVE  Numbered(b, c, Samplify[<<b, c>>])
<1> DEFINE s == Head(b)
           new == [s EXCEPT !.id = c.ctr, !.name = SampleName(s, Len(c.positions) + 1)]
           next == Count(c, s)
           rest == Samplify[<<Tail(b), next>>]
           l == SamplesOf[Tail(b)]
<1>1. /\ Samplify[<<b, c>>] = [code |-> <<new>> \o rest.code, counters |-> rest.counters]
      /\ next \in Counters /\ rest.code \in Code
      /\ new \in StmtsTo[MaxCodeDepth] /\ s \in StmtsTo[MaxCodeDepth] /\ MaxCodeDepth \in Nat
  BY SamplifyStep
<1>2. /\ next.ctr = c.ctr + 1 /\ Len(next.positions) = Len(c.positions) + 1
      /\ c.ctr \in Nat /\ Len(c.positions) \in Nat
  BY AppendProperties, LenProperties DEF Count, Counters
<1>3. Numbered(Tail(b), next, rest)
  BY <1>1
<1>4. /\ new.op = "sample" /\ new.id = c.ctr /\ new.span = s.span /\ new.then = <<>> /\ new.else = <<>>
  <2>1. HasShape(s) /\ s.op = "sample"
    BY <1>1, StmtsIn
  <2>2. new.op = s.op /\ new.id = c.ctr /\ new.span = s.span /\ new.then = s.then /\ new.else = s.else
    BY <1>1, StmtsIn
  <2> QED
    BY <2>1, <2>2 DEF HasShape
<1>5. Tail(b) \in Code /\ SamplesOf[b] = <<s>> \o l /\ l \in Seq(AnyStmt) /\ Len(l) \in Nat
  BY HeadParts, SamplesOfIs
<1>6. <<s>> \in Seq(AnyStmt) /\ Len(<<s>>) = 1 /\ DOMAIN <<s>> = {1} /\ <<s>>[1] = s
  <2>1. <<s>> \in Seq(AnyStmt)
    BY <1>1, OneSeq DEF AnyStmt
  <2> QED
    BY <2>1
<1> HIDE DEF s, new, next, rest, l
<1>7. Views(<<new>> \o rest.code) = {View(new)} \cup Views(rest.code)
  <2>1. MaxCodeDepth <= MaxCodeDepth
    BY <1>1
  <2>2. <<new>> \in Code /\ Views(<<new>>) = ViewsAt(new)
    BY <1>1, <2>1, ViewsOne
  <2>3. ViewsAt(new) = {View(new)}
    BY <1>4, ViewsEmpty DEF ViewsAt
  <2> QED
    BY <1>1, <2>2, <2>3, ViewsConcat
<1>8. Len(SamplesOf[b]) = 1 + Len(l)
  BY <1>5, <1>6, ConcatProperties
<1>9. From(SamplesOf[b], c.ctr, View(new))
  <2>1. View(new).id = c.ctr + 1 - 1 /\ View(new).span = s.span
    BY <1>2, <1>4 DEF View
  <2>2. From(<<s>>, c.ctr, View(new))
    BY <1>6, <2>1 DEF From
  <2> QED
    BY <1>2, <1>5, <1>6, <2>2, FromJoin
<1>10. ASSUME NEW v \in Views(rest.code), v.op = "sample" PROVE From(SamplesOf[b], c.ctr, v)
  <2>1. From(l, c.ctr + 1, v)
    BY <1>2, <1>3, <1>10 DEF Numbered, l
  <2>2. From(l, c.ctr + Len(<<s>>), v)
    BY <1>6, <2>1
  <2> QED
    BY <1>2, <1>5, <1>6, <2>2, FromJoin
<1>11. \A v \in {View(new)} \cup Views(rest.code) : \E u \in Views(b) : u.op = v.op /\ (InFull(u) => InFull(v))
  <2>1. View(s) \in Views(b) /\ Views(Tail(b)) \subseteq Views(b)
    BY ViewsHead DEF ViewsAt, s
  <2>2. View(new).op = View(s).op /\ InFull(View(new))
    BY <1>4 DEF View, s, InFull
  <2> QED
    BY <1>3, <2>1, <2>2 DEF Numbered
<1>12. rest.counters.ctr = c.ctr + Len(SamplesOf[b]) /\ Len(rest.counters.positions) = Len(c.positions) + Len(SamplesOf[b])
  <2>1. rest.counters.ctr = next.ctr + Len(l) /\ Len(rest.counters.positions) = Len(next.positions) + Len(l)
    BY <1>3 DEF Numbered, l
  <2>2. \A i, j \in Nat : (i + 1) + j = i + (1 + j)
    OBVIOUS
  <2> QED
    BY <1>2, <1>5, <1>8, <2>1, <2>2
<1>13. \A v \in Views(<<new>> \o rest.code) : v.op = "sample" => From(SamplesOf[b], c.ctr, v)
  BY <1>7, <1>9, <1>10
<1> DEFINE out == Samplify[<<b, c>>]
<1>14. out.code = <<new>> \o rest.code /\ out.counters = rest.counters
  BY <1>1
<1> HIDE DEF out
<1>15. Numbered(b, c, out)
  BY <1>7, <1>11, <1>12, <1>13, <1>14 DEF Numbered
<1> QED
  BY <1>15 DEF out

LEMMA NumberedOther ==
  ASSUME NEW b \in Code, b # <<>>, NEW c \in Counters, Head(b).op # "sample",
         \A d \in Counters : Numbered(Head(b).then, d, Samplify[<<Head(b).then, d>>]),
         \A d \in Counters : Numbered(Head(b).else, d, Samplify[<<Head(b).else, d>>]),
         \A d \in Counters : Numbered(Tail(b), d, Samplify[<<Tail(b), d>>])
  PROVE  Numbered(b, c, Samplify[<<b, c>>])
<1> DEFINE s == Head(b)
           then == Samplify[<<s.then, c>>]
           else == Samplify[<<s.else, then.counters>>]
           new == [s EXCEPT !.then = then.code, !.else = else.code]
           next == else.counters
           rest == Samplify[<<Tail(b), next>>]
           k1 == SamplesOf[s.then]
           k2 == SamplesOf[s.else]
           l == SamplesOf[Tail(b)]
<1>1. /\ Samplify[<<b, c>>] = [code |-> <<new>> \o rest.code, counters |-> rest.counters]
      /\ then.counters \in Counters /\ next \in Counters /\ rest.code \in Code
      /\ then.code \in Code /\ else.code \in Code
      /\ new \in StmtsTo[MaxCodeDepth] /\ s \in StmtsTo[MaxCodeDepth] /\ MaxCodeDepth \in Nat
  BY SamplifyStep DEF CountersAfter
<1>2. c.ctr \in Nat /\ Len(c.positions) \in Nat
  BY LenProperties DEF Counters
<1>3. Numbered(s.then, c, then) /\ Numbered(s.else, then.counters, else) /\ Numbered(Tail(b), next, rest)
  BY <1>1
<1>4. new.op = s.op /\ new.then = then.code /\ new.else = else.code /\ new.args = s.args /\ new.name = s.name
  BY <1>1, StmtsIn
<1>5. /\ SamplesOf[b] = (k1 \o k2) \o l
      /\ k1 \in Seq(AnyStmt) /\ k2 \in Seq(AnyStmt) /\ l \in Seq(AnyStmt)
      /\ Len(k1) \in Nat /\ Len(k2) \in Nat /\ Len(l) \in Nat
  BY HeadParts, SamplesOfIs
<1> HIDE DEF s, new, next, rest, then, else, l, k1, k2
<1>6. k1 \o k2 \in Seq(AnyStmt) /\ Len(k1 \o k2) = Len(k1) + Len(k2) /\ Len(SamplesOf[b]) = Len(k1) + Len(k2) + Len(l)
  BY <1>5, ConcatProperties
<1>7. Views(<<new>> \o rest.code) = {View(new)} \cup Views(then.code) \cup Views(else.code) \cup Views(rest.code)
  <2>1. MaxCodeDepth <= MaxCodeDepth
    BY <1>1
  <2>2. <<new>> \in Code /\ Views(<<new>>) = ViewsAt(new)
    BY <1>1, <2>1, ViewsOne
  <2>3. ViewsAt(new) = {View(new)} \cup Views(then.code) \cup Views(else.code)
    BY <1>4 DEF ViewsAt
  <2> QED
    BY <1>1, <2>2, <2>3, ViewsConcat
<1>8. /\ then.counters.ctr = c.ctr + Len(k1) /\ Len(then.counters.positions) = Len(c.positions) + Len(k1)
      /\ next.ctr = c.ctr + Len(k1) + Len(k2) /\ Len(next.positions) = Len(c.positions) + Len(k1) + Len(k2)
      /\ rest.counters.ctr = c.ctr + Len(k1) + Len(k2) + Len(l)
      /\ Len(rest.counters.positions) = Len(c.positions) + Len(k1) + Len(k2) + Len(l)
  <2>1. then.counters.ctr = c.ctr + Len(k1) /\ Len(then.counters.positions) = Len(c.positions) + Len(k1)
    BY <1>3 DEF Numbered, k1
  <2>2. next.ctr = then.counters.ctr + Len(k2) /\ Len(next.positions) = Len(then.counters.positions) + Len(k2)
    BY <1>3 DEF Numbered, k2, next
  <2>3. rest.counters.ctr = next.ctr + Len(l) /\ Len(rest.counters.positions) = Len(next.positions) + Len(l)
    BY <1>3 DEF Numbered, l
  <2> QED
    BY <2>1, <2>2, <2>3
<1>9. \A i, j, m, n \in Nat : i + j + m + n = i + (j + m + n)
  OBVIOUS
<1>10. rest.counters.ctr = c.ctr + Len(SamplesOf[b]) /\ Len(rest.counters.positions) = Len(c.positions) + Len(SamplesOf[b])
  <2>1. c.ctr + Len(k1) + Len(k2) + Len(l) = c.ctr + (Len(k1) + Len(k2) + Len(l))
    BY <1>2, <1>5, <1>9
  <2> DEFINE p == Len(c.positions)
  <2>3. p \in Nat
    BY <1>2
  <2> HIDE DEF p
  <2>4. p + Len(k1) + Len(k2) + Len(l) = p + (Len(k1) + Len(k2) + Len(l))
    BY <1>5, <1>9, <2>3
  <2>2. Len(c.positions) + Len(k1) + Len(k2) + Len(l) = Len(c.positions) + (Len(k1) + Len(k2) + Len(l))
    BY <2>4 DEF p
  <2> QED
    BY <1>6, <1>8, <2>1, <2>2
<1>11. ASSUME NEW v \in Views(then.code), v.op = "sample" PROVE From(SamplesOf[b], c.ctr, v)
  <2>1. From(k1, c.ctr, v)
    BY <1>3, <1>11 DEF Numbered, k1
  <2>2. From(k1 \o k2, c.ctr, v)
    BY <1>2, <1>5, <2>1, FromJoin
  <2> QED
    BY <1>2, <1>5, <1>6, <2>2, FromJoin
<1>12. ASSUME NEW v \in Views(else.code), v.op = "sample" PROVE From(SamplesOf[b], c.ctr, v)
  <2>1. From(k2, c.ctr + Len(k1), v)
    BY <1>3, <1>8, <1>12 DEF Numbered, k2
  <2>2. From(k1 \o k2, c.ctr, v)
    BY <1>2, <1>5, <2>1, FromJoin
  <2> QED
    BY <1>2, <1>5, <1>6, <2>2, FromJoin
<1>13. ASSUME NEW v \in Views(rest.code), v.op = "sample" PROVE From(SamplesOf[b], c.ctr, v)
  <2>1. From(l, c.ctr + Len(k1) + Len(k2), v)
    BY <1>3, <1>8, <1>13 DEF Numbered, l
  <2>2. c.ctr + Len(k1) + Len(k2) = c.ctr + Len(k1 \o k2)
    BY <1>2, <1>5, <1>6
  <2>3. From(l, c.ctr + Len(k1 \o k2), v)
    BY <2>1, <2>2
  <2> QED
    BY <1>2, <1>5, <1>6, <2>3, FromJoin
<1>14. /\ View(s) \in Views(b) /\ Views(s.then) \subseteq Views(b) /\ Views(s.else) \subseteq Views(b)
       /\ Views(Tail(b)) \subseteq Views(b)
  BY ViewsHead DEF ViewsAt, s
<1>15. View(new).op = View(s).op /\ View(new).op # "sample" /\ (InFull(View(s)) <=> InFull(View(new)))
  BY <1>4, InFullView DEF View, InFull, s
<1>16. \A v \in Views(<<new>> \o rest.code) : v.op = "sample" => From(SamplesOf[b], c.ctr, v)
  BY <1>7, <1>11, <1>12, <1>13, <1>15
<1>17. \A v \in Views(<<new>> \o rest.code) : \E u \in Views(b) : u.op = v.op /\ (InFull(u) => InFull(v))
  <2>1. /\ \A v \in Views(then.code) : \E u \in Views(s.then) : u.op = v.op /\ (InFull(u) => InFull(v))
        /\ \A v \in Views(else.code) : \E u \in Views(s.else) : u.op = v.op /\ (InFull(u) => InFull(v))
        /\ \A v \in Views(rest.code) : \E u \in Views(Tail(b)) : u.op = v.op /\ (InFull(u) => InFull(v))
    BY <1>3 DEF Numbered
  <2> QED
    BY <1>7, <1>14, <1>15, <2>1
<1> DEFINE out == Samplify[<<b, c>>]
<1>18. out.code = <<new>> \o rest.code /\ out.counters = rest.counters
  BY <1>1
<1> HIDE DEF out
<1>19. Numbered(b, c, out)
  BY <1>10, <1>16, <1>17, <1>18 DEF Numbered
<1> QED
  BY <1>19 DEF out

\* Every sample statement gets its place in the text as its number.
LEMMA SamplifyNumbers == \A b \in Code, c \in Counters : Numbered(b, c, Samplify[<<b, c>>])
<1> DEFINE S == {b \in Code : \A c \in Counters : Numbered(b, c, Samplify[<<b, c>>])}
<1>1. <<>> \in S
  BY SizeEmpty, NumberedEmpty
<1>2. ASSUME NEW b \in Code, b # <<>>, Head(b).then \in S, Head(b).else \in S, Tail(b) \in S PROVE b \in S
  BY <1>2, NumberedSample, NumberedOther
<1>3. Code \subseteq S
  <2> HIDE DEF S
  <2> QED
    BY <1>1, <1>2, CodeInduction
<1> QED
  BY <1>3

-----------------------------------------------------------------------------
(* No unwrap is left inside a statement after unwrapify.                     *)

\* What is written of a statement is in its view.
LEMMA WrittenView == \A t : Written(View(t)) = Written(t)
BY DEF Written, View, ExprsOf

LEMMA FreeAssignsViews ==
  ASSUME NEW u, FreeAssigns(u)
  PROVE  u \in Code /\ \A v \in Views(u) : v.op = "assign" /\ ~HasUnwrap[Written(v)]
<1>1. MaxCodeDepth \in Nat /\ 1 <= MaxCodeDepth /\ 1 \in Nat
  BY DepthAssumption
<1>2. u \in Seq(StmtsTo[1])
  BY DEF FreeAssigns
<1>3. u \in Code
  BY <1>1, <1>2, TreesGrow DEF Code
<1>4. ASSUME NEW i \in DOMAIN u PROVE ViewsAt(u[i]) = {View(u[i])}
  <2>1. u[i].op = "assign" /\ u[i] \in StmtsTo[1]
    BY <1>1, <1>2, BlockParts DEF FreeAssigns
  <2>2. HasShape(u[i])
    BY <1>1, <2>1, StmtsIn
  <2>3. u[i].then = <<>> /\ u[i].else = <<>>
    BY <2>1, <2>2 DEF HasShape
  <2> QED
    BY <2>3, ViewsEmpty DEF ViewsAt
<1>5. \A v \in Views(u) : \E i \in DOMAIN u : v = View(u[i])
  BY <1>3, <1>4, ViewsIndex
<1>6. \A i \in DOMAIN u : View(u[i]).op = "assign" /\ ~HasUnwrap[Written(View(u[i]))]
  <2>1. \A i \in DOMAIN u : View(u[i]).op = "assign"
    BY DEF FreeAssigns, View
  <2> QED
    BY <2>1, WrittenView DEF FreeAssigns
<1> QED
  BY <1>3, <1>5, <1>6

\* The statement v comes from u.
Stems(u, v) == u.op = v.op /\ u.id = v.id /\ u.span = v.span /\ (InFull(u) => InFull(v))
UnwrapFree(b, c) ==
  \A v \in Views(c) : /\ ~HasUnwrap[Written(v)]
                      /\ v.op = "assign" \/ \E u \in Views(b) : Stems(u, v)

\* The statement itself.
LEMMA UnwrappingFree ==
  ASSUME NEW n \in Nat, NEW s \in StmtsTo[n], NEW es \in Seq(Exprs), Len(es) = Len(ExprsOf(s)), ~HasUnwrap[es],
         NEW x, NEW y, NoDeeper(s.then, x), NoDeeper(s.else, y)
  PROVE  ~HasUnwrap[Written(Unwrapping(s, es, x, y))]
<1> DEFINE t == Unwrapping(s, es, x, y)
<1>1. ExprsOf(t) = es /\ Len(t.args) = Len(s.args) /\ t.op = s.op /\ t \in StmtsTo[n]
  BY UnwrappingIn
<1> HIDE DEF t
<1>2. ASSUME ~(t.op = "assign" /\ t.args[1].op = "unwrap") PROVE ~HasUnwrap[Written(t)]
  BY <1>1, <1>2 DEF Written
<1>3. ASSUME t.op = "assign", t.args[1].op = "unwrap" PROVE FALSE
  <2>1. HasShape(t) /\ t.idx \in Seq(Exprs) /\ t.args \in Seq(Exprs)
    BY <1>1, StmtsIn
  <2>2. Len(t.args) = 1
    BY <1>3, <2>1 DEF HasShape
  <2>3. 1 \in DOMAIN t.args
    BY <2>1, <2>2
  <2>4. HasUnwrap[t.args]
    BY <1>3, <2>1, <2>3, HasUnwrapIs
  <2>5. HasUnwrap[t.idx \o t.args]
    BY <2>1, <2>4, HasUnwrapConcat
  <2> QED
    BY <1>1, <2>5 DEF ExprsOf
<1>4. ~HasUnwrap[Written(t)]
  BY <1>2, <1>3
<1> QED
  BY <1>4 DEF t

\* One step of Unwrapify.
LEMMA UnwrapifyStep ==
  ASSUME NEW b \in Code, b # <<>>, NEW ctr \in Nat
  PROVE  LET s == Head(b)
             r == ReplaceUnwraps[<<ExprsOf(s), ctr>>]
             then == Unwrapify[<<s.then, Advanced(ctr, r.unwraps)>>]
             else == Unwrapify[<<s.else, then.ctr>>]
             rest == Unwrapify[<<Tail(b), else.ctr>>]
         IN  /\ Unwrapify[<<b, ctr>>].code = r.unwraps \o <<Unwrapping(s, r.exprs, then.code, else.code)>> \o rest.code
             /\ ExprsOf(s) \in Seq(Exprs) /\ Advanced(ctr, r.unwraps) \in Nat /\ then.ctr \in Nat /\ else.ctr \in Nat
             /\ NoDeeper(s.then, then.code) /\ NoDeeper(s.else, else.code)
             /\ rest.code \in Code
             /\ s \in StmtsTo[MaxCodeDepth] /\ MaxCodeDepth \in Nat
<1>1. Unwrapify \in Typed(UnwrapifyIn, UnwrapifyOut)
  BY UnwrapifyUnfold
<1>2. Unwrapify[<<b, ctr>>] = UnwrapifyOf(Unwrapify, <<b, ctr>>)
  BY UnwrapifyUnfold DEF UnwrapifyIn
<1> DEFINE s == Head(b)
           r == ReplaceUnwraps[<<ExprsOf(s), ctr>>]
           then == Unwrapify[<<s.then, Advanced(ctr, r.unwraps)>>]
           else == Unwrapify[<<s.else, then.ctr>>]
           rest == Unwrapify[<<Tail(b), else.ctr>>]
           out == r.unwraps \o <<Unwrapping(s, r.exprs, then.code, else.code)>> \o rest.code
<1>3. Unwrapify[<<b, ctr>>] = [code |-> out, ctr |-> rest.ctr]
  BY <1>2 DEF UnwrapifyOf
<1>4. s \in StmtsTo[MaxCodeDepth] /\ MaxCodeDepth \in Nat
  BY HeadParts, DepthAssumption DEF AnyStmt
<1>5. /\ ExprsOf(s) \in Seq(Exprs)
      /\ then \in Unwrapped /\ NoDeeper(s.then, then.code)
      /\ else \in Unwrapped /\ NoDeeper(s.else, else.code)
      /\ rest \in Unwrapped
  BY <1>1, UnwrapifyCalls
<1>6. Advanced(ctr, r.unwraps) \in Nat
  BY <1>5, ReplaceUnwrapsType
<1> HIDE DEF s, r, then, else, rest, out
<1>7. Unwrapify[<<b, ctr>>].code = out
  BY <1>3
<1>8. then.ctr \in Nat /\ else.ctr \in Nat /\ rest.code \in Code
  BY <1>5 DEF Unwrapped
<1> QED
  BY <1>4, <1>5, <1>6, <1>7, <1>8 DEF s, r, then, else, rest, out

LEMMA UnwrapFreeStep ==
  ASSUME NEW b \in Code, b # <<>>, NEW ctr \in Nat,
         \A k \in Nat : UnwrapFree(Head(b).then, Unwrapify[<<Head(b).then, k>>].code),
         \A k \in Nat : UnwrapFree(Head(b).else, Unwrapify[<<Head(b).else, k>>].code),
         \A k \in Nat : UnwrapFree(Tail(b), Unwrapify[<<Tail(b), k>>].code)
  PROVE  UnwrapFree(b, Unwrapify[<<b, ctr>>].code)
<1> DEFINE s == Head(b)
           r == ReplaceUnwraps[<<ExprsOf(s), ctr>>]
           then == Unwrapify[<<s.then, Advanced(ctr, r.unwraps)>>]
           else == Unwrapify[<<s.else, then.ctr>>]
           rest == Unwrapify[<<Tail(b), else.ctr>>]
           new == Unwrapping(s, r.exprs, then.code, else.code)
<1>1. /\ Unwrapify[<<b, ctr>>].code = r.unwraps \o <<new>> \o rest.code
      /\ ExprsOf(s) \in Seq(Exprs) /\ Advanced(ctr, r.unwraps) \in Nat /\ then.ctr \in Nat /\ else.ctr \in Nat
      /\ NoDeeper(s.then, then.code) /\ NoDeeper(s.else, else.code)
      /\ rest.code \in Code
      /\ s \in StmtsTo[MaxCodeDepth] /\ MaxCodeDepth \in Nat
  BY UnwrapifyStep
<1>2. /\ r.exprs \in Seq(Exprs) /\ Len(r.exprs) = Len(ExprsOf(s)) /\ ~HasUnwrap[r.exprs]
      /\ FreeAssigns(r.unwraps)
  BY <1>1, ReplaceUnwrapsType, ReplaceUnwrapsFree
<1>3. /\ UnwrapFree(s.then, then.code) /\ UnwrapFree(s.else, else.code) /\ UnwrapFree(Tail(b), rest.code)
  BY <1>1
<1> HIDE DEF s, r, then, else, rest
<1>4. /\ new \in StmtsTo[MaxCodeDepth] /\ ~HasUnwrap[Written(new)]
      /\ new.op = s.op /\ new.id = s.id /\ new.span = s.span /\ new.then = then.code /\ new.else = else.code
      /\ new.name = s.name /\ Len(new.args) = Len(s.args)
  BY <1>1, <1>2, UnwrappingIn, UnwrappingFree
<1> HIDE DEF new
<1>5. r.unwraps \in Code /\ \A v \in Views(r.unwraps) : v.op = "assign" /\ ~HasUnwrap[Written(v)]
  BY <1>2, FreeAssignsViews
<1>6. <<new>> \in Code /\ Views(<<new>>) = {View(new)} \cup Views(then.code) \cup Views(else.code)
  <2>1. MaxCodeDepth <= MaxCodeDepth
    BY <1>1
  <2>2. <<new>> \in Code /\ Views(<<new>>) = ViewsAt(new)
    BY <1>1, <1>4, <2>1, ViewsOne
  <2> QED
    BY <1>4, <2>2 DEF ViewsAt
<1>7. Views(r.unwraps \o <<new>> \o rest.code)
        = Views(r.unwraps) \cup {View(new)} \cup Views(then.code) \cup Views(else.code) \cup Views(rest.code)
  <2>1. r.unwraps \o <<new>> \in Code /\ Views(r.unwraps \o <<new>>) = Views(r.unwraps) \cup Views(<<new>>)
    BY <1>5, <1>6, ViewsConcat
  <2> QED
    BY <1>1, <1>6, <2>1, ViewsConcat
<1>8. ~HasUnwrap[Written(View(new))]
  BY <1>4, WrittenView
<1>9. /\ View(s) \in Views(b) /\ Views(s.then) \subseteq Views(b) /\ Views(s.else) \subseteq Views(b)
      /\ Views(Tail(b)) \subseteq Views(b)
  BY ViewsHead DEF ViewsAt, s
<1>10. Stems(View(s), View(new))
  <2>1. InFull(View(s)) <=> InFull(View(new))
    BY <1>4, InFullView, SameCallInFull DEF SameCall
  <2> QED
    BY <1>4, <2>1 DEF View, Stems
<1> DEFINE c == r.unwraps \o <<new>> \o rest.code
<1>11. Unwrapify[<<b, ctr>>].code = c
  BY <1>1
<1>12. Views(c) = Views(r.unwraps) \cup {View(new)} \cup Views(then.code) \cup Views(else.code) \cup Views(rest.code)
  BY <1>7
<1> HIDE DEF c
<1>13. ASSUME NEW v \in Views(c)
       PROVE  ~HasUnwrap[Written(v)] /\ (v.op = "assign" \/ \E u \in Views(b) : Stems(u, v))
  <2>1. CASE v \in Views(r.unwraps)
    BY <1>5, <2>1
  <2>2. CASE v = View(new)
    BY <1>8, <1>9, <1>10, <2>2
  <2>3. CASE v \in Views(then.code)
    BY <1>3, <1>9, <2>3 DEF UnwrapFree
  <2>4. CASE v \in Views(else.code)
    BY <1>3, <1>9, <2>4 DEF UnwrapFree
  <2>5. CASE v \in Views(rest.code)
    BY <1>3, <1>9, <2>5 DEF UnwrapFree
  <2> QED
    BY <1>12, <2>1, <2>2, <2>3, <2>4, <2>5
<1> QED
  BY <1>11, <1>13 DEF UnwrapFree

\* After unwrapify only assigned unwraps are left, and the sample statements are
\* those of before.
LEMMA UnwrapifyFrees == \A b \in Code, ctr \in Nat : UnwrapFree(b, Unwrapify[<<b, ctr>>].code)
<1> DEFINE S == {b \in Code : \A ctr \in Nat : UnwrapFree(b, Unwrapify[<<b, ctr>>].code)}
<1>1. <<>> \in S
  <2>1. ASSUME NEW ctr \in Nat PROVE Unwrapify[<<<<>>, ctr>>].code = <<>>
    <3>1. Unwrapify[<<<<>>, ctr>>] = UnwrapifyOf(Unwrapify, <<<<>>, ctr>>)
      BY UnwrapifyUnfold, SizeEmpty DEF UnwrapifyIn
    <3> QED
      BY <3>1 DEF UnwrapifyOf
  <2> QED
    BY <2>1, ViewsEmpty, SizeEmpty DEF UnwrapFree
<1>2. ASSUME NEW b \in Code, b # <<>>, Head(b).then \in S, Head(b).else \in S, Tail(b) \in S PROVE b \in S
  BY <1>2, UnwrapFreeStep
<1>3. Code \subseteq S
  <2> HIDE DEF S
  <2> QED
    BY <1>1, <1>2, CodeInduction
<1> QED
  BY <1>3

-----------------------------------------------------------------------------
(* After resolveoracles every invocation has its target.                     *)

SameBut(u, v) ==
  u.op = v.op /\ u.idx = v.idx /\ u.args = v.args /\ u.id = v.id /\ u.span = v.span /\ u.name = v.name

\* A block without loops whose invocations have their arguments.
Fits(b) == \A v \in Views(b) : v.op # "for" /\ InFull(v)

Aimed(b, r) ==
  /\ \A v \in Views(r.code) : \E u \in Views(b) : SameBut(u, v)
  /\ r.ok /\ Fits(b) => \A v \in Views(r.code) : v.op = "invoke" => v.target # ""

\* What Resolve does to each statement.
LEMMA ResolveIs ==
  ASSUME NEW b \in Code
  PROVE  /\ Resolve[b].code \in Code /\ DOMAIN Resolve[b].code = DOMAIN b
         /\ \A i \in DOMAIN b :
              /\ Resolve[b].ok => /\ b[i].op = "invoke" => b[i].name \in DOMAIN Wires
                                  /\ b[i].op = "ite" => Resolve[b[i].then].ok /\ Resolve[b[i].else].ok
              /\ \/ /\ b[i].op = "invoke" /\ b[i].name \in DOMAIN Wires
                    /\ Resolve[b].code[i] = [b[i] EXCEPT !.target = Wires[b[i].name]]
                 \/ /\ b[i].op = "ite"
                    /\ Resolve[b].code[i] = [b[i] EXCEPT !.then = Resolve[b[i].then].code, !.else = Resolve[b[i].else].code]
                 \/ /\ ~(b[i].op = "invoke" /\ b[i].name \in DOMAIN Wires) /\ b[i].op # "ite"
                    /\ Resolve[b].code[i] = b[i]
<1>1. Resolve[b] = ResolveOf(Resolve, b)
  BY ResolveUnfold
<1>2. Resolve[b].code \in Code
  BY ResolveUnfold DEF Typed, ResolveOut
<1> DEFINE new == [i \in DOMAIN b |->
              LET s == b[i]
              IN  IF s.op = "invoke" /\ s.name \in DOMAIN Wires THEN [s EXCEPT !.target = Wires[s.name]]
                  ELSE IF s.op = "ite" THEN [s EXCEPT !.then = Resolve[@].code, !.else = Resolve[@].code]
                  ELSE s]
           ok == \A s \in Range(b) :
                   /\ s.op = "invoke" => s.name \in DOMAIN Wires
                   /\ s.op = "ite" => Resolve[s.then].ok /\ Resolve[s.else].ok
<1>9. Resolve[b] = [ok |-> ok, code |-> new]
  BY <1>1 DEF ResolveOf
<1>3. ASSUME NEW i \in DOMAIN b, ok
      PROVE  /\ b[i].op = "invoke" => b[i].name \in DOMAIN Wires
             /\ b[i].op = "ite" => Resolve[b[i].then].ok /\ Resolve[b[i].else].ok
  <2>1. b[i] \in Range(b)
    BY DEF Range
  <2> QED
    BY <1>3, <2>1
<1>8. DOMAIN new = DOMAIN b
  OBVIOUS
<1>5. ASSUME NEW i \in DOMAIN b
      PROVE  [b[i] EXCEPT !.then = Resolve[@].code, !.else = Resolve[@].code]
               = [b[i] EXCEPT !.then = Resolve[b[i].then].code, !.else = Resolve[b[i].else].code]
  BY CodeParts, DepthAssumption, StmtsIn
<1>6. ASSUME NEW i \in DOMAIN b
      PROVE  \/ /\ b[i].op = "invoke" /\ b[i].name \in DOMAIN Wires
                /\ new[i] = [b[i] EXCEPT !.target = Wires[b[i].name]]
             \/ /\ b[i].op = "ite"
                /\ new[i] = [b[i] EXCEPT !.then = Resolve[b[i].then].code, !.else = Resolve[b[i].else].code]
             \/ /\ ~(b[i].op = "invoke" /\ b[i].name \in DOMAIN Wires) /\ b[i].op # "ite"
                /\ new[i] = b[i]
  BY <1>5
<1> HIDE DEF new, ok
<1>7. Resolve[b].ok = ok /\ Resolve[b].code = new
  BY <1>9
<1> QED
  BY <1>2, <1>3, <1>6, <1>7, <1>8

LEMMA ResolveStep ==
  ASSUME NEW b \in Code, NEW i \in DOMAIN b, Aimed(b[i].then, Resolve[b[i].then]), Aimed(b[i].else, Resolve[b[i].else])
  PROVE  /\ \A v \in ViewsAt(Resolve[b].code[i]) : \E u \in ViewsAt(b[i]) : SameBut(u, v)
         /\ Resolve[b].ok /\ Fits(b) => \A v \in ViewsAt(Resolve[b].code[i]) : v.op = "invoke" => v.target # ""
<1> DEFINE s == b[i]
           t == Resolve[b].code[i]
<1>1. s \in StmtsTo[MaxCodeDepth] /\ MaxCodeDepth \in Nat /\ HasShape(s)
  BY CodeParts, DepthAssumption, StmtsIn
<1>2. s.op \notin {"ite", "for"} => s.then = <<>> /\ s.else = <<>>
  BY <1>1 DEF HasShape
<1>3. View(s) \in ViewsAt(s) /\ Views(s.then) \subseteq ViewsAt(s) /\ Views(s.else) \subseteq ViewsAt(s) /\ ViewsAt(s) \subseteq Views(b)
  BY ViewsIndex DEF ViewsAt
<1>4. Resolve[b].ok => /\ s.op = "invoke" => s.name \in DOMAIN Wires
                       /\ s.op = "ite" => Resolve[s.then].ok /\ Resolve[s.else].ok
  BY ResolveIs
<1>5. Fits(b) => s.op # "for" /\ Fits(s.then) /\ Fits(s.else)
  <2>1. View(s).op = s.op
    BY DEF View
  <2> QED
    BY <1>3, <2>1 DEF Fits
<1>6. \/ s.op = "invoke" /\ s.name \in DOMAIN Wires /\ t = [s EXCEPT !.target = Wires[s.name]]
      \/ s.op = "ite" /\ t = [s EXCEPT !.then = Resolve[s.then].code, !.else = Resolve[s.else].code]
      \/ ~(s.op = "invoke" /\ s.name \in DOMAIN Wires) /\ s.op # "ite" /\ t = s
  BY ResolveIs
<1> HIDE DEF s, t
<1> DEFINE Goal == /\ \A v \in ViewsAt(t) : \E u \in ViewsAt(s) : SameBut(u, v)
                   /\ Resolve[b].ok /\ Fits(b) => \A v \in ViewsAt(t) : v.op = "invoke" => v.target # ""
<1>7. ASSUME s.op = "invoke", s.name \in DOMAIN Wires, t = [s EXCEPT !.target = Wires[s.name]] PROVE Goal
  <2>1. /\ t.op = s.op /\ t.idx = s.idx /\ t.args = s.args /\ t.id = s.id /\ t.span = s.span
        /\ t.then = s.then /\ t.else = s.else /\ t.target = Wires[s.name] /\ t.name = s.name
    BY <1>1, <1>7, StmtsIn
  <2>2. t.target # ""
    BY <1>7, <2>1, TextAssumption, NameAssumption
  <2>3. SameBut(View(s), View(t)) /\ View(t).target = t.target
    BY <2>1 DEF SameBut, View
  <2>4. ViewsAt(t) = {View(t)}
    BY <1>2, <1>7, <2>1, ViewsEmpty DEF ViewsAt
  <2> QED
    BY <1>3, <2>2, <2>3, <2>4
<1>8. ASSUME s.op = "ite", t = [s EXCEPT !.then = Resolve[s.then].code, !.else = Resolve[s.else].code] PROVE Goal
  <2>1. /\ t.op = s.op /\ t.idx = s.idx /\ t.args = s.args /\ t.id = s.id /\ t.span = s.span
        /\ t.then = Resolve[s.then].code /\ t.else = Resolve[s.else].code
    BY <1>1, <1>8, StmtsIn
  <2>2. SameBut(View(s), View(t)) /\ View(t).op # "invoke"
    BY <1>8, <2>1 DEF SameBut, View
  <2>3. ViewsAt(t) = {View(t)} \cup Views(Resolve[s.then].code) \cup Views(Resolve[s.else].code)
    BY <2>1 DEF ViewsAt
  <2>4. /\ \A v \in Views(Resolve[s.then].code) : \E u \in Views(s.then) : SameBut(u, v)
        /\ \A v \in Views(Resolve[s.else].code) : \E u \in Views(s.else) : SameBut(u, v)
    BY DEF Aimed, s
  <2>5. ASSUME Resolve[b].ok, Fits(b)
        PROVE  /\ \A v \in Views(Resolve[s.then].code) : v.op = "invoke" => v.target # ""
               /\ \A v \in Views(Resolve[s.else].code) : v.op = "invoke" => v.target # ""
    <3>1. Aimed(s.then, Resolve[s.then]) /\ Aimed(s.else, Resolve[s.else])
      BY DEF s
    <3> QED
      BY <1>4, <1>5, <1>8, <2>5, <3>1 DEF Aimed
  <2> QED
    BY <1>3, <2>2, <2>3, <2>4, <2>5
<1>9. ASSUME ~(s.op = "invoke" /\ s.name \in DOMAIN Wires), s.op # "ite", t = s PROVE Goal
  <2>1. \A v \in ViewsAt(t) : \E u \in ViewsAt(s) : SameBut(u, v)
    BY <1>9 DEF SameBut
  <2>2. ASSUME Resolve[b].ok, Fits(b) PROVE \A v \in ViewsAt(t) : v.op # "invoke"
    <3>1. s.op # "invoke" /\ s.then = <<>> /\ s.else = <<>>
      BY <1>2, <1>4, <1>5, <1>9, <2>2
    <3>2. ViewsAt(t) = {View(s)} /\ View(s).op = s.op
      BY <1>9, <3>1, ViewsEmpty DEF ViewsAt, View
    <3> QED
      BY <3>1, <3>2
  <2> QED
    BY <2>1, <2>2
<1>10. Goal
  BY <1>6, <1>7, <1>8, <1>9
<1> QED
  BY <1>10 DEF s, t

\* Resolve changes nothing but targets, and if it succeeds leaves no invocation
\* without one.
LEMMA ResolveAims == \A b \in Code : Aimed(b, Resolve[b])
<1> DEFINE S == {b \in Code : Aimed(b, Resolve[b])}
<1>1. ASSUME NEW b \in Code, \A i \in DOMAIN b : b[i].then \in S /\ b[i].else \in S PROVE b \in S
  <2> DEFINE c == Resolve[b].code
  <2>1. c \in Code /\ DOMAIN c = DOMAIN b
    BY ResolveIs
  <2>2. \A i \in DOMAIN b : /\ \A v \in ViewsAt(c[i]) : \E u \in ViewsAt(b[i]) : SameBut(u, v)
                            /\ Resolve[b].ok /\ Fits(b) => \A v \in ViewsAt(c[i]) : v.op = "invoke" => v.target # ""
    BY <1>1, ResolveStep
  <2>3. \A i \in DOMAIN b : ViewsAt(b[i]) \subseteq Views(b)
    BY ViewsIndex
  <2> HIDE DEF c
  <2>4. \A v \in Views(c) : \E i \in DOMAIN c : v \in ViewsAt(c[i])
    BY <2>1, ViewsIndex
  <2>5. \A v \in Views(c) : \E u \in Views(b) : SameBut(u, v)
    BY <2>1, <2>2, <2>3, <2>4
  <2>6. Resolve[b].ok /\ Fits(b) => \A v \in Views(c) : v.op = "invoke" => v.target # ""
    BY <2>1, <2>2, <2>4
  <2>7. Aimed(b, Resolve[b])
    BY <2>5, <2>6 DEF Aimed, c
  <2> QED
    BY <2>7
<1>2. Code \subseteq S
  <2> HIDE DEF S
  <2> QED
    BY <1>1, InnerInduction
<1> QED
  BY <1>2

-----------------------------------------------------------------------------
(* After returnify every path ends in a return or an abort.                  *)

Ends[block \in Code] ==
  /\ block # <<>>
  /\ \/ Last(block).op \in {"return", "abort"}
     \/ Last(block).op = "ite" /\ Ends[Last(block).then] /\ Ends[Last(block).else]

EndsOf(f, block) ==
  /\ block # <<>>
  /\ \/ Last(block).op \in {"return", "abort"}
     \/ Last(block).op = "ite" /\ f[Last(block).then] /\ f[Last(block).else]

LEMMA EndsUnfold == \A b \in Code : Ends[b] <=> EndsOf(Ends, b)
<1> DEFINE T == Code
           V == [x \in T |-> BOOLEAN]
           E == [p \in T \X Typed(T, V) |-> EndsOf(p[2], p[1])]
<1>1. \A x \in T, g \in Typed(T, V) : E[<<x, g>>] = EndsOf(g, x)
  OBVIOUS
<1>2. \A x \in T : V[x] = BOOLEAN
  OBVIOUS
<1>3. \A x \in T : \A g, h : AgreeBelow(T, CodeRank, g, h, x) => EndsOf(g, x) = EndsOf(h, x)
  <2> SUFFICES ASSUME NEW x \in T, NEW g, NEW h, AgreeBelow(T, CodeRank, g, h, x)
               PROVE  EndsOf(g, x) = EndsOf(h, x)
    OBVIOUS
  <2>1. CASE x = <<>>
    BY <2>1 DEF EndsOf
  <2>2. CASE x # <<>>
    <3>1. Len(x) \in DOMAIN x /\ Last(x) = x[Len(x)]
      BY <2>2, LastParts DEF Code
    <3>2. g[Last(x).then] = h[Last(x).then] /\ g[Last(x).else] = h[Last(x).else]
      BY <3>1, CodeParts DEF AgreeBelow
    <3> QED
      BY <3>2 DEF EndsOf
  <2> QED
    BY <2>1, <2>2
<1>4. \A x \in T : \A g : EndsOf(g, x) \in BOOLEAN
  BY DEF EndsOf
<1> HIDE DEF T, V, E
<1>5. Recurses(T, CodeRank, V, E)
  <2>1. CodeRank \in [T -> Nat \X Nat]
    BY CodeRankType DEF T
  <2>2. \A x \in T : V[x] # {}
    BY <1>2
  <2>3. \A x \in T, g \in Typed(T, V) : E[<<x, g>>] \in V[x]
    BY <1>1, <1>2, <1>4
  <2>4. \A x \in T : \A g, h \in Typed(T, V) : AgreeBelow(T, CodeRank, g, h, x) => E[<<x, g>>] = E[<<x, h>>]
    BY <1>1, <1>3
  <2> QED
    BY <2>1, <2>2, <2>3, <2>4 DEF Recurses
<1>6. PICK f \in Typed(T, V) : f = [x \in T |-> E[<<x, f>>]]
  BY <1>5, RecursionExists
<1>7. f = [x \in T |-> EndsOf(f, x)]
  BY <1>1, <1>6
<1>8. Ends = [x \in T |-> EndsOf(Ends, x)]
  BY <1>7 DEF Ends, EndsOf, T
<1> QED
  BY <1>8 DEF T

LEMMA AppendLast ==
  ASSUME NEW S, NEW b \in Seq(S), NEW s \in S
  PROVE  Append(b, s) \in Seq(S) /\ Append(b, s) # <<>> /\ Last(Append(b, s)) = s
         /\ Len(Append(b, s)) \in DOMAIN Append(b, s) /\ Append(b, s)[Len(Append(b, s))] = s
<1>1. Len(b) \in Nat
  BY LenProperties
<1>2. /\ Append(b, s) \in Seq(S) /\ Len(Append(b, s)) = Len(b) + 1 /\ Append(b, s)[Len(b) + 1] = s
  BY AppendProperties
<1>3. Append(b, s) # <<>>
  BY <1>1, <1>2, EmptySeq
<1>4. Len(Append(b, s)) \in DOMAIN Append(b, s)
  BY <1>2, <1>3, LastParts
<1> QED
  BY <1>2, <1>3, <1>4 DEF Last

ReturnView == View(Return(<<>>))

EndsAll(b, r) ==
  r.code \in Code => /\ Views(r.code) \subseteq Views(b) \cup {ReturnView}
                     /\ r.ok => Ends[r.code]

LEMMA ReturnIs == /\ Return(<<>>).op = "return" /\ Return(<<>>).then = <<>> /\ Return(<<>>).else = <<>>
                  /\ Return(<<>>).args = <<>> /\ Return(<<>>).idx = <<>>
                  /\ Return(<<>>) \in StmtsTo[MaxCodeDepth]
<1>1. Return(<<>>).op = "return" /\ Return(<<>>).then = <<>> /\ Return(<<>>).else = <<>>
      /\ Return(<<>>).args = <<>> /\ Return(<<>>).idx = <<>>
  BY DEF Return, Stmt
<1>2. MaxCodeDepth \in Nat /\ MaxCodeDepth - 1 \in Nat /\ (MaxCodeDepth - 1) + 1 = MaxCodeDepth
  BY DepthAssumption
<1>3. Return(<<>>) \in StmtsTo[(MaxCodeDepth - 1) + 1]
  BY <1>2, ReturnIn
<1> QED
  BY <1>1, <1>2, <1>3

\* A block without conditional at its end gets a return, or had an end.
LEMMA EndedEnds ==
  ASSUME NEW b \in Code, NEW noneOk \in BOOLEAN
  PROVE  EndsAll(b, Ended(b, noneOk))
<1>1. CASE b # <<>> /\ Last(b).op \in {"return", "abort"}
  <2>1. Ended(b, noneOk) = [ok |-> TRUE, code |-> b]
    BY <1>1 DEF Ended
  <2>2. Ends[b]
    BY <1>1, EndsUnfold DEF EndsOf
  <2> QED
    BY <2>1, <2>2 DEF EndsAll
<1>2. CASE ~(b # <<>> /\ Last(b).op \in {"return", "abort"})
  <2> DEFINE c == Append(b, Return(<<>>))
  <2>1. Ended(b, noneOk) = [ok |-> noneOk, code |-> c]
    BY <1>2 DEF Ended
  <2>2. c \in Code /\ c # <<>> /\ Last(c) = Return(<<>>)
    BY ReturnIs, AppendLast DEF Code
  <2>3. Views(c) = Views(b) \cup ViewsAt(Return(<<>>))
    BY ReturnIs, ViewsAppend
  <2>4. ViewsAt(Return(<<>>)) = {ReturnView}
    BY ReturnIs, ViewsEmpty DEF ViewsAt, ReturnView
  <2> HIDE DEF c
  <2>5. Ends[c]
    BY <2>2, ReturnIs, EndsUnfold DEF EndsOf
  <2> QED
    BY <2>1, <2>3, <2>4, <2>5 DEF EndsAll
<1> QED
  BY <1>1, <1>2

\* What Returnify does to a block that ends in a conditional.
LEMMA ReturnifyParts ==
  ASSUME NEW b \in Code, b # <<>>, Last(b).op = "ite", NEW noneOk \in BOOLEAN
  PROVE  LET s == Last(b)
             then == Returnify[<<s.then, noneOk>>]
             else == Returnify[<<s.else, noneOk>>]
             new == [s EXCEPT !.then = then.code, !.else = else.code]
             c == Append(Front(b), new)
         IN  /\ Returnify[<<b, noneOk>>] = [ok |-> then.ok /\ else.ok, code |-> c]
             /\ Len(b) \in DOMAIN b /\ s = b[Len(b)] /\ s \in AnyStmt /\ s.then \in Code /\ s.else \in Code
             /\ new.op = "ite" /\ new.then = then.code /\ new.else = else.code
             /\ new.to = s.to /\ new.idx = s.idx /\ new.args = s.args /\ View(new) = View(s)
             /\ c # <<>> /\ Last(c) = new
             /\ c \in Code => new \in AnyStmt /\ then.code \in Code /\ else.code \in Code
<1> DEFINE s == Last(b)
           then == Returnify[<<s.then, noneOk>>]
           else == Returnify[<<s.else, noneOk>>]
           new == [s EXCEPT !.then = then.code, !.else = else.code]
           c == Append(Front(b), new)
           ok == then.ok /\ else.ok
<1>1. Returnify[<<b, noneOk>>] = ReturnifyOf(Returnify, <<b, noneOk>>)
  BY ReturnifyUnfold DEF ReturnifyIn
<1>2. Returnify[<<b, noneOk>>] = [ok |-> ok, code |-> c]
  BY <1>1 DEF ReturnifyOf
<1>3. Len(b) \in DOMAIN b /\ s = b[Len(b)] /\ Front(b) \in Code
  BY LastParts DEF Code
<1>4. s \in StmtsTo[MaxCodeDepth] /\ MaxCodeDepth \in Nat /\ s.then \in Code /\ s.else \in Code
  BY <1>3, CodeParts, DepthAssumption
<1>5. OneDeeper(s.then, then.code) /\ OneDeeper(s.else, else.code)
  <2>1. \A d \in Code : OneDeeper(d, Returnify[<<d, noneOk>>].code)
    BY ReturnifyUnfold DEF Typed, ReturnifyIn, ReturnifyOut
  <2> QED
    BY <1>4, <2>1
<1>6. s.op = "ite"
  OBVIOUS
<1>7. new \in StmtsTo[MaxCodeDepth + 1]
  <2> HIDE DEF then, else, s
  <2> QED
    BY <1>4, <1>5, <1>6, Deepened
<1>8. new.op = "ite" /\ new.then = then.code /\ new.else = else.code /\ View(new) = View(s)
      /\ new.to = s.to /\ new.idx = s.idx /\ new.args = s.args
  <2>1. new.op = s.op /\ new.then = then.code /\ new.else = else.code /\ new.to = s.to
        /\ new.idx = s.idx /\ new.args = s.args /\ new.id = s.id /\ new.target = s.target /\ new.span = s.span
        /\ new.name = s.name
    BY <1>4, StmtsIn
  <2> QED
    BY <1>6, <2>1 DEF View
<1>11. Front(b) \in Seq(StmtsTo[MaxCodeDepth + 1])
  <2>1. MaxCodeDepth + 1 \in Nat /\ MaxCodeDepth <= MaxCodeDepth + 1
    BY <1>4
  <2> QED
    BY <1>3, <1>4, <2>1, TreesGrow DEF Code
<1> HIDE DEF s, then, else, new
<1>12. c \in Seq(StmtsTo[MaxCodeDepth + 1]) /\ c # <<>> /\ Last(c) = new /\ Len(c) \in DOMAIN c /\ c[Len(c)] = new
  BY <1>7, <1>11, AppendLast
<1>13. ASSUME c \in Code PROVE new \in AnyStmt /\ then.code \in Code /\ else.code \in Code
  <2> HIDE DEF c
  <2> QED
    BY <1>8, <1>12, <1>13, CodeParts DEF AnyStmt
<1> QED
  BY <1>2, <1>3, <1>4, <1>8, <1>12, <1>13 DEF s, then, else, new, AnyStmt

LEMMA ReturnifyStep ==
  ASSUME NEW b \in Code, b # <<>>, Last(b).op = "ite", NEW noneOk \in BOOLEAN,
         EndsAll(Last(b).then, Returnify[<<Last(b).then, noneOk>>]),
         EndsAll(Last(b).else, Returnify[<<Last(b).else, noneOk>>])
  PROVE  EndsAll(b, Returnify[<<b, noneOk>>])
<1> DEFINE s == Last(b)
           then == Returnify[<<s.then, noneOk>>]
           else == Returnify[<<s.else, noneOk>>]
           new == [s EXCEPT !.then = then.code, !.else = else.code]
           c == Append(Front(b), new)
           ok == then.ok /\ else.ok
<1>1. /\ Returnify[<<b, noneOk>>] = [ok |-> ok, code |-> c]
      /\ Len(b) \in DOMAIN b /\ s = b[Len(b)]
      /\ new.op = "ite" /\ new.then = then.code /\ new.else = else.code /\ View(new) = View(s)
      /\ c # <<>> /\ Last(c) = new
      /\ c \in Code => new \in AnyStmt /\ then.code \in Code /\ else.code \in Code
  BY ReturnifyParts
<1>2. Front(b) \in Code /\ \A i \in DOMAIN Front(b) : i \in DOMAIN b /\ Front(b)[i] = b[i]
  BY LastParts DEF Code
<1>3. EndsAll(s.then, then) /\ EndsAll(s.else, else)
  OBVIOUS
<1>4. View(s) \in Views(b) /\ Views(s.then) \subseteq Views(b) /\ Views(s.else) \subseteq Views(b)
  BY <1>1, ViewsIndex DEF ViewsAt
<1>5. Views(Front(b)) \subseteq Views(b)
  BY <1>2, ViewsIndex
<1> HIDE DEF s, then, else, new
<1>6. ASSUME c \in Code PROVE Views(c) \subseteq Views(b) \cup {ReturnView} /\ (ok => Ends[c])
  <2>1. Views(c) = Views(Front(b)) \cup ViewsAt(new)
    BY <1>1, <1>2, <1>6, ViewsAppend DEF AnyStmt
  <2>2. ViewsAt(new) = {View(s)} \cup Views(then.code) \cup Views(else.code)
    BY <1>1 DEF ViewsAt
  <2>3. /\ Views(then.code) \subseteq Views(s.then) \cup {ReturnView}
        /\ Views(else.code) \subseteq Views(s.else) \cup {ReturnView}
        /\ then.ok => Ends[then.code]
        /\ else.ok => Ends[else.code]
    BY <1>1, <1>3, <1>6 DEF EndsAll
  <2> HIDE DEF c
  <2>4. ok => Ends[c]
    BY <1>1, <1>6, <2>3, EndsUnfold DEF EndsOf
  <2> QED
    BY <1>4, <1>5, <2>1, <2>2, <2>3, <2>4
<1> DEFINE out == Returnify[<<b, noneOk>>]
<1> HIDE DEF ok, c
<1>7. out.code = c /\ out.ok = ok
  BY <1>1
<1> HIDE DEF out
<1>8. EndsAll(b, out)
  BY <1>6, <1>7 DEF EndsAll
<1> QED
  BY <1>8 DEF out

\* Returnify adds nothing but returns, and if it succeeds leaves no open end.
LEMMA ReturnifyEnds == \A b \in Code, noneOk \in BOOLEAN : EndsAll(b, Returnify[<<b, noneOk>>])
<1> DEFINE S == {b \in Code : \A noneOk \in BOOLEAN : EndsAll(b, Returnify[<<b, noneOk>>])}
<1>1. ASSUME NEW b \in Code, \A i \in DOMAIN b : b[i].then \in S /\ b[i].else \in S PROVE b \in S
  <2> SUFFICES ASSUME NEW noneOk \in BOOLEAN PROVE EndsAll(b, Returnify[<<b, noneOk>>])
    OBVIOUS
  <2>1. Returnify[<<b, noneOk>>] = ReturnifyOf(Returnify, <<b, noneOk>>)
    BY ReturnifyUnfold DEF ReturnifyIn
  <2>2. CASE ~(b # <<>> /\ Last(b).op = "ite")
    <3>1. Returnify[<<b, noneOk>>] = Ended(b, noneOk)
      BY <2>1, <2>2 DEF ReturnifyOf
    <3> QED
      BY <3>1, EndedEnds
  <2>3. CASE b # <<>> /\ Last(b).op = "ite"
    <3>1. Len(b) \in DOMAIN b /\ Last(b) = b[Len(b)]
      BY <2>3, LastParts DEF Code
    <3>2. Last(b).then \in S /\ Last(b).else \in S
      BY <1>1, <3>1
    <3> QED
      BY <2>3, <3>2, ReturnifyStep
  <2> QED
    BY <2>2, <2>3
<1>2. Code \subseteq S
  <2> HIDE DEF S
  <2> QED
    BY <1>1, InnerInduction
<1> QED
  BY <1>2

-----------------------------------------------------------------------------
(* After treeify the code can be written.                                    *)

GoodView(v) ==
  /\ v.op # "for" /\ InFull(v)
  /\ v.op = "invoke" => v.target # ""
  /\ v.op = "sample" => v.id # Unnumbered
  /\ ~HasUnwrap[Written(v)]

\* What a good view says of the statement.
LEMMA GoodViewOf ==
  ASSUME NEW s, GoodView(View(s))
  PROVE  /\ s.op # "for" /\ (s.op = "invoke" => s.target # "") /\ (s.op = "sample" => s.id # Unnumbered)
         /\ ~HasUnwrap[Written(s)] /\ InFull(s)
<1>1. View(s).op = s.op /\ View(s).target = s.target /\ View(s).id = s.id
  BY DEF View
<1> QED
  BY <1>1, WrittenView, InFullView DEF GoodView

\* A block that ends, of good statements with writable branches, can be written.
LEMMA WritableWhen ==
  ASSUME NEW c \in Code, c # <<>>, Last(c).op \in {"ite", "return", "abort"},
         \A i \in DOMAIN c : /\ GoodView(View(c[i]))
                             /\ c[i].op = "ite" => ~Unwritable[c[i].then] /\ ~Unwritable[c[i].else]
  PROVE  ~Unwritable[c]
<1>1. Unwritable[c] <=> UnwritableOf(Unwritable, c)
  BY UnwritableUnfold
<1> QED
  BY <1>1, GoodViewOf DEF UnwritableOf

LEMMA LastConcat ==
  ASSUME NEW S, NEW a \in Seq(S), NEW d \in Seq(S), d # <<>>
  PROVE  a \o d # <<>> /\ Last(a \o d) = Last(d)
<1>1. /\ Len(a) \in Nat /\ Len(d) \in Nat /\ Len(d) # 0 /\ a \o d \in Seq(S) /\ Len(a \o d) = Len(a) + Len(d)
      /\ \A i \in 1 .. Len(a) + Len(d) : (a \o d)[i] = IF i <= Len(a) THEN a[i] ELSE d[i - Len(a)]
  BY ConcatProperties, LenProperties, EmptySeq
<1>2. /\ Len(a) + Len(d) \in 1 .. Len(a) + Len(d) /\ ~(Len(a) + Len(d) <= Len(a)) /\ (Len(a) + Len(d)) - Len(a) = Len(d)
      /\ Len(a) + Len(d) # 0
  BY <1>1
<1>3. (a \o d)[Len(a) + Len(d)] = d[Len(d)]
  BY <1>1, <1>2
<1>4. a \o d # <<>>
  BY <1>1, <1>2, EmptySeq
<1>5. Last(a \o d) = (a \o d)[Len(a) + Len(d)]
  BY <1>1 DEF Last
<1>6. Last(d) = d[Len(d)]
  BY DEF Last
<1> QED
  BY <1>3, <1>4, <1>5, <1>6

\* Two blocks joined end as the second does.
LEMMA EndsConcat ==
  ASSUME NEW a \in Code, NEW d \in Code, d # <<>>
  PROVE  Ends[a \o d] <=> Ends[d]
<1> DEFINE c == a \o d
<1>1. c \in Code /\ c # <<>> /\ Last(c) = Last(d)
  BY CodeConcat, LastConcat DEF Code
<1> HIDE DEF c
<1>2. Ends[c] <=> Ends[d]
  BY <1>1, EndsUnfold DEF EndsOf
<1> QED
  BY <1>2 DEF c

\* The block that is made of the one behind a conditional.
LEMMA AfterParts ==
  ASSUME NEW b \in Code, NEW k \in DOMAIN b
  PROVE  LET s == b[k]
             a == After(b, k)
         IN  /\ a \in Code /\ s.then \in Code /\ s.else \in Code
             /\ Views(s.then \o a) \subseteq Views(b) /\ Views(s.else \o a) \subseteq Views(b)
             /\ s.op = "ite" /\ Ends[b] => Ends[s.then \o a] /\ Ends[s.else \o a]
<1> DEFINE s == b[k]
           a == After(b, k)
           before == SubSeq(b, 1, k - 1)
<1>1. before \in Code /\ a \in Code /\ b = before \o (<<s>> \o a) /\ s \in StmtsTo[MaxCodeDepth] /\ s.then \in Code /\ s.else \in Code
  BY CutAt, CodeParts DEF Code, After
<1>2. MaxCodeDepth \in Nat /\ MaxCodeDepth <= MaxCodeDepth
  BY DepthAssumption
<1> HIDE DEF s, a, before
<1>3. <<s>> \in Code /\ Views(<<s>>) = ViewsAt(s)
  BY <1>1, <1>2, ViewsOne
<1>4. <<s>> \o a \in Code /\ Views(<<s>> \o a) = ViewsAt(s) \cup Views(a)
  BY <1>1, <1>3, ViewsConcat
<1>5. Views(b) = Views(before) \cup (ViewsAt(s) \cup Views(a))
  BY <1>1, <1>4, ViewsConcat
<1>6. Views(s.then \o a) = Views(s.then) \cup Views(a) /\ Views(s.else \o a) = Views(s.else) \cup Views(a)
  BY <1>1, ViewsConcat
<1>7. Views(s.then \o a) \subseteq Views(b) /\ Views(s.else \o a) \subseteq Views(b)
  BY <1>5, <1>6 DEF ViewsAt
<1>8. ASSUME s.op = "ite", Ends[b] PROVE Ends[s.then \o a] /\ Ends[s.else \o a]
  <2>1. <<s>> # <<>> /\ Last(<<s>>) = s
    BY DEF Last
  <2>2. CASE a = <<>>
    <3>1. <<s>> \o a = <<s>> /\ s.then \o a = s.then /\ s.else \o a = s.else
      BY <1>1, <1>3, <2>2, ConcatEmptySeq DEF Code
    <3>2. Ends[<<s>>]
      BY <1>1, <1>3, <1>8, <2>1, <3>1, EndsConcat
    <3> DEFINE d == <<s>>
    <3>3. d \in Code /\ Last(d) = s /\ Ends[d]
      BY <1>3, <2>1, <3>2
    <3> HIDE DEF d
    <3>4. Ends[s.then] /\ Ends[s.else]
      BY <1>8, <3>3, EndsUnfold DEF EndsOf
    <3> QED
      BY <3>1, <3>4
  <2>3. CASE a # <<>>
    <3>1. <<s>> \o a # <<>>
      BY <1>1, <1>3, <2>3, LastConcat DEF Code
    <3>2. Ends[a]
      BY <1>1, <1>3, <1>4, <1>8, <2>3, <3>1, EndsConcat
    <3> QED
      BY <1>1, <2>3, <3>2, EndsConcat
  <2> QED
    BY <2>2, <2>3
<1> QED
  BY <1>1, <1>7, <1>8 DEF s, a

TreeOk(b, c) ==
  c \in Code => /\ Views(c) \subseteq Views(b)
                /\ Ends[b] /\ (\A v \in Views(b) : GoodView(v)) => ~Unwritable[c]

LEMMA TreeLoopViews ==
  ASSUME NEW b \in Code, NEW i \in DOMAIN b, \A own \in Nat : TreeOk(b[i].then, Treeify[<<b[i].then, own>>]),
         NEW t, t = TreeLoop(Treeify, b[i]), t.then \in Code
  PROVE  /\ ViewsAt(t) \subseteq ViewsAt(b[i])
         /\ b[i].op # "for" => t = b[i]
<1> DEFINE s == b[i]
<1>1. CASE s.op # "for"
  BY <1>1 DEF TreeLoop
<1>2. CASE s.op = "for"
  <2>1. s \in StmtsTo[MaxCodeDepth] /\ MaxCodeDepth \in Nat /\ s.then \in Code
    BY CodeParts, DepthAssumption
  <2>2. Len(s.then) \in Nat
    BY <2>1, LenProperties DEF Code
  <2>3. t = [s EXCEPT !.then = Treeify[<<s.then, Len(s.then)>>]]
    <3>1. t = [s EXCEPT !.then = Treeify[<<@, Len(@)>>]]
      BY <1>2 DEF TreeLoop
    <3> QED
      BY <2>1, <3>1, StmtsIn
  <2>4. /\ t.then = Treeify[<<s.then, Len(s.then)>>] /\ t.else = s.else
        /\ t.op = s.op /\ t.idx = s.idx /\ t.args = s.args /\ t.id = s.id /\ t.target = s.target /\ t.span = s.span
        /\ t.name = s.name    BY <2>1, <2>3, StmtsIn
  <2>5. Views(t.then) \subseteq Views(s.then)
    BY <2>2, <2>4 DEF TreeOk
  <2>6. View(t) = View(s)
    BY <2>4 DEF View
  <2> HIDE DEF s
  <2>7. ViewsAt(t) \subseteq ViewsAt(s)
    BY <2>4, <2>5, <2>6 DEF ViewsAt
  <2> QED
    BY <1>2, <2>7 DEF s
<1> QED
  BY <1>1, <1>2

\* Treeify on a block without conditional.
LEMMA TreeifyFlat ==
  ASSUME NEW b \in Code, NEW own \in Nat, Conditionals(b) = {},
         \A d \in Code, k \in Nat : Size[d] < Size[b] => TreeOk(d, Treeify[<<d, k>>])
  PROVE  TreeOk(b, Treeify[<<b, own>>])
<1> DEFINE c == [i \in DOMAIN b |-> IF i <= own THEN b[i] ELSE TreeLoop(Treeify, b[i])]
<1>1. Treeify[<<b, own>>] = c
  <2>1. Treeify[<<b, own>>] = TreeifyOf(Treeify, <<b, own>>)
    BY TreeifyUnfold DEF TreeifyIn
  <2> QED
    BY <2>1 DEF TreeifyOf
<1>2. DOMAIN c = DOMAIN b /\ \A i \in DOMAIN b : c[i] = b[i] \/ c[i] = TreeLoop(Treeify, b[i])
  OBVIOUS
<1>3. c = [i \in DOMAIN b |-> c[i]]
  OBVIOUS
<1> HIDE DEF c
<1>4. ASSUME c \in Code
      PROVE  /\ Views(c) \subseteq Views(b)
             /\ Ends[b] /\ (\A v \in Views(b) : GoodView(v)) => ~Unwritable[c]
  <2>1. ASSUME NEW i \in DOMAIN b
        PROVE  ViewsAt(c[i]) \subseteq ViewsAt(b[i]) /\ (b[i].op # "for" => c[i] = b[i])
    <3>1. c[i].then \in Code
      BY <1>2, <1>4, CodeParts
    <3>2. \A k \in Nat : TreeOk(b[i].then, Treeify[<<b[i].then, k>>])
      BY SizeAt, CodeParts
    <3> QED
      BY <1>2, <3>1, <3>2, TreeLoopViews
  <2>2. Views(c) \subseteq Views(b)
    <3>1. \A v \in Views(c) : \E i \in DOMAIN c : v \in ViewsAt(c[i])
      BY <1>4, ViewsIndex
    <3>2. \A i \in DOMAIN b : ViewsAt(b[i]) \subseteq Views(b)
      BY ViewsIndex
    <3> QED
      BY <1>2, <2>1, <3>1, <3>2
  <2>3. ASSUME Ends[b], \A v \in Views(b) : GoodView(v) PROVE ~Unwritable[c]
    <3>1. \A i \in DOMAIN b : View(b[i]) \in Views(b)
      BY ViewsIndex DEF ViewsAt
    <3>2. \A i \in DOMAIN b : GoodView(View(b[i])) /\ b[i].op # "ite"
      BY <2>3, <3>1 DEF Conditionals
    <3>3. \A i \in DOMAIN b : c[i] = b[i]
      BY <2>1, <3>2, GoodViewOf
    <3>4. b = [i \in DOMAIN b |-> b[i]]
      BY DEF Code
    <3>5. c = b
      BY <1>3, <3>3, <3>4
    <3>6. b # <<>> /\ Last(b).op \in {"return", "abort"}
      <4>1. b # <<>> /\ (Last(b).op \in {"return", "abort"} \/ Last(b).op = "ite")
        BY <2>3, EndsUnfold DEF EndsOf
      <4>2. Len(b) \in DOMAIN b /\ Last(b) = b[Len(b)]
        BY <4>1, LastParts DEF Code
      <4> QED
        BY <3>2, <4>1, <4>2
    <3> QED
      BY <3>2, <3>5, <3>6, WritableWhen
  <2> QED
    BY <2>2, <2>3
<1>5. TreeOk(b, c)
  BY <1>4 DEF TreeOk
<1> QED
  BY <1>1, <1>5

LEMMA BranchedParts ==
  ASSUME NEW b \in Code, NEW k \in DOMAIN b
  PROVE  LET s == b[k]
             a == After(b, k)
             t == Branched(Treeify, s, a)
         IN  /\ t.then = Treeify[<<s.then \o a, Len(s.then)>>] /\ t.else = Treeify[<<s.else \o a, Len(s.else)>>]
             /\ View(t) = View(s) /\ t.op = s.op
             /\ Len(s.then) \in Nat /\ Len(s.else) \in Nat
<1> DEFINE s == b[k]
           a == After(b, k)
           t == Branched(Treeify, s, a)
<1>1. s \in StmtsTo[MaxCodeDepth] /\ MaxCodeDepth \in Nat /\ s.then \in Code /\ s.else \in Code
  BY CodeParts, DepthAssumption
<1>2. Len(s.then) \in Nat /\ Len(s.else) \in Nat
  BY <1>1, LenProperties DEF Code
<1>3. /\ t.then = Treeify[<<s.then \o a, Len(s.then)>>] /\ t.else = Treeify[<<s.else \o a, Len(s.else)>>]
      /\ t.op = s.op /\ t.idx = s.idx /\ t.args = s.args /\ t.id = s.id /\ t.target = s.target /\ t.span = s.span
      /\ t.name = s.name  <2> HIDE DEF s, a
  <2>1. s \in [op : Kinds, to : Seq(Idents), idx : Seq(Exprs), args : Seq(Exprs),
               then : Seq(StmtsTo[MaxCodeDepth - 1]), else : Seq(StmtsTo[MaxCodeDepth - 1]),
               name : Idents, id : Int, target : Instances \cup {""}, span : Nat]
    BY <1>1, StmtsIn
  <2> QED
    BY <2>1 DEF Branched
<1>4. View(t) = View(s)
  BY <1>3 DEF View
<1> QED
  BY <1>2, <1>3, <1>4

\* Treeify on a block with a conditional.
LEMMA TreeifyBranching ==
  ASSUME NEW b \in Code, NEW own \in Nat, Conditionals(b) # {},
         \A d \in Code, k \in Nat : Size[d] < Size[b] => TreeOk(d, Treeify[<<d, k>>])
  PROVE  TreeOk(b, Treeify[<<b, own>>])
<1> DEFINE k == FirstConditional(b)
           s == b[k]
           a == After(b, k)
           t == Branched(Treeify, s, a)
           f == [i \in 1 .. k - 1 |-> TreeLoop(Treeify, b[i])]
           c == Append(f, t)
           n == MaxCodeDepth + Size[b]
<1>1. Treeify[<<b, own>>] = c
  <2>1. Treeify[<<b, own>>] = TreeifyOf(Treeify, <<b, own>>)
    BY TreeifyUnfold DEF TreeifyIn
  <2> QED
    BY <2>1 DEF TreeifyOf
<1>2. k \in DOMAIN b /\ s.op = "ite" /\ \A i \in 1 .. k - 1 : i \in DOMAIN b /\ b[i].op # "ite"
  BY FirstConditionalIs
<1>3. k - 1 \in Nat /\ k \in Nat /\ 1 <= k
  <2>1. k \in 1 .. Len(b) /\ Len(b) \in Nat
    BY <1>2, LenProperties DEF Code
  <2> HIDE DEF k
  <2>2. \A m \in Nat : \A i \in 1 .. m : i - 1 \in Nat /\ i \in Nat /\ 1 <= i
    OBVIOUS
  <2> QED
    BY <2>1, <2>2
<1>4. t \in StmtsTo[n] /\ \A i \in 1 .. k - 1 : TreeLoop(Treeify, b[i]) \in StmtsTo[n]
  BY <1>2, TreeifyUnfold, TreeLoopIn
<1>5. /\ t.then = Treeify[<<s.then \o a, Len(s.then)>>] /\ t.else = Treeify[<<s.else \o a, Len(s.else)>>]
      /\ View(t) = View(s) /\ t.op = s.op /\ Len(s.then) \in Nat /\ Len(s.else) \in Nat
  BY <1>2, BranchedParts
<1>6. /\ s.then \o a \in Code /\ Size[s.then \o a] < Size[b] /\ s.else \o a \in Code /\ Size[s.else \o a] < Size[b]
  BY <1>2, SizeAt DEF After
<1>7. TreeOk(s.then \o a, t.then) /\ TreeOk(s.else \o a, t.else)
  BY <1>5, <1>6
<1>8. /\ Views(s.then \o a) \subseteq Views(b) /\ Views(s.else \o a) \subseteq Views(b) /\ View(s) \in Views(b)
      /\ Ends[b] => Ends[s.then \o a] /\ Ends[s.else \o a]
  BY <1>2, AfterParts, ViewsIndex DEF ViewsAt
<1> HIDE DEF k, t
<1>9. /\ f \in Seq(StmtsTo[n]) /\ DOMAIN f = 1 .. k - 1
      /\ \A i \in 1 .. k - 1 : f[i] = TreeLoop(Treeify, b[i])
  BY <1>3, <1>4
<1> HIDE DEF f
<1>10. /\ c \in Seq(StmtsTo[n]) /\ c # <<>> /\ Last(c) = t /\ c[Len(c)] = t /\ Len(c) \in DOMAIN c
  <2> HIDE DEF n
  <2> QED
    BY <1>4, <1>9, AppendLast
<1>11. DOMAIN c = 1 .. k /\ c[k] = t /\ \A i \in 1 .. k - 1 : c[i] = f[i] /\ i \in DOMAIN c
  <2> HIDE DEF n
  <2>1. Len(f) = k - 1
    BY <1>3, <1>9, LenProperties
  <2>2. /\ Len(c) = Len(f) + 1 /\ \A i \in 1 .. Len(f) : c[i] = f[i]
        /\ c[Len(f) + 1] = t
    BY <1>4, <1>9, AppendProperties
  <2>3. (k - 1) + 1 = k /\ k \in Nat /\ 1 <= k
    <3>1. \A m \in Nat : (m - 1) + 1 = m
      OBVIOUS
    <3> QED
      BY <1>3, <3>1
  <2>4. \A i \in 1 .. k - 1 : i \in 1 .. k
    BY <2>3
  <2>5. DOMAIN c = 1 .. Len(c)
    BY <1>10, LenProperties
  <2> QED
    BY <2>1, <2>2, <2>3, <2>4, <2>5
<1> HIDE DEF c, s, a
<1>12. ASSUME c \in Code
       PROVE  /\ Views(c) \subseteq Views(b)
              /\ Ends[b] /\ (\A v \in Views(b) : GoodView(v)) => ~Unwritable[c]
  <2>1. t.then \in Code /\ t.else \in Code
    BY <1>10, <1>12, CodeParts
  <2>2. /\ Views(t.then) \subseteq Views(s.then \o a) /\ Views(t.else) \subseteq Views(s.else \o a)
        /\ Ends[s.then \o a] /\ (\A v \in Views(s.then \o a) : GoodView(v)) => ~Unwritable[t.then]
        /\ Ends[s.else \o a] /\ (\A v \in Views(s.else \o a) : GoodView(v)) => ~Unwritable[t.else]
    BY <1>7, <2>1 DEF TreeOk
  <2>3. ViewsAt(t) \subseteq Views(b)
    BY <1>5, <1>8, <2>2 DEF ViewsAt
  <2>4. ASSUME NEW i \in 1 .. k - 1
        PROVE  ViewsAt(c[i]) \subseteq Views(b) /\ (b[i].op # "for" => c[i] = b[i])
    <3>1. c[i].then \in Code /\ c[i] = TreeLoop(Treeify, b[i]) /\ i \in DOMAIN b
      BY <1>2, <1>9, <1>11, <1>12, CodeParts
    <3>2. \A m \in Nat : TreeOk(b[i].then, Treeify[<<b[i].then, m>>])
      BY <3>1, SizeAt, CodeParts
    <3>3. ViewsAt(b[i]) \subseteq Views(b)
      BY <3>1, ViewsIndex
    <3> QED
      BY <3>1, <3>2, <3>3, TreeLoopViews
  <2>5. \A i \in DOMAIN c : i \in 1 .. k - 1 \/ i = k
    <3>1. \A m \in Nat : \A i \in 1 .. m : i \in 1 .. m - 1 \/ i = m
      OBVIOUS
    <3> QED
      BY <1>3, <1>11, <3>1
  <2>6. Views(c) \subseteq Views(b)
    <3>1. \A v \in Views(c) : \E i \in DOMAIN c : v \in ViewsAt(c[i])
      BY <1>12, ViewsIndex
    <3> QED
      BY <1>11, <2>3, <2>4, <2>5, <3>1
  <2>7. ASSUME Ends[b], \A v \in Views(b) : GoodView(v) PROVE ~Unwritable[c]
    <3>1. ~Unwritable[t.then] /\ ~Unwritable[t.else]
      BY <1>8, <2>2, <2>7
    <3>2. GoodView(View(t))
      BY <1>5, <1>8, <2>7
    <3>3. ASSUME NEW i \in 1 .. k - 1 PROVE GoodView(View(c[i])) /\ c[i].op # "ite"
      <4>1. i \in DOMAIN b /\ View(b[i]) \in Views(b) /\ b[i].op # "ite"
        BY <1>2, ViewsIndex DEF ViewsAt
      <4>2. GoodView(View(b[i])) /\ b[i].op # "for"
        BY <2>7, <4>1, GoodViewOf
      <4> QED
        BY <2>4, <4>1, <4>2
    <3>4. \A i \in DOMAIN c : /\ GoodView(View(c[i]))
                              /\ c[i].op = "ite" => ~Unwritable[c[i].then] /\ ~Unwritable[c[i].else]
      BY <1>11, <2>5, <3>1, <3>2, <3>3
    <3>5. Last(c).op = "ite"
      BY <1>2, <1>5, <1>10 DEF s
    <3> QED
      BY <1>10, <1>12, <3>4, <3>5, WritableWhen
  <2> QED
    BY <2>6, <2>7
<1>13. TreeOk(b, c)
  BY <1>12 DEF TreeOk
<1> QED
  BY <1>1, <1>13 DEF c, s, a, f, t, k

\* Treeify copies statements and makes none; of code that ends on every path, it
\* makes code that can be written.
LEMMA TreeifyOk == \A b \in Code, own \in Nat : TreeOk(b, Treeify[<<b, own>>])
<1> DEFINE S == {in \in TreeifyIn : TreeOk(in[1], Treeify[in])}
<1>1. ASSUME NEW in \in TreeifyIn, \A y \in TreeifyIn : Below(SizeRank[y], SizeRank[in]) => y \in S PROVE in \in S
  <2>1. PICK b \in Code, own \in Nat : in = <<b, own>>
    BY DEF TreeifyIn
  <2>2. ASSUME NEW d \in Code, NEW k \in Nat, Size[d] < Size[b] PROVE TreeOk(d, Treeify[<<d, k>>])
    <3>1. SizeRank[<<d, k>>] = <<Size[d], 0>> /\ SizeRank[<<b, own>>] = <<Size[b], 0>> /\ <<d, k>> \in TreeifyIn
      BY DEF SizeRank, TreeifyIn
    <3>2. Below(<<Size[d], 0>>, <<Size[b], 0>>)
      BY <2>2 DEF Below
    <3>3. <<d, k>> \in S
      BY <1>1, <2>1, <3>1, <3>2
    <3> QED
      BY <3>3
  <2>3. TreeOk(b, Treeify[<<b, own>>])
    BY <2>2, TreeifyFlat, TreeifyBranching
  <2> QED
    BY <2>1, <2>3
<1>2. TreeifyIn \subseteq S
  <2> HIDE DEF S
  <2> QED
    BY <1>1, SizeRankType, RankInduction
<1> QED
  BY <1>2 DEF TreeifyIn

-----------------------------------------------------------------------------
(* tableinitialize keeps what can be written.                                *)

Fine(s) == GoodView(View(s)) /\ (s.op = "ite" => ~Unwritable[s.then] /\ ~Unwritable[s.else])
AllFine(b) == \A i \in DOMAIN b : Fine(b[i])

\* What it takes to be writable.
LEMMA WritableIs ==
  ASSUME NEW c \in Code
  PROVE  ~Unwritable[c] <=> c # <<>> /\ Last(c).op \in {"ite", "return", "abort"} /\ AllFine(c)
<1>1. Unwritable[c] <=> UnwritableOf(Unwritable, c)
  BY UnwritableUnfold
<1>2. ASSUME NEW i \in DOMAIN c, ~Unwritable[c] PROVE Fine(c[i])
  <2>1. View(c[i]).op = c[i].op /\ View(c[i]).target = c[i].target /\ View(c[i]).id = c[i].id
    BY DEF View
  <2>2. /\ c[i].op # "for" /\ (c[i].op = "invoke" => c[i].target # "") /\ InFull(c[i])
        /\ (c[i].op = "sample" => c[i].id # Unnumbered) /\ ~HasUnwrap[Written(c[i])]
        /\ (c[i].op = "ite" => ~Unwritable[c[i].then] /\ ~Unwritable[c[i].else])
    BY <1>1, <1>2 DEF UnwritableOf
  <2> QED
    BY <2>1, <2>2, WrittenView, InFullView DEF Fine, GoodView
<1>3. ~Unwritable[c] => c # <<>> /\ Last(c).op \in {"ite", "return", "abort"}
  BY <1>1 DEF UnwritableOf
<1>4. c # <<>> /\ Last(c).op \in {"ite", "return", "abort"} /\ AllFine(c) => ~Unwritable[c]
  BY WritableWhen DEF AllFine, Fine
<1> QED
  BY <1>2, <1>3, <1>4 DEF AllFine

LEMMA AllFineConcat ==
  ASSUME NEW a \in Code, NEW b \in Code, AllFine(a), AllFine(b)
  PROVE  AllFine(a \o b)
<1> DEFINE c == a \o b
<1>1. Joined(a, b, c)
  BY ConcatPositions DEF Code
<1> HIDE DEF c
<1>2. AllFine(c)
  BY <1>1 DEF AllFine, Joined
<1> QED
  BY <1>2 DEF c

\* The assignment of an empty table can be written.
LEMMA StartsFree ==
  ASSUME NEW s \in StmtsTo[MaxCodeDepth], NEW done \in SUBSET Idents
  PROVE  FreeAssigns(Starts(s, done)) /\ AllFine(Starts(s, done)) /\ Starts(s, done) \in Code
<1> DEFINE e == Expr("newtable", Ident(""), <<>>)
           t == NewTable(s)
           u == Starts(s, done)
<1>0. MaxCodeDepth \in Nat
  BY DepthAssumption
<1>1. /\ u \in Seq(StmtsTo[1])
      /\ TableOf(s) => t \in StmtsTo[1] /\ t.op = "assign" /\ t.idx = <<>> /\ t.args = <<e>>
  BY <1>0, StartsType
<1>2. \A i \in DOMAIN u : TableOf(s) /\ u[i] = t
  BY DEF Starts
<1>3. TableOf(s) => ~HasUnwrap[Written(t)]
  <2>1. e.op = "newtable" /\ e.args = <<>>
    BY DEF Expr
  <2> HIDE DEF e
  <2> SUFFICES ASSUME TableOf(s) PROVE ~HasUnwrap[Written(t)]
    OBVIOUS
  <2>2. t.args[1] = e /\ t.args \in Seq(Exprs) /\ t.idx \in Seq(Exprs)
    <3>1. 1 \in Nat
      OBVIOUS
    <3>2. t \in StmtsTo[1] /\ t.args = <<e>>
      BY <1>1
    <3> HIDE DEF t
    <3>3. t.args \in Seq(Exprs) /\ t.idx \in Seq(Exprs)
      BY <3>1, <3>2, StmtsIn
    <3>4. <<e>>[1] = e
      OBVIOUS
    <3> QED
      BY <3>2, <3>3, <3>4
  <2> HIDE DEF t
  <2>3. Written(t) = <<>> \o <<e>>
    BY <1>1, <2>1, <2>2 DEF Written, ExprsOf
  <2>4. <<e>> \in Seq(Exprs) /\ e \in Exprs
    <3>1. <<e>> \in Seq(Exprs)
      BY <1>1, <2>2
    <3>2. Len(<<e>>) = 1 /\ <<e>>[1] = e
      OBVIOUS
    <3>3. 1 \in 1 .. 1
      OBVIOUS
    <3> QED
      BY <3>1, <3>2, <3>3, ElementOfSeq
  <2>5. ~HasUnwrap[<<e>>]
    BY <2>1, <2>4, HasUnwrapOne, HasUnwrapEmpty
  <2>6. <<>> \o <<e>> = <<e>>
    BY <2>4, ConcatEmptySeq
  <2> QED
    BY <2>3, <2>5, <2>6
<1> HIDE DEF t, u
<1>4. FreeAssigns(u)
  BY <1>1, <1>2, <1>3 DEF FreeAssigns
<1>5. u \in Code
  BY <1>4, FreeAssignsViews
<1>6. ASSUME NEW i \in DOMAIN u PROVE Fine(u[i])
  <2>1. u[i].op = "assign" /\ ~HasUnwrap[Written(u[i])]
    BY <1>4 DEF FreeAssigns
  <2>2. View(u[i]).op = "assign"
    BY <2>1 DEF View
  <2>3. GoodView(View(u[i]))
    BY <2>1, <2>2, WrittenView DEF GoodView, InFull
  <2> QED
    BY <2>1, <2>3 DEF Fine
<1> QED
  BY <1>4, <1>5, <1>6 DEF AllFine, u

Kept(b, c) ==
  /\ \A v \in Views(c) : v.op = "assign" \/ v \in Views(b)
  /\ AllFine(b) => AllFine(c)
  /\ b # <<>> => c # <<>> /\ Last(c).op = Last(b).op

\* What Kept says is enough to stay writable.
LEMMA KeptWritable ==
  ASSUME NEW b \in Code, NEW c \in Code, Kept(b, c), ~Unwritable[b]
  PROVE  ~Unwritable[c]
BY WritableIs DEF Kept

LEMMA InitTablesParts ==
  ASSUME NEW b \in Code, NEW done \in SUBSET Idents
  PROVE  InitTables[<<b, done>>] \in Code /\ NoDeeper(b, InitTables[<<b, done>>])
<1>1. <<b, done>> \in InitIn /\ <<b, done>>[1] = b
  BY DEF InitIn
<1>2. InitTables[<<b, done>>] \in InitOut[<<b, done>>]
  BY <1>1, InitTablesUnfold DEF Typed
<1> QED
  BY <1>1, <1>2 DEF InitOut

LEMMA InitTablesStep ==
  ASSUME NEW b \in Code, b # <<>>, NEW done \in SUBSET Idents,
         \A k \in SUBSET Idents : Kept(Head(b).then, InitTables[<<Head(b).then, k>>]),
         \A k \in SUBSET Idents : Kept(Head(b).else, InitTables[<<Head(b).else, k>>]),
         \A k \in SUBSET Idents : Kept(Tail(b), InitTables[<<Tail(b), k>>])
  PROVE  Kept(b, InitTables[<<b, done>>])
<1> DEFINE s == Head(b)
           x == InitTables[<<s.then, done>>]
           y == InitTables[<<s.else, done>>]
           new == IF s.op = "ite" THEN [s EXCEPT !.then = x, !.else = y] ELSE s
           u == Starts(s, done)
           rest == InitTables[<<Tail(b), DoneAfter(s, done)>>]
           c == u \o <<new>> \o rest
<1>1. /\ s \in StmtsTo[MaxCodeDepth] /\ MaxCodeDepth \in Nat /\ MaxCodeDepth <= MaxCodeDepth
      /\ s.then \in Code /\ s.else \in Code /\ Tail(b) \in Code
  BY HeadParts, DepthAssumption DEF AnyStmt
<1>2. InitTables[<<b, done>>] = c
  <2>1. InitTables[<<b, done>>] = InitTablesOf(InitTables, <<b, done>>)
    BY InitTablesUnfold DEF InitIn
  <2> QED
    BY <2>1 DEF InitTablesOf
<1>3. FreeAssigns(u) /\ AllFine(u) /\ u \in Code /\ DoneAfter(s, done) \in SUBSET Idents
  BY <1>1, StartsFree, StartsType
<1>4. x \in Code /\ y \in Code /\ rest \in Code /\ NoDeeper(s.then, x) /\ NoDeeper(s.else, y)
  BY <1>1, <1>3, InitTablesParts
<1>5. Kept(s.then, x) /\ Kept(s.else, y) /\ Kept(Tail(b), rest)
  BY <1>3
<1> HIDE DEF x, y, u, rest
<1>6. /\ new \in StmtsTo[MaxCodeDepth] /\ new.op = s.op /\ View(new) = View(s)
      /\ s.op = "ite" => new.then = x /\ new.else = y
      /\ s.op # "ite" => new = s
  <2>1. CASE s.op = "ite"
    <3>1. new \in StmtsTo[MaxCodeDepth]
      BY <1>1, <1>4, <2>1, Rebuilt
    <3>2. /\ new.op = s.op /\ new.idx = s.idx /\ new.args = s.args /\ new.id = s.id /\ new.target = s.target
          /\ new.span = s.span /\ new.then = x /\ new.else = y /\ new.name = s.name
      BY <1>1, <2>1, StmtsIn
    <3> QED
      BY <2>1, <3>1, <3>2 DEF View
  <2>2. CASE s.op # "ite"
    BY <1>1, <2>2
  <2> QED
    BY <2>1, <2>2
<1>7. Views(b) = ViewsAt(s) \cup Views(Tail(b))
  BY ViewsHead
<1> HIDE DEF new, s
<1> DEFINE m == <<new>>
<1>8. m \in Code /\ Views(m) = ViewsAt(new) /\ m # <<>> /\ Last(m) = new /\ DOMAIN m = {1} /\ m[1] = new
  <2>1. <<new>> \in Code /\ Views(<<new>>) = ViewsAt(new)
    BY <1>1, <1>6, ViewsOne
  <2>2. <<new>> # <<>> /\ Len(<<new>>) = 1
    OBVIOUS
  <2>3. Last(<<new>>) = new
    BY <2>2 DEF Last
  <2> QED
    BY <2>1, <2>3
<1> HIDE DEF m
<1>9. u \o m \in Code /\ Views(u \o m) = Views(u) \cup Views(m) /\ u \o m # <<>> /\ Last(u \o m) = new
  <2>1. u \in Seq(StmtsTo[MaxCodeDepth]) /\ m \in Seq(StmtsTo[MaxCodeDepth])
    BY <1>3, <1>8 DEF Code
  <2> QED
    BY <1>3, <1>8, <2>1, ViewsConcat, LastConcat
<1> DEFINE d == u \o m
           o == d \o rest
<1> HIDE DEF d
<1>10. d \in Code /\ Views(d) = Views(u) \cup ViewsAt(new) /\ d # <<>> /\ Last(d) = new
  BY <1>8, <1>9 DEF d
<1>11. o \in Code /\ Views(o) = Views(d) \cup Views(rest)
  BY <1>4, <1>10, ViewsConcat
<1>12. \A v \in Views(o) : v.op = "assign" \/ v \in Views(b)
  <2>1. \A v \in Views(u) : v.op = "assign"
    BY <1>3, FreeAssignsViews
  <2>2. \A v \in ViewsAt(new) : v.op = "assign" \/ v \in Views(b)
    <3>1. CASE s.op = "ite"
      BY <1>5, <1>6, <1>7, <3>1 DEF ViewsAt, Kept
    <3>2. CASE s.op # "ite"
      BY <1>6, <1>7, <3>2
    <3> QED
      BY <3>1, <3>2
  <2>3. \A v \in Views(rest) : v.op = "assign" \/ v \in Views(b)
    BY <1>5, <1>7 DEF Kept
  <2> QED
    BY <1>10, <1>11, <2>1, <2>2, <2>3
<1>13. ASSUME AllFine(b) PROVE AllFine(o)
  <2>1. Fine(s) /\ AllFine(Tail(b))
    <3>1. 1 \in DOMAIN b /\ s = b[1]
      BY EmptySeq, LenProperties, HeadTailProperties DEF Code, s
    <3>2. \A i \in DOMAIN Tail(b) : i + 1 \in DOMAIN b /\ Tail(b)[i] = b[i + 1]
      <4>1. b \in Seq(StmtsTo[MaxCodeDepth])
        BY DEF Code
      <4> QED
        BY <4>1
    <3> QED
      BY <1>13, <3>1, <3>2 DEF AllFine
  <2>2. Fine(new)
    <3>1. CASE s.op = "ite"
      <4>1. ~Unwritable[s.then] /\ ~Unwritable[s.else]
        BY <2>1, <3>1 DEF Fine
      <4>2. ~Unwritable[x] /\ ~Unwritable[y]
        BY <1>1, <1>4, <1>5, <4>1, KeptWritable
      <4> QED
        BY <1>6, <2>1, <3>1, <4>2 DEF Fine
    <3>2. CASE s.op # "ite"
      BY <1>6, <2>1, <3>2
    <3> QED
      BY <3>1, <3>2
  <2>3. AllFine(m)
    BY <1>8, <2>2 DEF AllFine
  <2>4. AllFine(d)
    BY <1>3, <1>8, <2>3, AllFineConcat DEF d
  <2>5. AllFine(rest)
    BY <1>5, <2>1 DEF Kept
  <2> QED
    BY <1>4, <1>10, <2>4, <2>5, AllFineConcat
<1>14. o # <<>> /\ Last(o).op = Last(b).op
  <2>1. CASE Tail(b) = <<>>
    <3>1. rest = <<>>
      BY <1>1, <1>4, <2>1, InitTablesParts, EmptyNoDeeper, <1>3 DEF rest
    <3>2. o = d
      BY <1>10, <3>1, ConcatEmptySeq DEF Code
    <3>3. Last(b) = s
      <4>1. Len(b) = 1
        <5>1. b \in Seq(StmtsTo[MaxCodeDepth])
          BY DEF Code
        <5>2. Len(b) \in Nat /\ Len(Tail(b)) = Len(b) - 1
          BY <5>1, HeadTailProperties, LenProperties
        <5>3. Len(Tail(b)) = 0
          <6>1. Tail(b) \in Seq(StmtsTo[MaxCodeDepth])
            BY <1>1 DEF Code
          <6> HIDE DEF d, c
          <6> QED
            BY <2>1, <6>1, EmptySeq
        <5>4. \A k \in Nat : k - 1 = 0 => k = 1
          OBVIOUS
        <5> QED
          BY <5>2, <5>3, <5>4
      <4> QED
        BY <4>1, HeadTailProperties DEF Last, s, Code
    <3> QED
      BY <1>6, <1>10, <3>2, <3>3
  <2>2. CASE Tail(b) # <<>>
    <3>1. rest # <<>> /\ Last(rest).op = Last(Tail(b)).op
      BY <1>5, <2>2 DEF Kept
    <3>2. o # <<>> /\ Last(o) = Last(rest)
      <4>1. d \in Seq(StmtsTo[MaxCodeDepth]) /\ rest \in Seq(StmtsTo[MaxCodeDepth])
        BY <1>4, <1>10 DEF Code
      <4> QED
        BY <3>1, <4>1, LastConcat
    <3>3. Last(b) = Last(Tail(b))
      <4>1. b \in Seq(StmtsTo[MaxCodeDepth]) /\ Tail(b) \in Seq(StmtsTo[MaxCodeDepth]) /\ Len(Tail(b)) # 0
        BY <1>1, <2>2, EmptySeq DEF Code
      <4>2. Len(b) = Len(Tail(b)) + 1 /\ Len(Tail(b)) \in 1 .. Len(Tail(b))
        <5>1. Len(b) \in Nat /\ Len(Tail(b)) \in Nat /\ Len(Tail(b)) = Len(b) - 1
          BY <4>1, HeadTailProperties, LenProperties
        <5>2. \A k \in Nat : \A l \in Nat : l = k - 1 /\ l # 0 => k = l + 1 /\ l \in 1 .. l
          OBVIOUS
        <5> QED
          BY <4>1, <5>1, <5>2
      <4>3. \A i \in 1 .. Len(Tail(b)) : Tail(b)[i] = b[i + 1]
        BY <4>1
      <4> QED
        BY <4>2, <4>3 DEF Last
    <3> QED
      BY <3>1, <3>2, <3>3
  <2> QED
    BY <2>1, <2>2
<1>15. Kept(b, o)
  <2> HIDE DEF o
  <2> QED
    BY <1>12, <1>13, <1>14 DEF Kept
<1>16. o = c
  BY DEF d, m
<1> QED
  BY <1>2, <1>15, <1>16

\* InitTables adds nothing but assignments of empty tables.
LEMMA InitTablesKeeps == \A b \in Code, done \in SUBSET Idents : Kept(b, InitTables[<<b, done>>])
<1> DEFINE S == {b \in Code : \A done \in SUBSET Idents : Kept(b, InitTables[<<b, done>>])}
<1>1. <<>> \in S
  <2> SUFFICES ASSUME NEW done \in SUBSET Idents PROVE Kept(<<>>, InitTables[<<<<>>, done>>])
    BY SizeEmpty
  <2>1. <<<<>>, done>> \in InitIn
    BY SizeEmpty DEF InitIn
  <2>2. InitTables[<<<<>>, done>>] = InitTablesOf(InitTables, <<<<>>, done>>)
    BY <2>1, InitTablesUnfold
  <2>3. InitTables[<<<<>>, done>>] = <<>>
    BY <2>2 DEF InitTablesOf
  <2> QED
    BY <2>3, ViewsEmpty DEF Kept
<1>2. ASSUME NEW b \in Code, b # <<>>, Head(b).then \in S, Head(b).else \in S, Tail(b) \in S PROVE b \in S
  BY <1>2, InitTablesStep
<1>3. Code \subseteq S
  <2> HIDE DEF S
  <2> QED
    BY <1>1, <1>2, CodeInduction
<1> QED
  BY <1>3

-----------------------------------------------------------------------------
(* What expressions read.                                                    *)

OwnName(e) == IF e.op \in {"var", "get"} THEN {e.name} ELSE {}
NamesOf(f, exprs) ==
  UNION {(IF e.op \in {"var", "get"} THEN {e.name} ELSE {}) \cup f[e.args] : e \in Range(exprs)}

\* What is in a sequence.
LEMMA RangeIs ==
  ASSUME NEW S, NEW q \in Seq(S)
  PROVE  /\ \A x : x \in Range(q) <=> \E i \in DOMAIN q : x = q[i]
         /\ Range(q) \subseteq S
<1>1. \A i \in DOMAIN q : q[i] \in S
  BY ElementOfSeq, LenProperties
<1> QED
  BY <1>1 DEF Range

\* Names is total, and its definition holds everywhere.
LEMMA NamesUnfold ==
  /\ Names \in [Seq(Exprs) -> SUBSET Idents]
  /\ \A exprs \in Seq(Exprs) : Names[exprs] = NamesOf(Names, exprs)
<1> DEFINE T == Seq(Exprs)
           V == [x \in T |-> SUBSET Idents]
           E == [p \in T \X Typed(T, V) |-> NamesOf(p[2], p[1])]
<1>1. \A x \in T, g \in Typed(T, V) : E[<<x, g>>] = NamesOf(g, x)
  OBVIOUS
<1>2. \A x \in T : V[x] = SUBSET Idents
  OBVIOUS
<1>10. \A x \in T : \A e \in Range(x) : /\ e \in Exprs /\ e.args \in T
                                        /\ Below(ExprsRank[e.args], ExprsRank[x])
  BY RangeIs, ExprsParts
<1>3. ASSUME NEW x \in T, NEW g, NEW h, AgreeBelow(T, ExprsRank, g, h, x) PROVE NamesOf(g, x) = NamesOf(h, x)
  <2>1. \A e \in Range(x) : g[e.args] = h[e.args]
    BY <1>3, <1>10 DEF AgreeBelow
  <2> QED
    BY <2>1 DEF NamesOf
<1>4. ASSUME NEW x \in T, NEW g \in Typed(T, V) PROVE NamesOf(g, x) \in SUBSET Idents
  <2>1. \A es \in T : g[es] \in SUBSET Idents
    BY <1>2 DEF Typed
  <2>2. \A e \in Exprs : e.name \in Idents
    BY DepthAssumption, ExprsIn DEF Exprs
  <2> QED
    BY <1>10, <2>1, <2>2 DEF NamesOf
<1> HIDE DEF T, V, E
<1>5. Recurses(T, ExprsRank, V, E)
  <2>1. ExprsRank \in [T -> Nat \X Nat]
    BY CodeRankType DEF T
  <2>2. \A x \in T : V[x] # {}
    BY <1>2
  <2>3. \A x \in T, g \in Typed(T, V) : E[<<x, g>>] \in V[x]
    BY <1>1, <1>2, <1>4
  <2>4. \A x \in T : \A g, h \in Typed(T, V) : AgreeBelow(T, ExprsRank, g, h, x) => E[<<x, g>>] = E[<<x, h>>]
    BY <1>1, <1>3
  <2> QED
    BY <2>1, <2>2, <2>3, <2>4 DEF Recurses
<1>6. PICK f \in Typed(T, V) : f = [x \in T |-> E[<<x, f>>]]
  BY <1>5, RecursionExists
<1>7. f = [x \in T |-> NamesOf(f, x)]
  BY <1>1, <1>6
<1>8. Names = [x \in T |-> NamesOf(Names, x)]
  BY <1>7 DEF Names, NamesOf, T
<1>9. Names \in Typed(T, V)
  <2>1. Names = [x \in T |-> Names[x]]
    BY <1>8
  <2>2. \A x \in T : Names[x] = NamesOf(Names, x)
    BY <1>8
  <2> QED
    BY <1>1, <1>3, <1>5, <2>1, <2>2, RecursionTyped
<1> QED
  BY <1>2, <1>8, <1>9 DEF Typed, T

\* The names an expression reads are its own and those of its arguments.
LEMMA NamesIs ==
  ASSUME NEW es \in Seq(Exprs)
  PROVE  /\ Names[es] \subseteq Idents
         /\ \A x : x \in Names[es] <=> \E i \in DOMAIN es : x \in OwnName(es[i]) \/ x \in Names[es[i].args]
<1>1. Names[es] = NamesOf(Names, es)
  BY NamesUnfold
<1>2. \A x : x \in Names[es] <=> \E e \in Range(es) : x \in OwnName(e) \/ x \in Names[e.args]
  BY <1>1 DEF NamesOf, OwnName
<1> QED
  BY <1>2, RangeIs, NamesUnfold

\* No expression reads nothing; one, and two lists, read what is in them.
LEMMA NamesEmpty == <<>> \in Seq(Exprs) /\ Names[<<>>] = {}
<1>1. <<>> \in Seq(Exprs) /\ DOMAIN <<>> = {}
  OBVIOUS
<1> QED
  BY <1>1, NamesIs

LEMMA NamesOne ==
  ASSUME NEW e \in Exprs
  PROVE  <<e>> \in Seq(Exprs) /\ e.args \in Seq(Exprs) /\ Names[<<e>>] = OwnName(e) \cup Names[e.args]
<1>1. <<e>> \in Seq(Exprs)
  BY OneSeq
<1>2. DOMAIN <<e>> = {1} /\ <<e>>[1] = e
  BY <1>1
<1> DEFINE c == <<e>>
<1> HIDE DEF c
<1>3. c \in Seq(Exprs) /\ DOMAIN c = {1} /\ c[1] = e
  BY <1>1, <1>2 DEF c
<1>4. \A x : x \in Names[c] <=> x \in OwnName(e) \/ x \in Names[e.args]
  BY <1>3, NamesIs
<1>5. e.args \in Seq(Exprs)
  BY <1>3, ExprsParts
<1>6. Names[c] = OwnName(e) \cup Names[e.args]
  BY <1>4
<1> QED
  BY <1>1, <1>5, <1>6 DEF c

LEMMA NamesConcat ==
  ASSUME NEW a \in Seq(Exprs), NEW b \in Seq(Exprs)
  PROVE  a \o b \in Seq(Exprs) /\ Names[a \o b] = Names[a] \cup Names[b]
<1> DEFINE c == a \o b
<1>1. c \in Seq(Exprs) /\ Joined(a, b, c)
  BY ConcatPositions
<1> HIDE DEF c
<1>5. ASSUME NEW x PROVE x \in Names[c] <=> x \in Names[a] \/ x \in Names[b]
  <2> DEFINE P(e) == x \in OwnName(e) \/ x \in Names[e.args]
  <2>1. x \in Names[a] <=> \E i \in DOMAIN a : P(a[i])
    BY NamesIs
  <2>2. x \in Names[b] <=> \E i \in DOMAIN b : P(b[i])
    BY NamesIs
  <2>3. x \in Names[c] <=> \E i \in DOMAIN c : P(c[i])
    BY <1>1, NamesIs
  <2> HIDE DEF P
  <2>4. (\E i \in DOMAIN c : P(c[i])) <=> (\E i \in DOMAIN a : P(a[i])) \/ (\E i \in DOMAIN b : P(b[i]))
    BY <1>1 DEF Joined
  <2> QED
    BY <2>1, <2>2, <2>3, <2>4
<1>6. Names[c] = Names[a] \cup Names[b]
  BY <1>5
<1> QED
  BY <1>1, <1>6 DEF c

-----------------------------------------------------------------------------
(* Flow.                                                                     *)

\* What a statement makes of a flow, when f is what its blocks make of it.
AfterOf(f, s, a) ==
  IF s.op = "ite" THEN Join(f[<<s.then, Reading(s, a)>>], f[<<s.else, Reading(s, a)>>])
  ELSE Assigning(s, Reading(s, a))
FlowOf(f, in) ==
  IF in[1] = <<>> \/ in[2].ended THEN in[2]
  ELSE f[<<Tail(in[1]), AfterOf(f, Head(in[1]), in[2])>>]

FlowIn == Code \X Flows
FlowOut == [in \in FlowIn |-> Flows]

\* The fields of a statement of any depth.
LEMMA StmtType ==
  ASSUME NEW s \in AnyStmt
  PROVE  /\ s.op \in Kinds /\ s.to \in Seq(Idents) /\ s.idx \in Seq(Exprs) /\ s.args \in Seq(Exprs)
         /\ s.then \in Code /\ s.else \in Code /\ HasShape(s)
         /\ s.name \in Idents /\ s.id \in Int /\ s.target \in Instances \cup {""}
<1>1. MaxCodeDepth \in Nat /\ MaxCodeDepth - 1 \in Nat /\ MaxCodeDepth - 1 <= MaxCodeDepth
  BY DepthAssumption
<1>2. /\ s \in [op : Kinds, to : Seq(Idents), idx : Seq(Exprs), args : Seq(Exprs),
                then : Seq(StmtsTo[MaxCodeDepth - 1]), else : Seq(StmtsTo[MaxCodeDepth - 1]),
                name : Idents, id : Int, target : Instances \cup {""}, span : Nat]
      /\ HasShape(s)
  BY <1>1, StmtsIn DEF AnyStmt
<1>3. Seq(StmtsTo[MaxCodeDepth - 1]) \subseteq Code
  BY <1>1, TreesGrow DEF Code
<1> QED
  BY <1>2, <1>3

\* Reading and assigning, field by field.
LEMMA ReadingIs ==
  ASSUME NEW s, NEW a \in Flows
  PROVE  /\ Reading(s, a) \in Flows
         /\ Reading(s, a).ok <=> a.ok /\ Reads(s) \subseteq a.names
         /\ Reading(s, a).ended = a.ended /\ Reading(s, a).names = a.names
BY DEF Reading, Flows

\* What it assigns is known after a statement, and a return or an abort ends.
LEMMA AssigningIs ==
  ASSUME NEW s \in AnyStmt, NEW a \in Flows
  PROVE  /\ Assigning(s, a) \in Flows
         /\ Assigning(s, a).ok = a.ok
         /\ Assigning(s, a).ended <=> s.op \in {"return", "abort"}
         /\ Assigning(s, a).names = a.names \cup (Range(s.to) \ {Ident("_")})
<1> DEFINE to == Range(s.to) \ {Ident("_")}
           t == Assigning(s, a)
<1>1. to \subseteq Idents
  BY StmtType, RangeIs
<1> HIDE DEF to
<1>2. t = [a EXCEPT !.ended = s.op \in {"return", "abort"}, !.names = @ \cup to]
  BY DEF Assigning, to
<1>3. a = [ok |-> a.ok, ended |-> a.ended, names |-> a.names] /\ a.ok \in BOOLEAN /\ a.names \in SUBSET Idents
  BY DEF Flows
<1> HIDE DEF t
<1>4. t = [ok |-> a.ok, ended |-> s.op \in {"return", "abort"}, names |-> a.names \cup to]
  BY <1>2, <1>3
<1>5. a.names \cup to \in SUBSET Idents
  BY <1>1, <1>3
<1>6. t.ok = a.ok
  BY <1>4
<1>7. t.ended <=> s.op \in {"return", "abort"}
  BY <1>4
<1>8. t.names = a.names \cup to
  BY <1>4
<1>9. t \in Flows
  BY <1>3, <1>4, <1>5 DEF Flows
<1> QED
  BY <1>6, <1>7, <1>8, <1>9 DEF t, to

\* After a conditional is known what both branches that go on assigned.
LEMMA JoinIs ==
  ASSUME NEW t \in Flows, NEW e \in Flows
  PROVE  /\ Join(t, e) \in Flows
         /\ Join(t, e).ok <=> t.ok /\ e.ok
         /\ Join(t, e).ended <=> t.ended /\ e.ended
         /\ Join(t, e).names = IF t.ended THEN e.names ELSE IF e.ended THEN t.names ELSE t.names \cap e.names
BY DEF Join, Flows

\* Flow is total, and its definition holds everywhere.
LEMMA FlowUnfold ==
  /\ Flow \in [FlowIn -> Flows]
  /\ \A in \in FlowIn : Flow[in] = FlowOf(Flow, in)
<1> DEFINE T == FlowIn
           V == FlowOut
           rk == FirstRank(T)
           E == [p \in T \X Typed(T, V) |-> FlowOf(p[2], p[1])]
<1>1. \A x \in T, g \in Typed(T, V) : E[<<x, g>>] = FlowOf(g, x)
  OBVIOUS
<1>2. \A x \in T : V[x] = Flows
  BY DEF FlowOut
<1>9. ASSUME NEW b \in Code, b # <<>>, NEW a \in Flows, NEW g \in Typed(T, V)
      PROVE  /\ Reading(Head(b), a) \in Flows /\ AfterOf(g, Head(b), a) \in Flows
             /\ FlowOf(g, <<b, a>>) \in Flows
  <2>1. \A d \in Code, k \in Flows : g[<<d, k>>] \in Flows
    BY DEF Typed, FlowIn, FlowOut
  <2>2. Head(b) \in AnyStmt /\ Tail(b) \in Code
    BY <1>9, HeadParts
  <2>3. Reading(Head(b), a) \in Flows
    BY ReadingIs
  <2>4. AfterOf(g, Head(b), a) \in Flows
    <3> DEFINE s == Head(b)
               r == Reading(s, a)
    <3>1. s.then \in Code /\ s.else \in Code /\ s \in AnyStmt /\ r \in Flows
      BY <2>2, <2>3, StmtType
    <3> HIDE DEF s, r
    <3>2. g[<<s.then, r>>] \in Flows /\ g[<<s.else, r>>] \in Flows
      BY <2>1, <3>1
    <3>3. Join(g[<<s.then, r>>], g[<<s.else, r>>]) \in Flows
      BY <3>2, JoinIs
    <3>4. Assigning(s, r) \in Flows
      BY <3>1, AssigningIs
    <3>5. AfterOf(g, s, a) \in Flows
      BY <3>3, <3>4 DEF AfterOf, r
    <3> QED
      BY <3>5 DEF s
  <2> QED
    BY <2>1, <2>2, <2>3, <2>4 DEF FlowOf
<1>3. ASSUME NEW x \in T, NEW g \in Typed(T, V), NEW h, AgreeBelow(T, rk, g, h, x)
      PROVE  FlowOf(g, x) = FlowOf(h, x)
  <2>1. PICK b \in Code, a \in Flows : x = <<b, a>>
    BY DEF FlowIn
  <2>2. CASE b = <<>>
    BY <2>1, <2>2 DEF FlowOf
  <2>3. CASE b # <<>>
    <3>1. \A d \in Code, k \in Flows : Below(CodeRank[d], CodeRank[b]) => g[<<d, k>>] = h[<<d, k>>]
      BY <1>3, <2>1, FirstRankType DEF AgreeBelow, FlowIn
    <3>2. Reading(Head(b), a) \in Flows /\ AfterOf(g, Head(b), a) \in Flows
      BY <1>9, <2>3
    <3>3. AfterOf(g, Head(b), a) = AfterOf(h, Head(b), a)
      BY <2>3, <3>1, <3>2, HeadParts DEF AfterOf
    <3>4. g[<<Tail(b), AfterOf(g, Head(b), a)>>] = h[<<Tail(b), AfterOf(h, Head(b), a)>>]
      BY <2>3, <3>1, <3>2, <3>3, HeadParts
    <3> QED
      BY <2>1, <3>4 DEF FlowOf
  <2> QED
    BY <2>2, <2>3
<1>4. ASSUME NEW x \in T, NEW g \in Typed(T, V) PROVE FlowOf(g, x) \in Flows
  <2>1. PICK b \in Code, a \in Flows : x = <<b, a>>
    BY DEF FlowIn
  <2>2. CASE b = <<>>
    BY <2>1, <2>2 DEF FlowOf
  <2> QED
    BY <1>9, <2>1, <2>2
<1>10. \A x \in T : V[x] # {}
  <2>1. [ok |-> TRUE, ended |-> TRUE, names |-> {}] \in Flows
    BY DEF Flows
  <2> QED
    BY <1>2, <2>1
<1> HIDE DEF T, V, E, rk
<1>5. Recurses(T, rk, V, E)
  <2>1. \A x \in T, g \in Typed(T, V) : E[<<x, g>>] \in V[x]
    BY <1>1, <1>2, <1>4
  <2>2. \A x \in T : \A g, h \in Typed(T, V) : AgreeBelow(T, rk, g, h, x) => E[<<x, g>>] = E[<<x, h>>]
    BY <1>1, <1>3
  <2>3. rk \in [T -> Nat \X Nat]
    BY FirstRankType DEF FlowIn, T, rk
  <2> QED
    BY <1>10, <2>1, <2>2, <2>3 DEF Recurses
<1>6. PICK f \in Typed(T, V) : f = [x \in T |-> E[<<x, f>>]]
  BY <1>5, RecursionExists
<1>7. f = [x \in T |-> FlowOf(f, x)]
  BY <1>1, <1>6
<1>8. Flow = [x \in T |-> FlowOf(Flow, x)]
  BY <1>7 DEF Flow, FlowOf, AfterOf, T, FlowIn
<1>11. Flow \in Typed(T, V)
  <2>1. Flow = [x \in T |-> Flow[x]]
    BY <1>8
  <2>2. \A x \in T : Flow[x] = FlowOf(Flow, x)
    BY <1>8
  <2> QED
    BY <1>1, <1>3, <1>5, <2>1, <2>2, RecursionTyped
<1> QED
  BY <1>2, <1>8, <1>11 DEF Typed, T

\* What a statement makes of a flow.
FlowAfter(s, a) == IF a.ended THEN a ELSE AfterOf(Flow, s, a)

\* A flow again.
LEMMA AfterType ==
  ASSUME NEW s \in AnyStmt, NEW a \in Flows
  PROVE  /\ FlowAfter(s, a) \in Flows
         /\ Flow[<<s.then, Reading(s, a)>>] \in Flows /\ Flow[<<s.else, Reading(s, a)>>] \in Flows
<1> DEFINE r == Reading(s, a)
<1>1. s.then \in Code /\ s.else \in Code /\ r \in Flows
  BY StmtType, ReadingIs
<1> HIDE DEF r
<1>2. Flow[<<s.then, r>>] \in Flows /\ Flow[<<s.else, r>>] \in Flows
  BY <1>1, FlowUnfold DEF FlowIn
<1>3. Join(Flow[<<s.then, r>>], Flow[<<s.else, r>>]) \in Flows
  BY <1>2, JoinIs
<1>4. Assigning(s, r) \in Flows
  BY <1>1, AssigningIs
<1>5. AfterOf(Flow, s, a) \in Flows
  BY <1>3, <1>4 DEF AfterOf, r
<1> QED
  BY <1>2, <1>5 DEF FlowAfter, r

\* The flow of code, statement by statement.
LEMMA FlowEnd ==
  ASSUME NEW b \in Code, NEW a \in Flows, b = <<>> \/ a.ended
  PROVE  Flow[<<b, a>>] = a
<1>1. <<b, a>> \in FlowIn
  BY DEF FlowIn
<1> QED
  BY <1>1, FlowUnfold DEF FlowOf

\* The flow of code goes on after its first statement.
LEMMA FlowStep ==
  ASSUME NEW b \in Code, b # <<>>, NEW a \in Flows
  PROVE  /\ Head(b) \in AnyStmt /\ Tail(b) \in Code /\ FlowAfter(Head(b), a) \in Flows
         /\ Flow[<<b, a>>] = Flow[<<Tail(b), FlowAfter(Head(b), a)>>]
         /\ Flow[<<b, a>>] \in Flows
<1>1. Head(b) \in AnyStmt /\ Tail(b) \in Code
  BY HeadParts
<1>2. <<b, a>> \in FlowIn
  BY DEF FlowIn
<1>3. FlowAfter(Head(b), a) \in Flows
  BY <1>1, AfterType
<1>4. CASE a.ended
  BY <1>1, <1>4, FlowEnd DEF FlowAfter
<1>5. CASE ~a.ended
  BY <1>1, <1>2, <1>3, <1>5, FlowUnfold DEF FlowOf, FlowAfter
<1> QED
  BY <1>1, <1>2, <1>3, <1>4, <1>5, FlowUnfold

LEMMA FlowType == \A b \in Code, a \in Flows : Flow[<<b, a>>] \in Flows
BY FlowUnfold DEF FlowIn

\* A fault stays one.
LEMMA FlowOk == \A b \in Code, a \in Flows : Flow[<<b, a>>].ok => a.ok
<1> DEFINE S == {b \in Code : \A a \in Flows : Flow[<<b, a>>].ok => a.ok}
<1>1. <<>> \in S
  BY FlowEnd, SizeEmpty
<1>2. ASSUME NEW b \in Code, b # <<>>, Head(b).then \in S, Head(b).else \in S, Tail(b) \in S
      PROVE  b \in S
  <2> SUFFICES ASSUME NEW a \in Flows, Flow[<<b, a>>].ok PROVE a.ok
    BY <1>2
  <2> DEFINE s == Head(b)
             r == Reading(s, a)
  <2>1. s \in AnyStmt /\ FlowAfter(s, a) \in Flows /\ FlowAfter(s, a).ok
    BY <1>2, FlowStep
  <2>2. r \in Flows /\ (r.ok => a.ok)
    BY ReadingIs
  <2>3. Flow[<<s.then, r>>].ok => r.ok
    BY <1>2, <2>2
  <2>4. /\ Flow[<<s.then, r>>] \in Flows /\ Flow[<<s.else, r>>] \in Flows
    BY <2>1, AfterType
  <2>5. Join(Flow[<<s.then, r>>], Flow[<<s.else, r>>]).ok => Flow[<<s.then, r>>].ok
    BY <2>4, JoinIs
  <2>6. Assigning(s, r).ok => r.ok
    BY <2>1, <2>2, AssigningIs
  <2> QED
    BY <2>1, <2>2, <2>3, <2>5, <2>6 DEF FlowAfter, AfterOf
<1> HIDE DEF S
<1>3. Code \subseteq S
  BY <1>1, <1>2, CodeInduction
<1>4. ASSUME NEW b \in Code PROVE \A a \in Flows : Flow[<<b, a>>].ok => a.ok
  BY <1>3 DEF S
<1> QED
  BY <1>4

\* If the flow is without fault after a statement, its expressions were in order.
LEMMA AfterOk ==
  ASSUME NEW s \in AnyStmt, NEW a \in Flows, FlowAfter(s, a).ok
  PROVE  /\ a.ok
         /\ ~a.ended => Reading(s, a).ok
         /\ ~a.ended /\ s.op = "ite" => Flow[<<s.then, Reading(s, a)>>].ok /\ Flow[<<s.else, Reading(s, a)>>].ok
<1> DEFINE r == Reading(s, a)
<1>1. r \in Flows /\ (r.ok => a.ok) /\ s.then \in Code
  BY ReadingIs, StmtType
<1>2. Flow[<<s.then, r>>] \in Flows /\ Flow[<<s.else, r>>] \in Flows
  BY AfterType
<1>3. CASE ~a.ended /\ s.op = "ite"
  <2>1. Join(Flow[<<s.then, r>>], Flow[<<s.else, r>>]).ok
    BY <1>3 DEF FlowAfter, AfterOf
  <2>2. Flow[<<s.then, r>>].ok /\ Flow[<<s.else, r>>].ok
    BY <1>2, <2>1, JoinIs
  <2>3. r.ok
    BY <1>1, <2>2, FlowOk
  <2> QED
    BY <1>1, <2>2, <2>3
<1>4. CASE ~a.ended /\ s.op # "ite"
  <2>1. Assigning(s, r).ok
    BY <1>4 DEF FlowAfter, AfterOf
  <2>2. r.ok
    BY <1>1, <2>1, AssigningIs
  <2> QED
    BY <1>1, <1>4, <2>2
<1>5. CASE a.ended
  BY <1>5 DEF FlowAfter
<1> QED
  BY <1>3, <1>4, <1>5

-----------------------------------------------------------------------------
(* Code that knows no less than other code.                                  *)

Better(x, y) == (x.ok => y.ok) /\ (x.ended => y.ended) /\ (y.ended \/ x.names \subseteq y.names)
FlowKept(b, c) == \A x, y \in Flows : Better(x, y) => Better(Flow[<<b, x>>], Flow[<<c, y>>])

\* Better is an order.
LEMMA BetterOrder ==
  /\ \A x \in Flows : Better(x, x)
  /\ \A x, y, z \in Flows : Better(x, y) /\ Better(y, z) => Better(x, z)
BY DEF Better

\* Joining keeps the order, and is the greatest lower bound.
LEMMA JoinBetter ==
  ASSUME NEW t \in Flows, NEW e \in Flows, NEW u \in Flows, NEW v \in Flows, NEW x \in Flows
  PROVE  /\ Better(t, u) /\ Better(e, v) => Better(Join(t, e), Join(u, v))
         /\ Better(Join(t, e), t) /\ Better(Join(t, e), e)
         /\ Better(x, u) /\ Better(x, v) => Better(x, Join(u, v))
<1> DEFINE p == Join(t, e)
           q == Join(u, v)
<1>1. /\ p.ok <=> t.ok /\ e.ok
      /\ p.ended <=> t.ended /\ e.ended
      /\ p.names = IF t.ended THEN e.names ELSE IF e.ended THEN t.names ELSE t.names \cap e.names
  BY JoinIs
<1>2. /\ q.ok <=> u.ok /\ v.ok
      /\ q.ended <=> u.ended /\ v.ended
      /\ q.names = IF u.ended THEN v.names ELSE IF v.ended THEN u.names ELSE u.names \cap v.names
  BY JoinIs
<1> HIDE DEF p, q
<1>3. Better(t, u) /\ Better(e, v) => Better(p, q)
  BY <1>1, <1>2 DEF Better
<1>4. Better(p, t) /\ Better(p, e)
  BY <1>1 DEF Better
<1>5. Better(x, u) /\ Better(x, v) => Better(x, q)
  BY <1>2 DEF Better
<1> QED
  BY <1>3, <1>4, <1>5 DEF p, q

\* A statement that assigns the same and reads no more.
LEMMA AfterBetter ==
  ASSUME NEW s \in AnyStmt, NEW t \in AnyStmt, NEW x \in Flows, NEW y \in Flows,
         x.ended => y.ended, y.ended \/ x.names \subseteq y.names, y.ended /\ x.ok => y.ok,
         t.op = s.op, t.to = s.to,
         ~x.ended /\ ~y.ended => (Reading(s, x).ok => Reading(t, y).ok),
         s.op = "ite" => FlowKept(s.then, t.then) /\ FlowKept(s.else, t.else)
  PROVE  Better(FlowAfter(s, x), FlowAfter(t, y))
<1>1. CASE y.ended
  <2>1. FlowAfter(t, y) = y
    BY <1>1 DEF FlowAfter
  <2>2. FlowAfter(s, x).ok => x.ok
    BY AfterOk
  <2> QED
    BY <1>1, <2>1, <2>2 DEF Better
<1>2. CASE ~y.ended
  <2> DEFINE r == Reading(s, x)
             q == Reading(t, y)
  <2>1. ~x.ended /\ x.names \subseteq y.names
    BY <1>2 DEF Better
  <2>2. /\ r \in Flows /\ q \in Flows /\ r.ended = x.ended /\ q.ended = y.ended
        /\ r.names = x.names /\ q.names = y.names
    BY ReadingIs
  <2>3. r.ok => q.ok
    BY <1>2, <2>1
  <2>4. FlowAfter(s, x) = AfterOf(Flow, s, x) /\ FlowAfter(t, y) = AfterOf(Flow, t, y)
    BY <1>2, <2>1 DEF FlowAfter
  <2>5. /\ Flow[<<s.then, r>>] \in Flows /\ Flow[<<s.else, r>>] \in Flows
        /\ Flow[<<t.then, q>>] \in Flows /\ Flow[<<t.else, q>>] \in Flows
    BY AfterType
  <2>9. /\ AfterOf(Flow, s, x) = IF s.op = "ite" THEN Join(Flow[<<s.then, r>>], Flow[<<s.else, r>>]) ELSE Assigning(s, r)
        /\ AfterOf(Flow, t, y) = IF t.op = "ite" THEN Join(Flow[<<t.then, q>>], Flow[<<t.else, q>>]) ELSE Assigning(t, q)
    BY DEF AfterOf
  <2> HIDE DEF r, q
  <2>6. Better(r, q)
    BY <2>1, <2>2, <2>3 DEF Better
  <2>7. CASE s.op = "ite"
    <3>1. Better(Flow[<<s.then, r>>], Flow[<<t.then, q>>]) /\ Better(Flow[<<s.else, r>>], Flow[<<t.else, q>>])
      BY <2>2, <2>6, <2>7 DEF FlowKept
    <3>2. Better(Join(Flow[<<s.then, r>>], Flow[<<s.else, r>>]), Join(Flow[<<t.then, q>>], Flow[<<t.else, q>>]))
      BY <2>5, <3>1, JoinBetter
    <3> QED
      BY <2>4, <2>7, <2>9, <3>2
  <2>8. CASE s.op # "ite"
    <3>1. Better(Assigning(s, r), Assigning(t, q))
      <4> DEFINE m == Assigning(s, r)
                 n == Assigning(t, q)
      <4>1. m.ok = r.ok /\ (m.ended <=> s.op \in {"return", "abort"}) /\ m.names = r.names \cup (Range(s.to) \ {Ident("_")})
        BY <2>2, AssigningIs
      <4>2. n.ok = q.ok /\ (n.ended <=> t.op \in {"return", "abort"}) /\ n.names = q.names \cup (Range(t.to) \ {Ident("_")})
        BY <2>2, AssigningIs
      <4> HIDE DEF m, n
      <4>3. (m.ok => n.ok) /\ (m.ended => n.ended)
        BY <2>3, <4>1, <4>2
      <4>4. m.names \subseteq n.names
        BY <2>1, <2>2, <4>1, <4>2
      <4>5. Better(m, n)
        BY <4>3, <4>4 DEF Better
      <4> QED
        BY <4>5 DEF m, n
    <3> QED
      BY <2>4, <2>8, <2>9, <3>1
  <2> QED
    BY <2>7, <2>8
<1> QED
  BY <1>1, <1>2

\* Code after code takes up its flow.
LEMMA FlowConcat ==
  ASSUME NEW d \in Code
  PROVE  \A b \in Code, a \in Flows : b \o d \in Code /\ Flow[<<b \o d, a>>] = Flow[<<d, Flow[<<b, a>>]>>]
<1> DEFINE S == {b \in Code : \A a \in Flows : Flow[<<b \o d, a>>] = Flow[<<d, Flow[<<b, a>>]>>]}
<1>1. <<>> \in S
  <2>1. <<>> \o d = d
    BY ConcatEmptySeq DEF Code
  <2>2. \A a \in Flows : Flow[<<<<>>, a>>] = a
    BY FlowEnd, SizeEmpty
  <2> QED
    BY <2>1, <2>2, SizeEmpty
<1>2. ASSUME NEW b \in Code, b # <<>>, Tail(b) \in S PROVE b \in S
  <2> SUFFICES ASSUME NEW a \in Flows PROVE Flow[<<b \o d, a>>] = Flow[<<d, Flow[<<b, a>>]>>]
    OBVIOUS
  <2>1. b \o d # <<>> /\ Head(b \o d) = Head(b) /\ Tail(b \o d) = Tail(b) \o d /\ b \o d \in Code
    BY <1>2, ConcatParts, CodeConcat DEF Code
  <2> DEFINE n == FlowAfter(Head(b), a)
  <2>2. n \in Flows /\ Flow[<<b, a>>] = Flow[<<Tail(b), n>>]
    BY <1>2, FlowStep
  <2>3. Flow[<<b \o d, a>>] = Flow[<<Tail(b) \o d, n>>]
    BY <2>1, FlowStep
  <2> HIDE DEF n
  <2>4. Flow[<<Tail(b) \o d, n>>] = Flow[<<d, Flow[<<Tail(b), n>>]>>]
    BY <1>2, <2>2
  <2> QED
    BY <2>2, <2>3, <2>4
<1> HIDE DEF S
<1>3. Code \subseteq S
  BY <1>1, <1>2, TailInduction
<1>4. ASSUME NEW b \in Code PROVE \A a \in Flows : Flow[<<b \o d, a>>] = Flow[<<d, Flow[<<b, a>>]>>]
  BY <1>3 DEF S
<1> QED
  BY <1>4, CodeConcat

\* The flow of one statement, and of the statements before it or after it.
LEMMA FlowOne ==
  ASSUME NEW s \in AnyStmt
  PROVE  <<s>> \in Code /\ \A a \in Flows : Flow[<<<<s>>, a>>] = FlowAfter(s, a)
<1> DEFINE c == <<s>>
<1>1. c \in Code
  BY OneSeq DEF Code, AnyStmt
<1>2. c # <<>> /\ Head(c) = s /\ Tail(c) = <<>>
  OBVIOUS
<1> HIDE DEF c
<1>3. ASSUME NEW a \in Flows PROVE Flow[<<c, a>>] = FlowAfter(s, a)
  <2>1. Flow[<<c, a>>] = Flow[<<<<>>, FlowAfter(s, a)>>] /\ FlowAfter(s, a) \in Flows
    BY <1>1, <1>2, FlowStep
  <2> QED
    BY <2>1, FlowEnd, SizeEmpty
<1> QED
  BY <1>1, <1>3 DEF c

\* A block is its first statement and what follows.
LEMMA ConsOf ==
  ASSUME NEW S, NEW b \in Seq(S), b # <<>>
  PROVE  Head(b) \in S /\ Tail(b) \in Seq(S) /\ <<Head(b)>> \in Seq(S) /\ b = <<Head(b)>> \o Tail(b)
<1> DEFINE h == Head(b)
           c == <<h>> \o Tail(b)
<1>1. Len(b) \in Nat /\ Len(b) # 0
  BY EmptySeq, LenProperties
<1>2. /\ h \in S /\ h = b[1]
      /\ Tail(b) \in Seq(S) /\ Len(Tail(b)) = Len(b) - 1 /\ \A i \in 1 .. Len(b) - 1 : Tail(b)[i] = b[i + 1]
  BY <1>1, HeadTailProperties
<1> HIDE DEF h
<1>3. <<h>> \in Seq(S)
  BY <1>2, OneSeq
<1>4. /\ c \in Seq(S) /\ Len(c) = 1 + (Len(b) - 1)
      /\ \A i \in 1 .. Len(c) : c[i] = IF i <= 1 THEN h ELSE Tail(b)[i - 1]
  BY <1>2, ConcatProperties
<1> HIDE DEF c
<1>5. ASSUME NEW i \in 1 .. Len(b) PROVE b[i] = c[i]
  <2>1. CASE i = 1
    BY <1>1, <1>2, <1>4, <2>1
  <2>2. CASE i # 1
    <3>1. i - 1 \in 1 .. Len(b) - 1 /\ (i - 1) + 1 = i /\ ~(i <= 1) /\ i \in 1 .. Len(c)
      BY <1>1, <1>4, <2>2
    <3> QED
      BY <1>2, <1>4, <3>1
  <2> QED
    BY <2>1, <2>2
<1>6. Len(c) = Len(b)
  BY <1>1, <1>4
<1>7. b = c
  BY <1>1, <1>4, <1>5, <1>6, SeqEqual
<1> QED
  BY <1>2, <1>3, <1>7 DEF c, h

LEMMA HeadAndTail ==
  ASSUME NEW b \in Code, b # <<>>
  PROVE  <<Head(b)>> \in Code /\ Tail(b) \in Code /\ b = <<Head(b)>> \o Tail(b)
BY ConsOf DEF Code

\* FlowKept of two parts is that of the whole, and there is a chain of it.
LEMMA KeptConcat ==
  ASSUME NEW b \in Code, NEW c \in Code, NEW d \in Code, NEW e \in Code, FlowKept(b, c), FlowKept(d, e)
  PROVE  FlowKept(b \o d, c \o e)
<1> SUFFICES ASSUME NEW x \in Flows, NEW y \in Flows, Better(x, y)
             PROVE  Better(Flow[<<b \o d, x>>], Flow[<<c \o e, y>>])
  BY DEF FlowKept
<1>1. Better(Flow[<<b, x>>], Flow[<<c, y>>]) /\ Flow[<<b, x>>] \in Flows /\ Flow[<<c, y>>] \in Flows
  BY FlowType DEF FlowKept
<1>2. Better(Flow[<<d, Flow[<<b, x>>]>>], Flow[<<e, Flow[<<c, y>>]>>])
  BY <1>1 DEF FlowKept
<1> QED
  BY <1>2, FlowConcat

LEMMA KeptChain ==
  ASSUME NEW b \in Code, NEW c \in Code, NEW d \in Code, FlowKept(b, c), FlowKept(c, d)
  PROVE  FlowKept(b, d)
<1> SUFFICES ASSUME NEW x \in Flows, NEW y \in Flows, Better(x, y)
             PROVE  Better(Flow[<<b, x>>], Flow[<<d, y>>])
  BY DEF FlowKept
<1>1. Flow[<<b, x>>] \in Flows /\ Flow[<<c, y>>] \in Flows /\ Flow[<<d, y>>] \in Flows
  BY FlowType
<1>2. Better(y, y)
  BY BetterOrder
<1>3. Better(Flow[<<b, x>>], Flow[<<c, y>>]) /\ Better(Flow[<<c, y>>], Flow[<<d, y>>])
  BY <1>2 DEF FlowKept
<1> QED
  BY <1>1, <1>3, BetterOrder

\* A statement in place of another that assigns the same and reads no more.
LEMMA KeptStmt ==
  ASSUME NEW s \in AnyStmt, NEW t \in AnyStmt, t.op = s.op, t.to = s.to, Reads(t) \subseteq Reads(s),
         s.op = "ite" => FlowKept(s.then, t.then) /\ FlowKept(s.else, t.else)
  PROVE  FlowKept(<<s>>, <<t>>)
<1> SUFFICES ASSUME NEW x \in Flows, NEW y \in Flows, Better(x, y)
             PROVE  Better(Flow[<<<<s>>, x>>], Flow[<<<<t>>, y>>])
  BY DEF FlowKept
<1>1. ~x.ended /\ ~y.ended => (Reading(s, x).ok => Reading(t, y).ok)
  BY ReadingIs DEF Better
<1>2. Better(FlowAfter(s, x), FlowAfter(t, y))
  BY <1>1, AfterBetter DEF Better
<1> QED
  BY <1>2, FlowOne

LEMMA KeptFirst ==
  ASSUME NEW b \in Code, b # <<>>, NEW u \in Code, NEW c \in Code,
         FlowKept(<<Head(b)>>, u), FlowKept(Tail(b), c)
  PROVE  FlowKept(b, u \o c)
<1>1. FlowKept(<<Head(b)>> \o Tail(b), u \o c)
  BY HeadAndTail, KeptConcat
<1> QED
  BY <1>1, HeadAndTail

LEMMA KeptEmpty == FlowKept(<<>>, <<>>)
BY FlowEnd, SizeEmpty DEF FlowKept

\* Flow is monotone: all code is kept by itself.
LEMMA KeptItself == \A b \in Code : FlowKept(b, b)
<1> DEFINE S == {b \in Code : FlowKept(b, b)}
<1>1. <<>> \in S
  BY KeptEmpty, SizeEmpty
<1>2. ASSUME NEW b \in Code, b # <<>>, Head(b).then \in S, Head(b).else \in S, Tail(b) \in S
      PROVE  b \in S
  <2>1. Head(b) \in AnyStmt /\ <<Head(b)>> \in Code /\ Tail(b) \in Code /\ b = <<Head(b)>> \o Tail(b)
    BY <1>2, HeadAndTail, HeadParts
  <2>2. FlowKept(<<Head(b)>>, <<Head(b)>>)
    BY <1>2, <2>1, KeptStmt
  <2>3. FlowKept(b, <<Head(b)>> \o Tail(b))
    BY <1>2, <2>1, <2>2, KeptFirst
  <2> QED
    BY <2>1, <2>3
<1> HIDE DEF S
<1>3. Code \subseteq S
  BY <1>1, <1>2, CodeInduction
<1> QED
  BY <1>3 DEF S

\* Statement by statement.
LEMMA KeptPointwise ==
  ASSUME NEW b \in Code, NEW c \in Code, DOMAIN c = DOMAIN b, \A i \in DOMAIN b : FlowKept(<<b[i]>>, <<c[i]>>)
  PROVE  FlowKept(b, c)
<1> DEFINE S == {x \in Code : \A y \in Code : DOMAIN y = DOMAIN x /\ (\A i \in DOMAIN x : FlowKept(<<x[i]>>, <<y[i]>>))
                                                => FlowKept(x, y)}
<1>1. <<>> \in S
  <2>1. ASSUME NEW y \in Code, DOMAIN y = DOMAIN <<>> PROVE FlowKept(<<>>, y)
    <3>1. y = <<>>
      BY <2>1, EmptySeq, LenProperties DEF Code
    <3> QED
      BY <3>1, KeptEmpty
  <2> QED
    BY <2>1, SizeEmpty
<1>2. ASSUME NEW x \in Code, x # <<>>, Tail(x) \in S PROVE x \in S
  <2> SUFFICES ASSUME NEW y \in Code, DOMAIN y = DOMAIN x, \A i \in DOMAIN x : FlowKept(<<x[i]>>, <<y[i]>>)
               PROVE  FlowKept(x, y)
    OBVIOUS
  <2>1. /\ x \in Seq(AnyStmt) /\ y \in Seq(AnyStmt) /\ DOMAIN x = 1 .. Len(x) /\ DOMAIN y = 1 .. Len(y)
        /\ Len(x) \in Nat /\ Len(y) \in Nat
    BY LenProperties DEF Code, AnyStmt
  <2>2. Len(x) = Len(y) /\ Len(x) # 0 /\ y # <<>>
    BY <1>2, <2>1, EmptySeq
  <2>3. /\ Head(x) = x[1] /\ Head(y) = y[1] /\ 1 \in DOMAIN x
        /\ Tail(x) \in Code /\ Tail(y) \in Code /\ <<Head(y)>> \in Code /\ y = <<Head(y)>> \o Tail(y)
    BY <1>2, <2>1, <2>2, HeadAndTail
  <2>4. /\ Len(Tail(x)) = Len(x) - 1 /\ \A i \in 1 .. Len(x) - 1 : Tail(x)[i] = x[i + 1]
        /\ Len(Tail(y)) = Len(x) - 1 /\ \A i \in 1 .. Len(x) - 1 : Tail(y)[i] = y[i + 1]
    BY <1>2, <2>1, <2>2, HeadTailProperties
  <2>5. DOMAIN Tail(x) = 1 .. Len(x) - 1 /\ DOMAIN Tail(y) = 1 .. Len(x) - 1
    BY <2>3, <2>4, LenProperties DEF Code
  <2>6. ASSUME NEW i \in DOMAIN Tail(x) PROVE FlowKept(<<Tail(x)[i]>>, <<Tail(y)[i]>>)
    <3>1. i + 1 \in DOMAIN x
      BY <2>1, <2>5
    <3> QED
      BY <2>4, <2>5, <3>1
  <2>7. FlowKept(Tail(x), Tail(y))
    BY <1>2, <2>3, <2>5, <2>6
  <2>8. FlowKept(<<Head(x)>>, <<Head(y)>>)
    BY <2>3
  <2>9. FlowKept(x, <<Head(y)>> \o Tail(y))
    BY <1>2, <2>3, <2>7, <2>8, KeptFirst
  <2> QED
    BY <2>3, <2>9
<1> HIDE DEF S
<1>3. Code \subseteq S
  BY <1>1, <1>2, TailInduction
<1>4. \A y \in Code : DOMAIN y = DOMAIN b /\ (\A i \in DOMAIN b : FlowKept(<<b[i]>>, <<y[i]>>)) => FlowKept(b, y)
  BY <1>3 DEF S
<1> QED
  BY <1>4

\* What a statement reads is in its expressions.
LEMMA ReadsSame ==
  ASSUME NEW s, NEW t, t.idx = s.idx, t.args = s.args, t.to = s.to
  PROVE  Reads(t) = Reads(s)
BY DEF Reads, ExprsOf

-----------------------------------------------------------------------------
(* The passes that leave the expressions alone.                              *)

\* samplify names and numbers, but neither reads nor assigns otherwise.
LEMMA SamplifyFlow == \A b \in Code, c \in Counters : FlowKept(b, Samplify[<<b, c>>].code)
<1> DEFINE S == {b \in Code : \A c \in Counters : FlowKept(b, Samplify[<<b, c>>].code)}
<1>1. <<>> \in S
  <2>1. ASSUME NEW b \in Code, b = <<>>, NEW c \in Counters PROVE Samplify[<<b, c>>].code = b
    <3>1. Samplify[<<b, c>>] = SamplifyOf(Samplify, <<b, c>>)
      BY SamplifyUnfold DEF SamplifyIn
    <3>2. SamplifyOf(Samplify, <<b, c>>) = [code |-> <<>>, counters |-> c]
      BY <2>1 DEF SamplifyOf
    <3> QED
      BY <2>1, <3>1, <3>2
  <2> QED
    BY <2>1, KeptEmpty, SizeEmpty
<1>2. ASSUME NEW b \in Code, b # <<>>, Head(b).then \in S, Head(b).else \in S, Tail(b) \in S PROVE b \in S
  <2> SUFFICES ASSUME NEW c \in Counters PROVE FlowKept(b, Samplify[<<b, c>>].code)
    BY <1>2
  <2> DEFINE s == Head(b)
             then == Samplify[<<s.then, c>>]
             else == Samplify[<<s.else, then.counters>>]
             isSample == s.op = "sample"
             new == IF isSample THEN [s EXCEPT !.id = c.ctr, !.name = SampleName(s, Len(c.positions) + 1)]
                    ELSE [s EXCEPT !.then = then.code, !.else = else.code]
             next == IF isSample THEN Count(c, s) ELSE CountersAfter(c, else.counters)
             rest == Samplify[<<Tail(b), next>>]
  <2>1. /\ Samplify[<<b, c>>] = [code |-> <<new>> \o rest.code, counters |-> rest.counters]
        /\ next \in Counters /\ then.counters \in Counters /\ else.counters \in Counters
        /\ rest.counters \in Counters /\ rest.code \in Code
        /\ then.code \in Code /\ else.code \in Code
        /\ new \in StmtsTo[MaxCodeDepth] /\ s \in StmtsTo[MaxCodeDepth] /\ MaxCodeDepth \in Nat
    BY <1>2, SamplifyStep
  <2>2. FlowKept(s.then, then.code) /\ FlowKept(s.else, else.code) /\ FlowKept(Tail(b), rest.code)
    BY <1>2, <2>1
  <2> HIDE DEF s, then, else, next, rest
  <2>3. /\ new.op = s.op /\ new.to = s.to /\ new.idx = s.idx /\ new.args = s.args
        /\ s.op = "ite" => new.then = then.code /\ new.else = else.code
    BY <2>1, StmtsIn
  <2> HIDE DEF new
  <2>4. FlowKept(<<s>>, <<new>>)
    <3>1. s \in AnyStmt /\ new \in AnyStmt
      BY <2>1 DEF AnyStmt
    <3>2. Reads(new) \subseteq Reads(s)
      BY <2>3, ReadsSame
    <3> QED
      BY <2>2, <2>3, <3>1, <3>2, KeptStmt
  <2>5. <<new>> \in Code
    BY <2>1, FlowOne DEF AnyStmt
  <2>6. FlowKept(b, <<new>> \o rest.code)
    BY <1>2, <2>1, <2>2, <2>4, <2>5, KeptFirst DEF s
  <2> QED
    BY <2>1, <2>6
<1> HIDE DEF S
<1>3. Code \subseteq S
  BY <1>1, <1>2, CodeInduction
<1>4. ASSUME NEW b \in Code PROVE \A c \in Counters : FlowKept(b, Samplify[<<b, c>>].code)
  BY <1>3 DEF S
<1> QED
  BY <1>4

\* resolveoracles sets targets only.
LEMMA ResolveFlow == \A b \in Code : FlowKept(b, Resolve[b].code)
<1> DEFINE S == {b \in Code : FlowKept(b, Resolve[b].code)}
<1>1. ASSUME NEW b \in Code, \A i \in DOMAIN b : b[i].then \in S /\ b[i].else \in S PROVE b \in S
  <2> DEFINE c == Resolve[b].code
  <2>1. c \in Code /\ DOMAIN c = DOMAIN b
    BY ResolveIs
  <2>2. ASSUME NEW i \in DOMAIN b PROVE FlowKept(<<b[i]>>, <<c[i]>>)
    <3> DEFINE s == b[i]
               t == c[i]
    <3>1. s \in StmtsTo[MaxCodeDepth] /\ t \in StmtsTo[MaxCodeDepth] /\ MaxCodeDepth \in Nat
      BY <2>1, CodeParts, DepthAssumption
    <3>2. \/ /\ s.op = "invoke" /\ s.name \in DOMAIN Wires
             /\ t = [s EXCEPT !.target = Wires[s.name]]
          \/ /\ s.op = "ite"
             /\ t = [s EXCEPT !.then = Resolve[s.then].code, !.else = Resolve[s.else].code]
          \/ s.op # "ite" /\ t = s
      BY ResolveIs
    <3>3. s.op = "ite" => FlowKept(s.then, Resolve[s.then].code) /\ FlowKept(s.else, Resolve[s.else].code)
      BY <1>1
    <3> HIDE DEF s, t
    <3>4. /\ t.op = s.op /\ t.to = s.to /\ t.idx = s.idx /\ t.args = s.args
          /\ s.op = "ite" => t.then = Resolve[s.then].code /\ t.else = Resolve[s.else].code
      BY <3>1, <3>2, StmtsIn
    <3>5. Reads(t) \subseteq Reads(s)
      BY <3>4, ReadsSame
    <3>6. FlowKept(<<s>>, <<t>>)
      BY <3>1, <3>3, <3>4, <3>5, KeptStmt DEF AnyStmt
    <3> QED
      BY <3>6 DEF s, t
  <2> HIDE DEF c
  <2>3. FlowKept(b, c)
    BY <2>1, <2>2, KeptPointwise
  <2> QED
    BY <2>3 DEF c
<1> HIDE DEF S
<1>2. Code \subseteq S
  BY <1>1, InnerInduction
<1> QED
  BY <1>2 DEF S

\* Something more at the end, that reads nothing.
LEMMA KeptReturn ==
  ASSUME NEW b \in Code
  PROVE  Append(b, Return(<<>>)) \in Code /\ FlowKept(b, Append(b, Return(<<>>)))
<1> DEFINE t == Return(<<>>)
<1>1. t \in AnyStmt /\ t.op = "return" /\ t.idx = <<>> /\ t.args = <<>>
  BY ReturnIs DEF AnyStmt
<1> HIDE DEF t
<1>2. Reads(t) = {}
  BY <1>1, NamesEmpty, ConcatEmptySeq DEF Reads, ExprsOf
<1>3. ASSUME NEW a \in Flows PROVE Better(a, FlowAfter(t, a))
  <2> DEFINE r == Reading(t, a)
             m == Assigning(t, r)
  <2>1. r \in Flows /\ (r.ok <=> a.ok)
    BY <1>2, ReadingIs
  <2>2. (m.ok <=> r.ok) /\ m.ended
    BY <1>1, <2>1, AssigningIs
  <2>3. FlowAfter(t, a) = IF a.ended THEN a ELSE m
    BY <1>1 DEF FlowAfter, AfterOf
  <2> HIDE DEF m
  <2> QED
    BY <2>1, <2>2, <2>3 DEF Better
<1>4. <<t>> \in Code /\ FlowKept(<<>>, <<t>>)
  <2>1. <<t>> \in Code /\ \A a \in Flows : Flow[<<<<t>>, a>>] = FlowAfter(t, a) /\ Flow[<<<<>>, a>>] = a
    BY <1>1, FlowOne, FlowEnd, SizeEmpty
  <2>2. ASSUME NEW x \in Flows, NEW y \in Flows, Better(x, y) PROVE Better(x, FlowAfter(t, y))
    BY <1>1, <1>3, <2>2, AfterType, BetterOrder
  <2> QED
    BY <2>1, <2>2 DEF FlowKept
<1>5. FlowKept(b \o <<>>, b \o <<t>>)
  BY <1>4, KeptItself, KeptConcat, SizeEmpty
<1>6. b \o <<>> = b /\ b \o <<t>> = Append(b, t) /\ b \o <<t>> \in Code
  BY <1>1, <1>4, ConcatEmptySeq, AppendIsConcat, CodeConcat DEF Code, AnyStmt
<1>7. Append(b, t) \in Code /\ FlowKept(b, Append(b, t))
  BY <1>5, <1>6
<1> QED
  BY <1>7 DEF t

\* The last statement alone is changed.
LEMMA KeptLast ==
  ASSUME NEW b \in Code, b # <<>>, NEW t \in AnyStmt, FlowKept(<<Last(b)>>, <<t>>)
  PROVE  Append(Front(b), t) \in Code /\ FlowKept(b, Append(Front(b), t))
<1>1. Len(b) \in DOMAIN b /\ Last(b) = b[Len(b)] /\ Front(b) \in Code /\ Last(b) \in AnyStmt
  BY LastParts, CodeParts DEF Code, AnyStmt
<1>2. b = Front(b) \o <<Last(b)>>
  <2> DEFINE f == Front(b)
             l == Last(b)
             c == Append(f, l)
  <2>2. /\ b \in Seq(AnyStmt) /\ f \in Seq(AnyStmt) /\ Len(b) \in Nat /\ DOMAIN b = 1 .. Len(b) /\ DOMAIN f = 1 .. Len(f)
        /\ Len(f) = Len(b) - 1 /\ \A i \in DOMAIN f : f[i] = b[i]
    BY LastParts, LenProperties DEF Code, AnyStmt
  <2>6. f \in Seq(AnyStmt) /\ l \in AnyStmt /\ l = b[Len(b)]
    BY <1>1, <2>2
  <2> HIDE DEF f, l
  <2>3. /\ c \in Seq(AnyStmt) /\ Len(c) = Len(f) + 1 /\ \A i \in 1 .. Len(f) : c[i] = f[i]
        /\ c[Len(f) + 1] = l
    BY <2>6, AppendProperties
  <2> HIDE DEF c
  <2>4. ASSUME NEW i \in 1 .. Len(b) PROVE b[i] = c[i]
    <3>1. \A m \in Nat : \A j \in 1 .. m : j \in 1 .. m - 1 \/ j = m
      OBVIOUS
    <3>2. Len(f) + 1 = Len(b)
      BY <2>2
    <3>3. i \in 1 .. Len(f) \/ i = Len(b)
      BY <2>2, <3>1
    <3>4. CASE i \in 1 .. Len(f)
      BY <2>2, <2>3, <3>4
    <3>5. CASE i = Len(b)
      BY <2>3, <2>6, <3>2, <3>5
    <3> QED
      BY <3>3, <3>4, <3>5
  <2>5. Len(c) = Len(b)
    BY <2>2, <2>3
  <2>1. b = c
    BY <2>2, <2>3, <2>4, <2>5, SeqEqual
  <2> USE DEF c, f, l
  <2> QED
    BY <1>1, <2>1, AppendIsConcat DEF Code, AnyStmt
<1>3. <<Last(b)>> \in Code /\ <<t>> \in Code /\ Append(Front(b), t) = Front(b) \o <<t>>
  BY <1>1, FlowOne, AppendIsConcat DEF Code, AnyStmt
<1>4. FlowKept(Front(b) \o <<Last(b)>>, Front(b) \o <<t>>)
  BY <1>1, <1>3, KeptItself, KeptConcat
<1> QED
  BY <1>1, <1>2, <1>3, <1>4, CodeConcat

EndFlow(b, c) == c \in Code => FlowKept(b, c)

LEMMA ReturnifyFlowStep ==
  ASSUME NEW b \in Code, b # <<>>, Last(b).op = "ite", NEW noneOk \in BOOLEAN,
         EndFlow(Last(b).then, Returnify[<<Last(b).then, noneOk>>].code),
         EndFlow(Last(b).else, Returnify[<<Last(b).else, noneOk>>].code)
  PROVE  EndFlow(b, Returnify[<<b, noneOk>>].code)
<1> DEFINE s == Last(b)
           then == Returnify[<<s.then, noneOk>>]
           else == Returnify[<<s.else, noneOk>>]
           new == [s EXCEPT !.then = then.code, !.else = else.code]
           c == Append(Front(b), new)
           ok == then.ok /\ else.ok
<1>1. /\ Returnify[<<b, noneOk>>] = [ok |-> ok, code |-> c]
      /\ Len(b) \in DOMAIN b /\ s = b[Len(b)] /\ s \in AnyStmt /\ s.then \in Code /\ s.else \in Code
      /\ new.op = "ite" /\ new.then = then.code /\ new.else = else.code
      /\ new.to = s.to /\ new.idx = s.idx /\ new.args = s.args
      /\ c \in Code => new \in AnyStmt /\ then.code \in Code /\ else.code \in Code
  BY ReturnifyParts
<1>2. s.op = "ite" /\ EndFlow(s.then, then.code) /\ EndFlow(s.else, else.code)
  OBVIOUS
<1> HIDE DEF s, then, else, new
<1>3. Returnify[<<b, noneOk>>].code = c
  BY <1>1
<1>4. ASSUME c \in Code PROVE FlowKept(b, c)
  <2>1. FlowKept(s.then, then.code) /\ FlowKept(s.else, else.code)
    BY <1>1, <1>2, <1>4 DEF EndFlow
  <2>2. Reads(new) \subseteq Reads(s)
    BY <1>1, ReadsSame
  <2>3. FlowKept(<<s>>, <<new>>)
    BY <1>1, <1>2, <1>4, <2>1, <2>2, KeptStmt
  <2> QED
    BY <1>1, <1>4, <2>3, KeptLast DEF s
<1> QED
  BY <1>3, <1>4 DEF EndFlow

\* returnify adds a return without value, which reads nothing, where the code ends.
LEMMA ReturnifyFlow == \A b \in Code, noneOk \in BOOLEAN : EndFlow(b, Returnify[<<b, noneOk>>].code)
<1> DEFINE S == {b \in Code : \A noneOk \in BOOLEAN : EndFlow(b, Returnify[<<b, noneOk>>].code)}
<1>1. ASSUME NEW b \in Code, \A i \in DOMAIN b : b[i].then \in S /\ b[i].else \in S PROVE b \in S
  <2> SUFFICES ASSUME NEW noneOk \in BOOLEAN PROVE EndFlow(b, Returnify[<<b, noneOk>>].code)
    OBVIOUS
  <2>1. Returnify[<<b, noneOk>>] = ReturnifyOf(Returnify, <<b, noneOk>>)
    BY ReturnifyUnfold DEF ReturnifyIn
  <2>2. CASE ~(b # <<>> /\ Last(b).op = "ite")
    <3>1. Returnify[<<b, noneOk>>] = Ended(b, noneOk)
      BY <2>1, <2>2 DEF ReturnifyOf
    <3>2. Ended(b, noneOk).code = b \/ Ended(b, noneOk).code = Append(b, Return(<<>>))
      BY DEF Ended
    <3> QED
      BY <3>1, <3>2, KeptItself, KeptReturn DEF EndFlow
  <2>3. CASE b # <<>> /\ Last(b).op = "ite"
    <3>1. Len(b) \in DOMAIN b /\ Last(b) = b[Len(b)]
      BY <2>3, LastParts DEF Code
    <3>2. Last(b).then \in S /\ Last(b).else \in S
      BY <1>1, <3>1
    <3> QED
      BY <2>3, <3>2, ReturnifyFlowStep
  <2> QED
    BY <2>2, <2>3
<1>2. Code \subseteq S
  <2> HIDE DEF S
  <2> QED
    BY <1>1, InnerInduction
<1> QED
  BY <1>2

-----------------------------------------------------------------------------
(* Treeify.                                                                  *)

\* A loop, whatever its body becomes.
LEMMA TreeLoopFlow ==
  ASSUME NEW s \in AnyStmt, s.op # "ite", TreeLoop(Treeify, s) \in AnyStmt
  PROVE  FlowKept(<<s>>, <<TreeLoop(Treeify, s)>>)
<1> DEFINE t == TreeLoop(Treeify, s)
<1>1. t = s \/ t = [s EXCEPT !.then = Treeify[<<@, Len(@)>>]]
  BY DEF TreeLoop
<1> HIDE DEF t
<1>2. MaxCodeDepth \in Nat
  BY DepthAssumption
<1>3. t.op = s.op /\ t.to = s.to /\ t.idx = s.idx /\ t.args = s.args
  BY <1>1, <1>2, StmtsIn DEF AnyStmt
<1>4. Reads(t) \subseteq Reads(s)
  BY <1>3, ReadsSame
<1>5. t \in AnyStmt
  BY DEF t
<1>6. FlowKept(<<s>>, <<t>>)
  BY <1>3, <1>4, <1>5, KeptStmt
<1> QED
  BY <1>6 DEF t

\* treeify, when no conditional is left: only loops are entered.
LEMMA TreeifyFlatFlow ==
  ASSUME NEW b \in Code, NEW own \in Nat, Conditionals(b) = {}
  PROVE  EndFlow(b, Treeify[<<b, own>>])
<1> DEFINE c == [i \in DOMAIN b |-> IF i <= own THEN b[i] ELSE TreeLoop(Treeify, b[i])]
<1>1. Treeify[<<b, own>>] = c
  <2>1. Treeify[<<b, own>>] = TreeifyOf(Treeify, <<b, own>>)
    BY TreeifyUnfold DEF TreeifyIn
  <2> QED
    BY <2>1 DEF TreeifyOf
<1>2. DOMAIN c = DOMAIN b /\ \A i \in DOMAIN b : c[i] = b[i] \/ c[i] = TreeLoop(Treeify, b[i])
  OBVIOUS
<1> HIDE DEF c
<1>3. ASSUME c \in Code PROVE FlowKept(b, c)
  <2>1. ASSUME NEW i \in DOMAIN b PROVE FlowKept(<<b[i]>>, <<c[i]>>)
    <3>1. b[i] \in AnyStmt /\ c[i] \in AnyStmt
      BY <1>2, <1>3, CodeParts DEF AnyStmt
    <3>2. b[i].op # "ite"
      BY DEF Conditionals
    <3>3. FlowKept(<<b[i]>>, <<b[i]>>)
      BY <3>1, FlowOne, KeptItself
    <3> QED
      BY <1>2, <3>1, <3>2, <3>3, TreeLoopFlow
  <2> QED
    BY <1>2, <1>3, <2>1, KeptPointwise
<1> QED
  BY <1>1, <1>3 DEF EndFlow

\* What a conditional and what follows it make of a flow, each branch with its
\* own copy of what follows knows no less.
LEMMA BranchedFlow ==
  ASSUME NEW s \in AnyStmt, s.op = "ite", NEW d \in Code, NEW t \in AnyStmt,
         t.op = "ite", t.to = s.to, t.idx = s.idx, t.args = s.args,
         FlowKept(s.then \o d, t.then), FlowKept(s.else \o d, t.else)
  PROVE  FlowKept(<<s>> \o d, <<t>>)
<1> SUFFICES ASSUME NEW x \in Flows, NEW y \in Flows, Better(x, y)
             PROVE  Better(Flow[<<<<s>> \o d, x>>], Flow[<<<<t>>, y>>])
  BY DEF FlowKept
<1>1. /\ <<s>> \in Code /\ Flow[<<<<s>>, x>>] = FlowAfter(s, x) /\ Flow[<<<<t>>, y>>] = FlowAfter(t, y)
      /\ Flow[<<<<s>> \o d, x>>] = Flow[<<d, FlowAfter(s, x)>>] /\ FlowAfter(s, x) \in Flows
  <2> DEFINE b == <<s>>
  <2>1. b \in Code /\ Flow[<<b, x>>] = FlowAfter(s, x) /\ Flow[<<<<t>>, y>>] = FlowAfter(t, y)
    BY FlowOne
  <2> HIDE DEF b
  <2>2. Flow[<<b \o d, x>>] = Flow[<<d, Flow[<<b, x>>]>>]
    BY <2>1, FlowConcat
  <2>3. FlowAfter(s, x) \in Flows
    BY AfterType
  <2> QED
    BY <2>1, <2>2, <2>3 DEF b
<1>2. s.then \in Code /\ s.else \in Code /\ t.then \in Code /\ t.else \in Code
  BY StmtType
<1>3. CASE y.ended
  <2>1. Flow[<<d, FlowAfter(s, x)>>].ok => x.ok
    BY <1>1, FlowOk, AfterOk
  <2>2. FlowAfter(t, y) = y
    BY <1>3 DEF FlowAfter
  <2> QED
    BY <1>1, <1>3, <2>1, <2>2 DEF Better
<1>4. CASE ~y.ended
  <2> DEFINE r == Reading(s, x)
             q == Reading(t, y)
             m == Flow[<<s.then, r>>]
             n == Flow[<<s.else, r>>]
             j == Join(m, n)
             u == Flow[<<t.then, q>>]
             v == Flow[<<t.else, q>>]
  <2>1. ~x.ended /\ x.names \subseteq y.names
    BY <1>4 DEF Better
  <2>2. /\ r \in Flows /\ q \in Flows /\ Better(r, q)
    <3>1. /\ r \in Flows /\ (r.ok <=> x.ok /\ Reads(s) \subseteq x.names) /\ r.ended = x.ended /\ r.names = x.names
      BY ReadingIs
    <3>2. /\ q \in Flows /\ (q.ok <=> y.ok /\ Reads(t) \subseteq y.names) /\ q.ended = y.ended /\ q.names = y.names
      BY ReadingIs
    <3>3. Reads(t) = Reads(s)
      BY ReadsSame
    <3> HIDE DEF r, q
    <3> QED
      BY <2>1, <3>1, <3>2, <3>3 DEF Better
  <2>3. FlowAfter(s, x) = j /\ FlowAfter(t, y) = Join(u, v)
    BY <1>4, <2>1 DEF FlowAfter, AfterOf
  <2> HIDE DEF r, q
  <2>4. m \in Flows /\ n \in Flows /\ u \in Flows /\ v \in Flows
    BY <1>2, <2>2, FlowType
  <2>5. Better(Flow[<<s.then \o d, r>>], u) /\ Better(Flow[<<s.else \o d, r>>], v)
    BY <2>2 DEF FlowKept
  <2>6. Flow[<<s.then \o d, r>>] = Flow[<<d, m>>] /\ Flow[<<s.else \o d, r>>] = Flow[<<d, n>>]
    BY <1>2, <2>2, FlowConcat
  <2> HIDE DEF m, n, u, v
  <2>7. j \in Flows /\ Better(j, m) /\ Better(j, n)
    BY <2>4, JoinBetter, JoinIs
  <2> HIDE DEF j
  <2>8. Better(Flow[<<d, j>>], Flow[<<d, m>>]) /\ Better(Flow[<<d, j>>], Flow[<<d, n>>])
    BY <2>4, <2>7, KeptItself DEF FlowKept
  <2>9. Flow[<<d, j>>] \in Flows /\ Flow[<<d, m>>] \in Flows /\ Flow[<<d, n>>] \in Flows
    BY <2>4, <2>7, FlowType
  <2>10. Better(Flow[<<d, j>>], u) /\ Better(Flow[<<d, j>>], v)
    BY <2>4, <2>5, <2>6, <2>8, <2>9, BetterOrder
  <2>11. Better(Flow[<<d, j>>], Join(u, v))
    BY <2>4, <2>9, <2>10, JoinBetter
  <2> QED
    BY <1>1, <2>3, <2>11
<1> QED
  BY <1>3, <1>4

\* treeify, at the first conditional: what follows is copied into both branches, where
\* is known what that branch assigned, hence no less than after the join.
LEMMA TreeifyBranchingFlow ==
  ASSUME NEW b \in Code, NEW own \in Nat, Conditionals(b) # {},
         \A d \in Code, k \in Nat : Size[d] < Size[b] => EndFlow(d, Treeify[<<d, k>>])
  PROVE  EndFlow(b, Treeify[<<b, own>>])
<1> DEFINE k == FirstConditional(b)
           s == b[k]
           a == After(b, k)
           t == Branched(Treeify, s, a)
           f == [i \in 1 .. k - 1 |-> TreeLoop(Treeify, b[i])]
           c == Append(f, t)
           g == SubSeq(b, 1, k - 1)
           n == MaxCodeDepth + Size[b]
<1>1. Treeify[<<b, own>>] = c
  <2>1. Treeify[<<b, own>>] = TreeifyOf(Treeify, <<b, own>>)
    BY TreeifyUnfold DEF TreeifyIn
  <2> QED
    BY <2>1 DEF TreeifyOf
<1>2. k \in DOMAIN b /\ s.op = "ite" /\ \A i \in 1 .. k - 1 : i \in DOMAIN b /\ b[i].op # "ite"
  BY FirstConditionalIs
<1>3. k - 1 \in Nat /\ k \in Nat /\ 1 <= k /\ (k - 1) + 1 = k
  <2>1. k \in 1 .. Len(b) /\ Len(b) \in Nat
    BY <1>2, LenProperties DEF Code
  <2> HIDE DEF k
  <2>2. \A m \in Nat : \A i \in 1 .. m : i - 1 \in Nat /\ i \in Nat /\ 1 <= i /\ (i - 1) + 1 = i
    OBVIOUS
  <2> QED
    BY <2>1, <2>2
<1>4. /\ t.then = Treeify[<<s.then \o a, Len(s.then)>>] /\ t.else = Treeify[<<s.else \o a, Len(s.else)>>]
      /\ View(t) = View(s) /\ t.op = s.op /\ Len(s.then) \in Nat /\ Len(s.else) \in Nat
  BY <1>2, BranchedParts
<1>5. /\ s.then \o a \in Code /\ Size[s.then \o a] < Size[b] /\ s.else \o a \in Code /\ Size[s.else \o a] < Size[b]
  BY <1>2, SizeAt DEF After
<1>6. EndFlow(s.then \o a, t.then) /\ EndFlow(s.else \o a, t.else)
  BY <1>4, <1>5
<1>7. t.idx = s.idx /\ t.args = s.args /\ t.to = s.to
  <2>1. s \in AnyStmt /\ MaxCodeDepth \in Nat
    BY <1>2, CodeParts, DepthAssumption DEF AnyStmt
  <2> HIDE DEF s, a
  <2> QED
    BY <2>1, StmtsIn DEF Branched, AnyStmt
<1>8. /\ g \in Code /\ a \in Code /\ b = g \o (<<s>> \o a) /\ s \in AnyStmt
      /\ Len(g) = k - 1 /\ \A i \in 1 .. k - 1 : g[i] = b[i]
  <2>1. g \in Code /\ a \in Code /\ b = g \o (<<s>> \o a)
    BY <1>2, CutAt DEF Code, After
  <2>2. s \in AnyStmt
    BY <1>2, CodeParts DEF AnyStmt
  <2>3. Len(g) = k - 1 /\ \A i \in 1 .. k - 1 : g[i] = b[i]
    <3> HIDE DEF k
    <3>1. /\ Len(g) = IF 1 <= k - 1 THEN k - 1 - 1 + 1 ELSE 0
          /\ \A i \in 1 .. k - 1 - 1 + 1 : g[i] = b[1 + i - 1]
      <4>1. \A i \in 1 .. k - 1 : b[i] \in AnyStmt
        BY <1>2, CodeParts DEF AnyStmt
      <4>2. 1 \in Int /\ k - 1 \in Int
        BY <1>3
      <4> QED
        BY <4>1, <4>2, SubSeqProperties
    <3>2. (IF 1 <= k - 1 THEN k - 1 - 1 + 1 ELSE 0) = k - 1 /\ k - 1 - 1 + 1 = k - 1
      BY <1>3
    <3>3. \A i \in 1 .. k - 1 : 1 + i - 1 = i
      OBVIOUS
    <3> HIDE DEF g
    <3> QED
      BY <3>1, <3>2, <3>3
  <2> QED
    BY <2>1, <2>2, <2>3
<1>12. t \in StmtsTo[n] /\ \A i \in 1 .. k - 1 : TreeLoop(Treeify, b[i]) \in StmtsTo[n]
  BY <1>2, TreeifyUnfold, TreeLoopIn
<1>13. f = [i \in 1 .. k - 1 |-> f[i]]
  OBVIOUS
<1> HIDE DEF k, t, g, s, a, n
<1>9. DOMAIN f = 1 .. k - 1 /\ \A i \in 1 .. k - 1 : f[i] = TreeLoop(Treeify, b[i])
  OBVIOUS
<1> HIDE DEF f
<1>10. ASSUME c \in Code PROVE FlowKept(b, c)
  <2>1. /\ t \in AnyStmt /\ f \in Code /\ f \o <<t>> = c
    <3> DEFINE T == StmtsTo[n]
    <3>9. DOMAIN g = 1 .. k - 1
      BY <1>8, LenProperties DEF Code
    <3>10. t \in T /\ \A i \in 1 .. k - 1 : f[i] \in T
      BY <1>9, <1>12
    <3> HIDE DEF T
    <3>1. f \in Seq(T) /\ t \in T
      BY <1>8, <1>13, <3>9, <3>10, SeqOfFunction DEF Code
    <3>2. c # <<>> /\ Last(c) = t /\ c[Len(c)] = t /\ Len(c) \in DOMAIN c
      BY <3>1, AppendLast
    <3>3. Len(f) = k - 1 /\ Len(c) = Len(f) + 1 /\ \A i \in 1 .. Len(f) : c[i] = f[i]
      BY <1>3, <1>9, <3>1, LenProperties, AppendProperties
    <3>4. f \o <<t>> = c
      BY <3>1, AppendIsConcat
    <3> HIDE DEF c
    <3>5. t \in AnyStmt
      BY <1>10, <3>2, CodeParts DEF AnyStmt
    <3>6. \A i \in 1 .. k - 1 : i \in DOMAIN c /\ c[i] = f[i]
      <4>1. DOMAIN c = 1 .. (k - 1) + 1
        BY <1>10, <3>3, LenProperties DEF Code
      <4>2. \A m \in Nat : \A i \in 1 .. m : i \in 1 .. m + 1
        OBVIOUS
      <4> QED
        BY <1>3, <3>3, <4>1, <4>2
    <3>7. \A i \in 1 .. k - 1 : f[i] \in StmtsTo[MaxCodeDepth]
      BY <1>10, <3>6, CodeParts
    <3>8. f \in Code
      <4>1. f \in Seq(StmtsTo[MaxCodeDepth])
        BY <1>8, <1>13, <3>7, <3>9, SeqOfFunction DEF Code
      <4> QED
        BY <4>1 DEF Code
    <3> QED
      BY <3>4, <3>5, <3>8
  <2>2. t.then \in Code /\ t.else \in Code
    BY <2>1, StmtType
  <2>3. FlowKept(s.then \o a, t.then) /\ FlowKept(s.else \o a, t.else)
    BY <1>6, <2>2 DEF EndFlow
  <2>4. FlowKept(<<s>> \o a, <<t>>)
    BY <1>2, <1>4, <1>7, <1>8, <2>1, <2>3, BranchedFlow
  <2>5. FlowKept(g, f)
    <3>1. DOMAIN g = 1 .. k - 1
      BY <1>8, LenProperties DEF Code
    <3>2. ASSUME NEW i \in 1 .. k - 1 PROVE FlowKept(<<g[i]>>, <<f[i]>>)
      <4>1. g[i] = b[i] /\ b[i].op # "ite" /\ f[i] = TreeLoop(Treeify, b[i])
        BY <1>2, <1>8, <1>9
      <4>2. b[i] \in AnyStmt /\ f[i] \in AnyStmt
        BY <1>2, <1>9, <2>1, CodeParts DEF AnyStmt
      <4> QED
        BY <4>1, <4>2, TreeLoopFlow
    <3> QED
      BY <1>8, <1>9, <2>1, <3>1, <3>2, KeptPointwise
  <2>6. <<s>> \o a \in Code /\ <<t>> \in Code
    BY <1>8, <2>1, FlowOne, CodeConcat
  <2>7. FlowKept(g \o (<<s>> \o a), f \o <<t>>)
    BY <1>8, <2>1, <2>4, <2>5, <2>6, KeptConcat
  <2> QED
    BY <1>8, <2>1, <2>7
<1>11. EndFlow(b, c)
  BY <1>10 DEF EndFlow
<1> QED
  BY <1>1, <1>11 DEF c, s, a, f, t, k

\* Each path of the tree is a path of the text.
LEMMA TreeifyFlow == \A b \in Code, own \in Nat : EndFlow(b, Treeify[<<b, own>>])
<1> DEFINE S == {in \in TreeifyIn : EndFlow(in[1], Treeify[in])}
<1>1. ASSUME NEW in \in TreeifyIn, \A y \in TreeifyIn : Below(SizeRank[y], SizeRank[in]) => y \in S PROVE in \in S
  <2>1. PICK b \in Code, own \in Nat : in = <<b, own>>
    BY DEF TreeifyIn
  <2>2. ASSUME NEW d \in Code, NEW k \in Nat, Size[d] < Size[b] PROVE EndFlow(d, Treeify[<<d, k>>])
    <3>1. SizeRank[<<d, k>>] = <<Size[d], 0>> /\ SizeRank[<<b, own>>] = <<Size[b], 0>> /\ <<d, k>> \in TreeifyIn
      BY DEF SizeRank, TreeifyIn
    <3>2. Below(<<Size[d], 0>>, <<Size[b], 0>>)
      BY <2>2 DEF Below
    <3>3. <<d, k>> \in S
      BY <1>1, <2>1, <3>1, <3>2
    <3> QED
      BY <3>3
  <2>3. EndFlow(b, Treeify[<<b, own>>])
    BY <2>2, TreeifyFlatFlow, TreeifyBranchingFlow
  <2> QED
    BY <2>1, <2>3
<1>2. TreeifyIn \subseteq S
  <2> HIDE DEF S
  <2> QED
    BY <1>1, SizeRankType, RankInduction
<1> QED
  BY <1>2 DEF TreeifyIn

-----------------------------------------------------------------------------
(* tableinitialize.                                                          *)

\* An assignment that reads nothing.
LEMMA KeptAssign ==
  ASSUME NEW t \in AnyStmt, t.op = "assign", Reads(t) = {}
  PROVE  <<t>> \in Code /\ FlowKept(<<>>, <<t>>)
<1>1. ASSUME NEW a \in Flows PROVE Better(a, FlowAfter(t, a))
  <2> DEFINE r == Reading(t, a)
             m == Assigning(t, r)
  <2>1. r \in Flows /\ (r.ok <=> a.ok) /\ r.names = a.names
    BY ReadingIs
  <2>2. (m.ok <=> r.ok) /\ ~m.ended /\ r.names \subseteq m.names
    BY <2>1, AssigningIs
  <2>3. FlowAfter(t, a) = IF a.ended THEN a ELSE m
    BY DEF FlowAfter, AfterOf
  <2> HIDE DEF m, r
  <2> QED
    BY <2>1, <2>2, <2>3 DEF Better
<1>2. <<t>> \in Code /\ \A a \in Flows : Flow[<<<<t>>, a>>] = FlowAfter(t, a) /\ Flow[<<<<>>, a>>] = a
  BY FlowOne, FlowEnd, SizeEmpty
<1>3. ASSUME NEW x \in Flows, NEW y \in Flows, Better(x, y) PROVE Better(x, FlowAfter(t, y))
  BY <1>1, <1>3, AfterType, BetterOrder
<1> QED
  BY <1>2, <1>3 DEF FlowKept

\* An empty table reads nothing.
LEMMA StartsFlow ==
  ASSUME NEW s \in AnyStmt, NEW done \in SUBSET Idents
  PROVE  Starts(s, done) \in Code /\ DoneAfter(s, done) \in SUBSET Idents /\ FlowKept(<<>>, Starts(s, done))
<1>1. MaxCodeDepth \in Nat /\ 1 <= MaxCodeDepth
  BY DepthAssumption
<1>2. DoneAfter(s, done) \in SUBSET Idents
  BY <1>1, StartsType DEF AnyStmt
<1>3. CASE TableOf(s) /\ s.to[1] \notin done
  <2> DEFINE t == NewTable(s)
             e == Expr("newtable", Ident(""), <<>>)
  <2>1. t \in StmtsTo[1] /\ t.op = "assign" /\ t.idx = <<>> /\ t.args = <<e>>
    BY <1>1, <1>3, StartsType DEF AnyStmt
  <2>2. t \in AnyStmt
    BY <1>1, <2>1, TreesGrow DEF AnyStmt
  <2>3. e.op = "newtable" /\ e.args = <<>>
    BY DEF Expr
  <2> HIDE DEF t, e
  <2>4. e \in Exprs
    <3> DEFINE q == t.args
    <3>1. q \in Seq(Exprs)
      BY <2>2, StmtType
    <3>2. Len(q) = 1 /\ q[1] = e
      BY <2>1
    <3> HIDE DEF q
    <3> QED
      BY <3>1, <3>2
  <2>5. Names[<<e>>] = {}
    BY <2>3, <2>4, NamesOne, NamesEmpty DEF OwnName
  <2>6. Reads(t) = {}
    <3>1. ExprsOf(t) = <<e>>
      BY <2>1, <2>4, OneSeq, ConcatEmptySeq DEF ExprsOf
    <3> QED
      BY <2>1, <2>5, <3>1 DEF Reads
  <2>7. Starts(s, done) = <<t>>
    BY <1>3 DEF Starts, t
  <2> QED
    BY <1>2, <2>1, <2>2, <2>6, <2>7, KeptAssign
<1>4. CASE ~(TableOf(s) /\ s.to[1] \notin done)
  BY <1>2, <1>4, KeptEmpty, SizeEmpty DEF Starts
<1> QED
  BY <1>3, <1>4

\* tableinitialize assigns more, and reads no more.
LEMMA InitTablesFlow == \A b \in Code, done \in SUBSET Idents : FlowKept(b, InitTables[<<b, done>>])
<1> DEFINE S == {b \in Code : \A done \in SUBSET Idents : FlowKept(b, InitTables[<<b, done>>])}
<1>1. <<>> \in S
  <2>1. ASSUME NEW b \in Code, b = <<>>, NEW done \in SUBSET Idents PROVE InitTables[<<b, done>>] = b
    <3>1. InitTables[<<b, done>>] = InitTablesOf(InitTables, <<b, done>>)
      BY InitTablesUnfold DEF InitIn
    <3>2. InitTablesOf(InitTables, <<b, done>>) = <<>>
      BY <2>1 DEF InitTablesOf
    <3> QED
      BY <2>1, <3>1, <3>2
  <2> QED
    BY <2>1, KeptEmpty, SizeEmpty
<1>2. ASSUME NEW b \in Code, b # <<>>, Head(b).then \in S, Head(b).else \in S, Tail(b) \in S PROVE b \in S
  <2> SUFFICES ASSUME NEW done \in SUBSET Idents PROVE FlowKept(b, InitTables[<<b, done>>])
    BY <1>2
  <2> DEFINE s == Head(b)
             x == InitTables[<<s.then, done>>]
             y == InitTables[<<s.else, done>>]
             new == IF s.op = "ite" THEN [s EXCEPT !.then = x, !.else = y] ELSE s
             u == Starts(s, done)
             rest == InitTables[<<Tail(b), DoneAfter(s, done)>>]
             c == u \o <<new>> \o rest
  <2>1. /\ s \in StmtsTo[MaxCodeDepth] /\ MaxCodeDepth \in Nat
        /\ s.then \in Code /\ s.else \in Code /\ Tail(b) \in Code
    BY <1>2, HeadParts, DepthAssumption DEF AnyStmt
  <2>2. InitTables[<<b, done>>] = c
    <3>1. InitTables[<<b, done>>] = InitTablesOf(InitTables, <<b, done>>)
      BY InitTablesUnfold DEF InitIn
    <3> QED
      BY <1>2, <3>1 DEF InitTablesOf
  <2>3. u \in Code /\ DoneAfter(s, done) \in SUBSET Idents /\ FlowKept(<<>>, u)
    BY <2>1, StartsFlow DEF AnyStmt
  <2>4. x \in Code /\ y \in Code /\ rest \in Code /\ NoDeeper(s.then, x) /\ NoDeeper(s.else, y)
    BY <2>1, <2>3, InitTablesParts
  <2>5. FlowKept(s.then, x) /\ FlowKept(s.else, y) /\ FlowKept(Tail(b), rest)
    BY <1>2, <2>3
  <2> HIDE DEF x, y, u, rest, s
  <2>6. /\ new \in AnyStmt /\ new.op = s.op /\ new.to = s.to /\ new.idx = s.idx /\ new.args = s.args
        /\ s.op = "ite" => new.then = x /\ new.else = y
    <3>1. CASE s.op = "ite"
      <4>1. new \in AnyStmt
        BY <2>1, <2>4, <3>1, Rebuilt DEF AnyStmt
      <4>2. new.op = s.op /\ new.to = s.to /\ new.idx = s.idx /\ new.args = s.args /\ new.then = x /\ new.else = y
        BY <2>1, <3>1, StmtsIn
      <4> QED
        BY <4>1, <4>2
    <3>2. CASE s.op # "ite"
      BY <2>1, <3>2 DEF AnyStmt
    <3> QED
      BY <3>1, <3>2
  <2> HIDE DEF new
  <2>7. FlowKept(<<s>>, <<new>>)
    <3>1. Reads(new) \subseteq Reads(s)
      BY <2>6, ReadsSame
    <3> QED
      BY <2>1, <2>5, <2>6, <3>1, KeptStmt DEF AnyStmt
  <2>8. <<new>> \in Code /\ <<s>> \in Code /\ <<>> \in Code
    BY <2>1, <2>6, FlowOne, SizeEmpty DEF AnyStmt
  <2>9. FlowKept(<<s>>, u \o <<new>>)
    <3>1. FlowKept(<<>> \o <<s>>, u \o <<new>>)
      BY <2>3, <2>7, <2>8, KeptConcat
    <3>2. <<>> \o <<s>> = <<s>>
      BY <2>8, ConcatEmptySeq DEF Code
    <3> QED
      BY <3>1, <3>2
  <2>10. u \o <<new>> \in Code
    BY <2>3, <2>8, CodeConcat
  <2>11. FlowKept(b, c)
    BY <1>2, <2>4, <2>5, <2>9, <2>10, KeptFirst DEF s
  <2> QED
    BY <2>2, <2>11
<1> HIDE DEF S
<1>3. Code \subseteq S
  BY <1>1, <1>2, CodeInduction
<1>4. ASSUME NEW b \in Code PROVE \A done \in SUBSET Idents : FlowKept(b, InitTables[<<b, done>>])
  BY <1>3 DEF S
<1> QED
  BY <1>4

-----------------------------------------------------------------------------
(* unwrapify.                                                                *)

\* What expressions read can be read after the assignments of their unwraps.
Carries(es, r) ==
  \A a \in Flows : ~a.ended =>
    LET f == Flow[<<r.unwraps, a>>]
    IN  /\ ~f.ended /\ a.names \subseteq f.names
        /\ a.ok /\ Names[es] \subseteq a.names => f.ok /\ Names[r.exprs] \subseteq f.names

LEMMA RangeOne ==
  ASSUME NEW S, NEW x \in S
  PROVE  Range(<<x>>) = {x}
<1> DEFINE c == <<x>>
<1>1. c \in Seq(S)
  BY OneSeq
<1>2. DOMAIN c = {1} /\ c[1] = x
  BY <1>1
<1> HIDE DEF c
<1>3. Range(c) = {x}
  BY <1>2 DEF Range
<1> QED
  BY <1>3 DEF c

LEMMA UnwrapsAreCode == Seq(StmtsTo[1]) \subseteq Code
<1>1. MaxCodeDepth \in Nat /\ 1 <= MaxCodeDepth
  BY DepthAssumption
<1> QED
  BY <1>1, TreesGrow DEF Code

\* An unwrap becomes an identifier that was assigned what it unwraps.
LEMMA ReplacedCarries ==
  ASSUME NEW e \in Exprs, NEW ctr \in Nat, NEW subs \in ReplacedList, NoDeeperExprs(e.args, subs.exprs),
         Carries(e.args, subs)
  PROVE  LET r == Replaced(e, ctr, subs)
         IN  /\ r.expr \in Exprs /\ <<r.expr>> \in Seq(Exprs) /\ r.unwraps \in Code
             /\ Carries(<<e>>, [exprs |-> <<r.expr>>, unwraps |-> r.unwraps])
<1> DEFINE new == [e EXCEPT !.args = subs.exprs]
           x == Generated(Advanced(ctr, subs.unwraps))
           us == subs.unwraps
<1>1. MaxExprDepth \in Nat /\ MaxExprDepth # 0 /\ e \in ExprsTo[MaxExprDepth] /\ e.args \in Seq(Exprs)
  BY DepthAssumption, NamesOne DEF Exprs
<1>2. new \in Exprs
  BY <1>1, RebuiltExpr DEF Exprs
<1>3. new.op = e.op /\ new.args = subs.exprs /\ new.name = e.name
  BY <1>1, ExprsIn
<1>4. us \in Code /\ us \in Seq(StmtsTo[1]) /\ subs.exprs \in Seq(Exprs)
  BY UnwrapsAreCode DEF ReplacedList
<1>5. x \in Idents /\ x # Ident("_")
  <2>1. Advanced(ctr, us) \in Nat
    BY <1>4, AdvancedType
  <2> QED
    BY <2>1, GeneratedIn DEF Generated, Ident
<1>6. Names[<<e>>] = OwnName(e) \cup Names[e.args] /\ Names[<<new>>] = OwnName(e) \cup Names[subs.exprs]
      /\ <<new>> \in Seq(Exprs)
  <2>1. OwnName(new) = OwnName(e)
    BY <1>3 DEF OwnName
  <2> HIDE DEF new
  <2> QED
    BY <1>2, <1>3, <2>1, NamesOne
<1>7. ASSUME NEW a \in Flows, ~a.ended
      PROVE  LET f == Flow[<<us, a>>]
             IN  /\ f \in Flows /\ ~f.ended /\ a.names \subseteq f.names
                 /\ a.ok /\ Names[<<e>>] \subseteq a.names => f.ok /\ Names[<<new>>] \subseteq f.names
  <2> DEFINE f == Flow[<<us, a>>]
  <2>1. f \in Flows
    BY <1>4, FlowType
  <2>2. /\ ~f.ended /\ a.names \subseteq f.names
        /\ a.ok /\ Names[e.args] \subseteq a.names => f.ok /\ Names[subs.exprs] \subseteq f.names
    BY <1>7 DEF Carries
  <2> HIDE DEF f, new
  <2>3. a.ok /\ Names[<<e>>] \subseteq a.names => f.ok /\ Names[<<new>>] \subseteq f.names
    BY <1>6, <2>2
  <2> QED
    BY <2>1, <2>2, <2>3 DEF f
<1>8. CASE e.op # "unwrap"
  <2>1. Replaced(e, ctr, subs) = [expr |-> new, unwraps |-> us]
    BY <1>8 DEF Replaced
  <2> HIDE DEF new, us
  <2>2. Carries(<<e>>, [exprs |-> <<new>>, unwraps |-> us])
    BY <1>7 DEF Carries
  <2> QED
    BY <1>2, <1>4, <1>6, <2>1, <2>2
<1>9. CASE e.op = "unwrap"
  <2> DEFINE t == Assign(x, <<>>, new)
             v == Var(x)
             ts == Append(us, t)
  <2>1. Replaced(e, ctr, subs) = [expr |-> v, unwraps |-> ts]
    BY <1>9 DEF Replaced
  <2> HIDE DEF new, x
  <2>2. v \in Exprs /\ <<v>> \in Seq(Exprs) /\ Names[<<v>>] = {x}
    <3>1. v \in Exprs
      BY <1>1, <1>5, VarIn DEF Exprs
    <3>2. OwnName(v) = {x} /\ v.args = <<>>
      BY DEF OwnName, Var, Expr
    <3> HIDE DEF v
    <3> QED
      BY <3>1, <3>2, NamesOne, NamesEmpty
  <2>3. t \in StmtsTo[1] /\ t.op = "assign" /\ t.args = <<new>> /\ t.idx = <<>> /\ t.to = <<x>>
    BY <1>2, <1>5, AssignIn
  <2> HIDE DEF t, v
  <2>4. t \in AnyStmt
    <3>1. MaxCodeDepth \in Nat /\ 1 <= MaxCodeDepth
      BY DepthAssumption
    <3> QED
      BY <2>3, <3>1, TreesGrow DEF AnyStmt
  <2>5. Reads(t) = Names[<<new>>]
    <3>1. ExprsOf(t) = <<new>>
      BY <1>6, <2>3, ConcatEmptySeq DEF ExprsOf
    <3> QED
      BY <2>3, <3>1 DEF Reads
  <2>6. Range(t.to) \ {Ident("_")} = {x}
    BY <1>5, <2>3, RangeOne
  <2> DEFINE q == <<t>>
  <2>7. ts = us \o q /\ ts \in Code /\ q \in Code /\ \A a \in Flows : Flow[<<q, a>>] = FlowAfter(t, a)
    <3>1. ts = us \o q
      BY <1>4, <2>3, AppendIsConcat
    <3>2. q \in Code /\ \A a \in Flows : Flow[<<q, a>>] = FlowAfter(t, a)
      BY <2>4, FlowOne
    <3> HIDE DEF q, ts
    <3> QED
      BY <1>4, <3>1, <3>2, CodeConcat
  <2> HIDE DEF ts, q
  <2>8. ASSUME NEW a \in Flows, ~a.ended
        PROVE  LET f == Flow[<<ts, a>>]
               IN  /\ ~f.ended /\ a.names \subseteq f.names
                   /\ a.ok /\ Names[<<e>>] \subseteq a.names => f.ok /\ Names[<<v>>] \subseteq f.names
    <3> DEFINE g == Flow[<<us, a>>]
               r == Reading(t, g)
               f == Assigning(t, r)
    <3>1. /\ g \in Flows /\ ~g.ended /\ a.names \subseteq g.names
          /\ a.ok /\ Names[<<e>>] \subseteq a.names => g.ok /\ Names[<<new>>] \subseteq g.names
      BY <1>7, <2>8
    <3>2. Flow[<<ts, a>>] = FlowAfter(t, g)
      <4>1. Flow[<<us \o q, a>>] = Flow[<<q, g>>]
        BY <1>4, <2>7, FlowConcat
      <4> HIDE DEF g
      <4> QED
        BY <2>7, <3>1, <4>1
    <3> HIDE DEF g
    <3>3. FlowAfter(t, g) = f
      BY <2>3, <3>1 DEF FlowAfter, AfterOf
    <3>4. r \in Flows /\ (r.ok <=> g.ok /\ Reads(t) \subseteq g.names) /\ r.names = g.names
      BY <3>1, ReadingIs
    <3> HIDE DEF r
    <3>7. f.ok = r.ok /\ (f.ended <=> t.op \in {"return", "abort"}) /\ f.names = r.names \cup (Range(t.to) \ {Ident("_")})
      BY <2>4, <3>4, AssigningIs
    <3>5. f.ok = r.ok /\ ~f.ended /\ f.names = r.names \cup {x}
      BY <2>3, <2>6, <3>7
    <3> HIDE DEF f
    <3>6. /\ ~f.ended /\ a.names \subseteq f.names
          /\ a.ok /\ Names[<<e>>] \subseteq a.names => f.ok /\ Names[<<v>>] \subseteq f.names
      BY <2>2, <2>5, <3>1, <3>4, <3>5
    <3> QED
      BY <3>2, <3>3, <3>6
  <2>9. Carries(<<e>>, [exprs |-> <<v>>, unwraps |-> ts])
    BY <2>8 DEF Carries
  <2> QED
    BY <2>1, <2>2, <2>7, <2>9
<1> QED
  BY <1>8, <1>9

LEMMA CarriesJoin ==
  ASSUME NEW es \in Seq(Exprs), NEW fs \in Seq(Exprs), NEW r, NEW q,
         r.exprs \in Seq(Exprs), q.exprs \in Seq(Exprs), r.unwraps \in Code, q.unwraps \in Code,
         Carries(es, r), Carries(fs, q)
  PROVE  Carries(es \o fs, [exprs |-> r.exprs \o q.exprs, unwraps |-> r.unwraps \o q.unwraps])
<1> DEFINE us == r.unwraps \o q.unwraps
<1>1. ASSUME NEW a \in Flows, ~a.ended
      PROVE  LET f == Flow[<<us, a>>]
             IN  /\ ~f.ended /\ a.names \subseteq f.names
                 /\ a.ok /\ Names[es \o fs] \subseteq a.names => f.ok /\ Names[r.exprs \o q.exprs] \subseteq f.names
  <2> DEFINE g == Flow[<<r.unwraps, a>>]
             f == Flow[<<q.unwraps, g>>]
  <2>1. g \in Flows
    BY FlowType
  <2>2. /\ ~g.ended /\ a.names \subseteq g.names
        /\ a.ok /\ Names[es] \subseteq a.names => g.ok /\ Names[r.exprs] \subseteq g.names
    BY <1>1 DEF Carries
  <2>3. Flow[<<us, a>>] = f
    BY FlowConcat
  <2> HIDE DEF g
  <2>4. /\ ~f.ended /\ g.names \subseteq f.names
        /\ g.ok /\ Names[fs] \subseteq g.names => f.ok /\ Names[q.exprs] \subseteq f.names
    BY <2>1, <2>2 DEF Carries
  <2>5. Names[es \o fs] = Names[es] \cup Names[fs] /\ Names[r.exprs \o q.exprs] = Names[r.exprs] \cup Names[q.exprs]
    BY NamesConcat
  <2> HIDE DEF f, us
  <2>6. /\ ~f.ended /\ a.names \subseteq f.names
        /\ a.ok /\ Names[es \o fs] \subseteq a.names => f.ok /\ Names[r.exprs \o q.exprs] \subseteq f.names
    BY <2>2, <2>4, <2>5
  <2> QED
    BY <2>3, <2>6
<1> HIDE DEF us
<1>2. Carries(es \o fs, [exprs |-> r.exprs \o q.exprs, unwraps |-> us])
  BY <1>1 DEF Carries
<1> QED
  BY <1>2 DEF us

\* Unwraps assigned in their order make known what the new expressions read.
LEMMA ReplaceCarries == \A es \in Seq(Exprs), ctr \in Nat : Carries(es, ReplaceUnwraps[<<es, ctr>>])
<1> DEFINE S == {es \in Seq(Exprs) : \A ctr \in Nat : Carries(es, ReplaceUnwraps[<<es, ctr>>])}
<1>1. ASSUME NEW es \in Seq(Exprs), \A y \in Seq(Exprs) : Below(ExprsRank[y], ExprsRank[es]) => y \in S
      PROVE  es \in S
  <2> SUFFICES ASSUME NEW ctr \in Nat PROVE Carries(es, ReplaceUnwraps[<<es, ctr>>])
    OBVIOUS
  <2>1. ReplaceUnwraps[<<es, ctr>>] = ReplaceUnwrapsOf(ReplaceUnwraps, <<es, ctr>>)
    BY ReplaceUnwrapsUnfold DEF ReplaceIn
  <2>2. CASE es = <<>>
    <3>1. ReplaceUnwraps[<<es, ctr>>] = [exprs |-> <<>>, unwraps |-> <<>>]
      BY <2>1, <2>2 DEF ReplaceUnwrapsOf
    <3>2. ASSUME NEW a \in Flows PROVE Flow[<<<<>>, a>>] = a
      BY FlowEnd, SizeEmpty
    <3> QED
      BY <2>2, <3>1, <3>2 DEF Carries
  <2>3. CASE es # <<>>
    <3> DEFINE e == Head(es)
               subs == ReplaceUnwraps[<<e.args, ctr>>]
               first == Replaced(e, ctr, subs)
               rest == ReplaceUnwraps[<<Tail(es), Advanced(ctr, first.unwraps)>>]
    <3>1. /\ e \in Exprs /\ e.args \in Seq(Exprs) /\ Below(ExprsRank[e.args], ExprsRank[es])
          /\ Tail(es) \in Seq(Exprs) /\ Below(ExprsRank[Tail(es)], ExprsRank[es])
      BY <2>3, ExprsTail, ExprsParts
    <3>2. subs \in ReplacedList /\ NoDeeperExprs(e.args, subs.exprs)
      BY <3>1, ReplaceUnwrapsUnfold DEF Typed, ReplaceIn, ReplaceOut
    <3>3. Carries(e.args, subs)
      BY <1>1, <3>1
    <3>4. /\ <<first.expr>> \in Seq(Exprs) /\ first.unwraps \in Code
          /\ Carries(<<e>>, [exprs |-> <<first.expr>>, unwraps |-> first.unwraps])
      BY <3>1, <3>2, <3>3, ReplacedCarries
    <3>5. Advanced(ctr, first.unwraps) \in Nat
      <4> HIDE DEF first
      <4> QED
        BY <3>4, AdvancedType DEF Code
    <3>6. Carries(Tail(es), rest) /\ rest.exprs \in Seq(Exprs) /\ rest.unwraps \in Code
      <4> HIDE DEF first
      <4> QED
        BY <1>1, <3>1, <3>5, ReplaceUnwrapsType, UnwrapsAreCode
    <3>7. ReplaceUnwraps[<<es, ctr>>] = [exprs |-> <<first.expr>> \o rest.exprs, unwraps |-> first.unwraps \o rest.unwraps]
      BY <2>1, <2>3 DEF ReplaceUnwrapsOf
    <3>8. es = <<e>> \o Tail(es) /\ <<e>> \in Seq(Exprs)
      BY <2>3, ConsOf
    <3> HIDE DEF first, rest, e
    <3> DEFINE p == [exprs |-> <<first.expr>>, unwraps |-> first.unwraps]
    <3>9. p.exprs = <<first.expr>> /\ p.unwraps = first.unwraps
      OBVIOUS
    <3> HIDE DEF p
    <3>10. Carries(<<e>> \o Tail(es), [exprs |-> p.exprs \o rest.exprs, unwraps |-> p.unwraps \o rest.unwraps])
      BY <3>1, <3>4, <3>6, <3>8, <3>9, CarriesJoin DEF p
    <3> QED
      BY <3>7, <3>8, <3>9, <3>10
  <2> QED
    BY <2>2, <2>3
<1>2. Seq(Exprs) \subseteq S
  <2> DEFINE T == Seq(Exprs)
  <2> HIDE DEF S
  <2>1. ExprsRank \in [T -> Nat \X Nat]
    BY CodeRankType
  <2>2. \A es \in T : (\A y \in T : Below(ExprsRank[y], ExprsRank[es]) => y \in S) => es \in S
    BY <1>1
  <2> HIDE DEF T
  <2>3. T \subseteq S
    BY <2>1, <2>2, RankInduction
  <2> QED
    BY <2>3 DEF T
<1> QED
  BY <1>2

LEMMA UnwrapifyFlowStep ==
  ASSUME NEW b \in Code, b # <<>>, NEW ctr \in Nat,
         \A k \in Nat : FlowKept(Head(b).then, Unwrapify[<<Head(b).then, k>>].code),
         \A k \in Nat : FlowKept(Head(b).else, Unwrapify[<<Head(b).else, k>>].code),
         \A k \in Nat : FlowKept(Tail(b), Unwrapify[<<Tail(b), k>>].code)
  PROVE  FlowKept(b, Unwrapify[<<b, ctr>>].code)
<1> DEFINE s == Head(b)
           r == ReplaceUnwraps[<<ExprsOf(s), ctr>>]
           then == Unwrapify[<<s.then, Advanced(ctr, r.unwraps)>>]
           else == Unwrapify[<<s.else, then.ctr>>]
           rest == Unwrapify[<<Tail(b), else.ctr>>]
           new == Unwrapping(s, r.exprs, then.code, else.code)
           us == r.unwraps
           n == <<new>>
<1>1. /\ Unwrapify[<<b, ctr>>].code = us \o n \o rest.code
      /\ ExprsOf(s) \in Seq(Exprs) /\ Advanced(ctr, us) \in Nat /\ then.ctr \in Nat /\ else.ctr \in Nat
      /\ NoDeeper(s.then, then.code) /\ NoDeeper(s.else, else.code)
      /\ rest.code \in Code
      /\ s \in StmtsTo[MaxCodeDepth] /\ MaxCodeDepth \in Nat
  BY UnwrapifyStep
<1>2. /\ r.exprs \in Seq(Exprs) /\ Len(r.exprs) = Len(ExprsOf(s)) /\ us \in Code /\ Carries(ExprsOf(s), r)
  BY <1>1, ReplaceUnwrapsType, UnwrapsAreCode, ReplaceCarries
<1>3. FlowKept(s.then, then.code) /\ FlowKept(s.else, else.code) /\ FlowKept(Tail(b), rest.code)
  BY <1>1
<1>4. s \in AnyStmt
  BY <1>1 DEF AnyStmt
<1> HIDE DEF s, r, then, else, rest
<1>5. /\ new \in AnyStmt /\ ExprsOf(new) = r.exprs /\ (new.idx = <<>> <=> s.idx = <<>>)
      /\ new.op = s.op /\ new.to = s.to /\ new.then = then.code /\ new.else = else.code
  BY <1>1, <1>2, UnwrappingIn DEF AnyStmt
<1> HIDE DEF new
<1>6. n \in Code /\ \A a \in Flows : Flow[<<n, a>>] = FlowAfter(new, a)
  BY <1>5, FlowOne
<1>7. <<s>> \in Code /\ \A a \in Flows : Flow[<<<<s>>, a>>] = FlowAfter(s, a)
  BY <1>4, FlowOne
<1> HIDE DEF n
<1>8. ASSUME NEW x \in Flows, NEW y \in Flows, Better(x, y)
      PROVE  Better(FlowAfter(s, x), Flow[<<us \o n, y>>])
  <2> DEFINE f == Flow[<<us, y>>]
  <2>1. f \in Flows
    BY <1>2, FlowType
  <2>2. Flow[<<us \o n, y>>] = FlowAfter(new, f)
    <3>1. Flow[<<us \o n, y>>] = Flow[<<n, f>>]
      BY <1>2, <1>6, FlowConcat
    <3> HIDE DEF f
    <3> QED
      BY <1>6, <2>1, <3>1
  <2>3. CASE y.ended
    <3>1. f = y
      BY <1>2, <2>3, FlowEnd
    <3>2. FlowAfter(new, f) = y
      BY <2>3, <3>1 DEF FlowAfter
    <3>3. FlowAfter(s, x).ok => x.ok
      BY <1>4, AfterOk
    <3> QED
      BY <1>8, <2>2, <2>3, <3>2, <3>3 DEF Better
  <2>4. CASE ~y.ended
    <3>1. ~x.ended /\ x.names \subseteq y.names /\ (x.ok => y.ok)
      BY <1>8, <2>4 DEF Better
    <3>2. /\ ~f.ended /\ y.names \subseteq f.names
          /\ y.ok /\ Names[ExprsOf(s)] \subseteq y.names => f.ok /\ Names[r.exprs] \subseteq f.names
      BY <1>2, <2>4 DEF Carries
    <3> HIDE DEF f
    <3>3. Reading(s, x).ok => Reading(new, f).ok
      <4>1. Reading(s, x).ok => x.ok /\ Reads(s) \subseteq x.names
        BY ReadingIs
      <4>2. f.ok /\ Reads(new) \subseteq f.names => Reading(new, f).ok
        BY <2>1, ReadingIs
      <4>3. /\ Reads(s) = Names[ExprsOf(s)] \cup (IF s.idx = <<>> THEN {} ELSE {s.to[1]})
            /\ Reads(new) = Names[r.exprs] \cup (IF s.idx = <<>> THEN {} ELSE {s.to[1]})
        BY <1>5 DEF Reads
      <4> DEFINE own == IF s.idx = <<>> THEN {} ELSE {s.to[1]}
      <4> HIDE DEF own
      <4>4. Reads(s) = Names[ExprsOf(s)] \cup own /\ Reads(new) = Names[r.exprs] \cup own
        BY <4>3 DEF own
      <4> QED
        BY <3>1, <3>2, <4>1, <4>2, <4>4
    <3>4. x.names \subseteq f.names
      BY <3>1, <3>2
    <3>5. Better(FlowAfter(s, x), FlowAfter(new, f))
      BY <1>3, <1>4, <1>5, <2>1, <3>1, <3>2, <3>3, <3>4, AfterBetter
    <3> QED
      BY <2>2, <3>5
  <2> QED
    BY <2>3, <2>4
<1>9. FlowKept(<<s>>, us \o n)
  BY <1>7, <1>8 DEF FlowKept
<1>10. us \o n \in Code
  BY <1>2, <1>6, CodeConcat
<1>11. FlowKept(b, (us \o n) \o rest.code)
  BY <1>1, <1>3, <1>9, <1>10, KeptFirst DEF s
<1> QED
  BY <1>1, <1>11

\* unwrapify assigns each unwrap before the statement that reads it.
LEMMA UnwrapifyFlow == \A b \in Code, ctr \in Nat : FlowKept(b, Unwrapify[<<b, ctr>>].code)
<1> DEFINE S == {b \in Code : \A ctr \in Nat : FlowKept(b, Unwrapify[<<b, ctr>>].code)}
<1>1. <<>> \in S
  <2>1. ASSUME NEW b \in Code, b = <<>>, NEW ctr \in Nat PROVE Unwrapify[<<b, ctr>>].code = b
    <3>1. Unwrapify[<<b, ctr>>] = UnwrapifyOf(Unwrapify, <<b, ctr>>)
      BY UnwrapifyUnfold DEF UnwrapifyIn
    <3>2. UnwrapifyOf(Unwrapify, <<b, ctr>>) = [code |-> <<>>, ctr |-> ctr]
      BY <2>1 DEF UnwrapifyOf
    <3> QED
      BY <2>1, <3>1, <3>2
  <2> QED
    BY <2>1, KeptEmpty, SizeEmpty
<1>2. ASSUME NEW b \in Code, b # <<>>, Head(b).then \in S, Head(b).else \in S, Tail(b) \in S PROVE b \in S
  BY <1>2, UnwrapifyFlowStep
<1> HIDE DEF S
<1>3. Code \subseteq S
  BY <1>1, <1>2, CodeInduction
<1>4. ASSUME NEW b \in Code PROVE \A ctr \in Nat : FlowKept(b, Unwrapify[<<b, ctr>>].code)
  BY <1>3 DEF S
<1> QED
  BY <1>4

-----------------------------------------------------------------------------
(* Sets as sequences.                                                        *)

\* Every element is in the sequence, and nothing else.
LEMMA SetToSeqIs ==
  ASSUME NEW S, IsFiniteSet(S)
  PROVE  SetToSeq(S) \in Seq(S) /\ \A x \in S : \E i \in DOMAIN SetToSeq(S) : SetToSeq(S)[i] = x
<1> DEFINE n == Cardinality(S)
           f == SetToSeq(S)
<1>1. n \in Nat /\ ExistsBijection(1 .. n, S)
  BY FS_CardinalityType
<1>2. \E g \in [1 .. n -> S] : IsInjective(g)
  BY <1>1 DEF ExistsBijection, Bijection, Injection
<1>3. f \in [1 .. n -> S] /\ IsInjective(f)
  BY <1>2 DEF SetToSeq
<1>4. f \in Injection(1 .. n, S)
  BY <1>3 DEF Injection
<1>5. IsFiniteSet(1 .. n) /\ Cardinality(1 .. n) = n
  <2>1. 1 \in Int /\ n \in Int
    BY <1>1
  <2> HIDE DEF n
  <2>2. IsFiniteSet(1 .. n) /\ Cardinality(1 .. n) = IF 1 > n THEN 0 ELSE n - 1 + 1
    BY <2>1, FS_Interval
  <2> QED
    BY <1>1, <2>2
<1> HIDE DEF f
<1>6. f \in Surjection(1 .. n, S)
  BY <1>4, <1>5, FS_Injection
<1>7. \A x \in S : \E i \in 1 .. n : f[i] = x
  BY <1>6 DEF Surjection
<1> HIDE DEF n
<1>8. f \in Seq(S) /\ DOMAIN f = 1 .. n
  BY <1>1, <1>3
<1> QED
  BY <1>7, <1>8 DEF f

\* The list of the indices that are kept, and what is at them.
LEMMA PickedSeq ==
  ASSUME NEW S, NEW K, NEW f, NEW k, NEW p, IsFiniteSet(K), \A i \in K : f[i] \in S,
         k = SetToSeq(K), p = [i \in DOMAIN k |-> p[i]], \A i \in DOMAIN k : p[i] = f[k[i]]
  PROVE  p \in Seq(S) /\ DOMAIN p = DOMAIN k
<1>1. k \in Seq(K)
  BY SetToSeqIs
<1>2. \A i \in DOMAIN k : p[i] \in S
  BY <1>1, ElementOfSeq, LenProperties
<1> QED
  BY <1>1, <1>2, SeqOfFunction

LEMMA PickedRange ==
  ASSUME NEW S, NEW K, NEW f, NEW k, NEW p \in Seq(S), DOMAIN p = DOMAIN k, IsFiniteSet(K),
         k = SetToSeq(K), \A i \in DOMAIN k : p[i] = f[k[i]]
  PROVE  \A x : x \in Range(p) <=> \E i \in K : x = f[i]
<1>1. k \in Seq(K) /\ \A x \in K : \E i \in DOMAIN k : k[i] = x
  BY SetToSeqIs
<1>2. \A i \in DOMAIN k : k[i] \in K
  BY <1>1, ElementOfSeq, LenProperties
<1>3. \A x : x \in Range(p) <=> \E i \in DOMAIN k : x = p[i]
  BY RangeIs
<1> QED
  BY <1>1, <1>2, <1>3

LEMMA DomainFinite ==
  ASSUME NEW S, NEW q \in Seq(S), NEW K, K \subseteq DOMAIN q
  PROVE  IsFiniteSet(K)
<1>1. DOMAIN q = 1 .. Len(q) /\ Len(q) \in Nat
  BY LenProperties
<1>2. IsFiniteSet(1 .. Len(q))
  <2> DEFINE n == Len(q)
  <2>1. 1 \in Int /\ n \in Int
    BY <1>1
  <2> HIDE DEF n
  <2>2. IsFiniteSet(1 .. n)
    BY <2>1, FS_Interval
  <2> QED
    BY <2>2 DEF n
<1> QED
  BY <1>1, <1>2, FS_Subset

-----------------------------------------------------------------------------
(* Terms.                                                                    *)

TermRecord(S) == [op : TermOperations, name : Idents, num : Int, target : Instances \cup {""},
                  to : Seq(Idents), args : Seq(S)]

\* A term is an expression, or an operation on terms of less depth.
LEMMA TermsIs ==
  ASSUME NEW n \in Nat
  PROVE  TermsTo[n + 1] = Exprs \cup TermRecord(TermsTo[n])
<1>1. n + 1 \in Nat /\ n + 1 # 0 /\ (n + 1) - 1 = n
  OBVIOUS
<1> QED
  BY <1>1, TreesUnfold DEF TermLevel, TermRecord

LEMMA ExprOperation == \A e \in Exprs : e.op \in Operations
BY DepthAssumption, ExprsIn DEF Exprs

LEMMA TermOperation == \A op \in TermOperations : op \notin Operations
BY DEF TermOperations, Operations

\* A term that is no expression has terms as its arguments.
LEMMA TermParts ==
  ASSUME NEW n \in Nat, NEW t \in TermsTo[n], t.op \notin Operations
  PROVE  n # 0 /\ n - 1 \in Nat /\ t \in TermRecord(TermsTo[n - 1])
<1>1. n # 0 /\ n - 1 \in Nat /\ (n - 1) + 1 = n
  BY TreesUnfold
<1>2. TermsTo[n] = Exprs \cup TermRecord(TermsTo[n - 1])
  BY <1>1, TermsIs
<1> QED
  BY <1>1, <1>2, ExprOperation

LEMMA TermOrExpr ==
  ASSUME NEW n \in Nat, NEW t \in TermsTo[n], t.op \in Operations
  PROVE  t \in Exprs
<1>1. n # 0 /\ n - 1 \in Nat /\ (n - 1) + 1 = n
  BY TreesUnfold
<1>2. TermsTo[n] = Exprs \cup TermRecord(TermsTo[n - 1])
  BY <1>1, TermsIs
<1> QED
  BY <1>2, TermOperation DEF TermRecord

TermRank == [t \in Terms |-> <<LevelOf(TermsTo, <<t>>), 0>>]

LEMMA TermRankType == TermRank \in [Terms -> Nat \X Nat]
<1>1. \A t \in Terms : LevelOf(TermsTo, <<t>>) \in Nat
  <2> SUFFICES ASSUME NEW t \in Terms PROVE LevelOf(TermsTo, <<t>>) \in Nat
    OBVIOUS
  <2>1. <<t>> \in Seq(TermsTo[MaxTermDepth])
    BY OneSeq DEF Terms
  <2> QED
    BY <2>1, LevelIsLeast, TermDepthAssumption
<1> QED
  BY <1>1 DEF TermRank

\* The arguments of a term are terms of smaller rank.
LEMMA TermArgs ==
  ASSUME NEW t \in Terms, t.op \notin Operations
  PROVE  /\ t.args \in Seq(Terms) /\ t.to \in Seq(Idents) /\ t.op \in TermOperations
         /\ \A i \in DOMAIN t.args : t.args[i] \in Terms /\ Below(TermRank[t.args[i]], TermRank[t])
<1>1. MaxTermDepth \in Nat
  BY TermDepthAssumption
<1>2. /\ MaxTermDepth - 1 \in Nat /\ MaxTermDepth - 1 <= MaxTermDepth
      /\ t \in TermRecord(TermsTo[MaxTermDepth - 1])
  BY <1>1, TermParts DEF Terms
<1>3. t.args \in Seq(TermsTo[MaxTermDepth - 1]) /\ t.to \in Seq(Idents) /\ t.op \in TermOperations
  BY <1>2 DEF TermRecord
<1>4. t.args \in Seq(Terms)
  BY <1>1, <1>2, <1>3, TreesGrow DEF Terms
<1> DEFINE c == <<t>>
           n == LevelOf(TermsTo, c)
<1>5. c \in Seq(TermsTo[MaxTermDepth]) /\ DOMAIN c = {1} /\ c[1] = t
  <2>1. c \in Seq(TermsTo[MaxTermDepth])
    BY OneSeq DEF Terms
  <2> QED
    BY <2>1
<1> HIDE DEF c
<1>6. n \in Nat /\ c \in Seq(TermsTo[n])
  BY <1>1, <1>5, LevelIsLeast
<1> HIDE DEF n
<1>7. t \in TermsTo[n]
  BY <1>5, <1>6, ElementOfSeq, LenProperties
<1>8. n # 0 /\ n - 1 \in Nat /\ t.args \in Seq(TermsTo[n - 1])
  BY <1>6, <1>7, TermParts DEF TermRecord
<1>9. ASSUME NEW i \in DOMAIN t.args
      PROVE  t.args[i] \in Terms /\ Below(TermRank[t.args[i]], TermRank[t])
  <2> DEFINE u == t.args[i]
             d == <<u>>
  <2>1. u \in Terms /\ u \in TermsTo[n - 1]
    BY <1>4, <1>8, ElementOfSeq, LenProperties
  <2>2. d \in Seq(TermsTo[n - 1])
    BY <2>1, OneSeq
  <2>3. TermRank[u] = <<LevelOf(TermsTo, d), 0>>
    BY <2>1 DEF TermRank
  <2>4. TermRank[t] = <<n, 0>>
    BY DEF TermRank, n, c
  <2> HIDE DEF u, d
  <2>5. LevelOf(TermsTo, d) \in Nat /\ LevelOf(TermsTo, d) <= n - 1
    BY <1>8, <2>2, LevelIsLeast
  <2>6. Below(TermRank[u], TermRank[t])
    BY <1>6, <2>3, <2>4, <2>5 DEF Below
  <2> QED
    BY <2>1, <2>6 DEF u
<1> QED
  BY <1>3, <1>4, <1>9

-----------------------------------------------------------------------------
(* What is free in a term.                                                   *)

FreeOf(f, t) ==
  IF t.op \in Operations THEN Names[<<t>>]
  ELSE StateRead(t) \cup UNION {f[t.args[i]] \ BoundIn(t, i) : i \in DOMAIN t.args}

\* What an operation's arguments leave free, it does, and the state if it writes it back.
LEMMA OperationFree ==
  ASSUME NEW t, NEW f, NEW N, t.op \notin Operations,
         \A i \in DOMAIN t.args : f[t.args[i]] \ BoundIn(t, i) \subseteq N,
         t.op = "write-back" => State \subseteq N
  PROVE  FreeOf(f, t) \subseteq N
<1>1. \A x \in FreeOf(f, t) : x \in StateRead(t) \/ \E i \in DOMAIN t.args : x \in f[t.args[i]] \ BoundIn(t, i)
  BY DEF FreeOf
<1>2. StateRead(t) \subseteq N
  BY DEF StateRead
<1> QED
  BY <1>1, <1>2

\* Free is total, and its definition holds everywhere.
LEMMA FreeUnfold ==
  /\ Free \in [Terms -> SUBSET Idents]
  /\ \A t \in Terms : Free[t] = FreeOf(Free, t)
<1> DEFINE V == [x \in Terms |-> SUBSET Idents]
           E == [p \in Terms \X Typed(Terms, V) |-> FreeOf(p[2], p[1])]
<1>1. \A x \in Terms, g \in Typed(Terms, V) : E[<<x, g>>] = FreeOf(g, x)
  OBVIOUS
<1>2. \A x \in Terms : V[x] = SUBSET Idents
  OBVIOUS
<1>3. ASSUME NEW x \in Terms, NEW g, NEW h, AgreeBelow(Terms, TermRank, g, h, x) PROVE FreeOf(g, x) = FreeOf(h, x)
  <2>1. CASE x.op \in Operations
    BY <2>1 DEF FreeOf
  <2>2. CASE x.op \notin Operations
    <3>1. \A i \in DOMAIN x.args : g[x.args[i]] = h[x.args[i]]
      BY <1>3, <2>2, TermArgs DEF AgreeBelow
    <3> QED
      BY <2>2, <3>1 DEF FreeOf
  <2> QED
    BY <2>1, <2>2
<1>4. ASSUME NEW x \in Terms, NEW g \in Typed(Terms, V) PROVE FreeOf(g, x) \in SUBSET Idents
  <2>1. \A t \in Terms : g[t] \in SUBSET Idents
    BY <1>2 DEF Typed
  <2>2. CASE x.op \in Operations
    <3>1. x \in Exprs
      BY <2>2, TermOrExpr, TermDepthAssumption DEF Terms
    <3>2. <<x>> \in Seq(Exprs) /\ Names[<<x>>] \in SUBSET Idents
      BY <3>1, NamesOne, NamesUnfold
    <3> QED
      BY <2>2, <3>2 DEF FreeOf
  <2>3. CASE x.op \notin Operations
    <3>1. \A i \in DOMAIN x.args : g[x.args[i]] \in SUBSET Idents
      BY <2>1, <2>3, TermArgs
    <3>2. State \subseteq Idents
      BY StateAssumption
    <3>3. FreeOf(g, x) \subseteq Idents
      BY <2>3, <3>1, <3>2, OperationFree
    <3> QED
      BY <3>3
  <2> QED
    BY <2>2, <2>3
<1> HIDE DEF V, E
<1>5. Recurses(Terms, TermRank, V, E)
  <2>2. \A x \in Terms : V[x] # {}
    BY <1>2
  <2>3. \A x \in Terms, g \in Typed(Terms, V) : E[<<x, g>>] \in V[x]
    BY <1>1, <1>2, <1>4
  <2>4. \A x \in Terms : \A g, h \in Typed(Terms, V) : AgreeBelow(Terms, TermRank, g, h, x) => E[<<x, g>>] = E[<<x, h>>]
    BY <1>1, <1>3
  <2> QED
    BY TermRankType, <2>2, <2>3, <2>4 DEF Recurses
<1>6. PICK f \in Typed(Terms, V) : f = [x \in Terms |-> E[<<x, f>>]]
  BY <1>5, RecursionExists
<1>7. f = [x \in Terms |-> FreeOf(f, x)]
  BY <1>1, <1>6
<1>8. Free = [x \in Terms |-> FreeOf(Free, x)]
  BY <1>7 DEF Free, FreeOf
<1>9. Free \in Typed(Terms, V)
  <2>1. Free = [x \in Terms |-> Free[x]]
    BY <1>8
  <2>2. \A x \in Terms : Free[x] = FreeOf(Free, x)
    BY <1>8
  <2> QED
    BY <1>1, <1>3, <1>5, <2>1, <2>2, RecursionTyped
<1> QED
  BY <1>2, <1>8, <1>9 DEF Typed

\* A term, if it is one, whose free identifiers are in N.
Within(t, N) == t \in Terms => Free[t] \subseteq N

\* Expressions leave free what they read.
LEMMA WithinMore == \A t, M, N : Within(t, M) /\ M \subseteq N => Within(t, N)
BY DEF Within

LEMMA WithinExprs ==
  ASSUME NEW es \in Seq(Exprs), NEW N, Names[es] \subseteq N
  PROVE  \A i \in DOMAIN es : es[i] \in Exprs /\ Within(es[i], N)
<1> SUFFICES ASSUME NEW i \in DOMAIN es PROVE es[i] \in Exprs /\ Within(es[i], N)
  OBVIOUS
<1> DEFINE e == es[i]
<1>1. e \in Exprs
  BY ElementOfSeq, LenProperties
<1>2. \A x : x \in OwnName(e) \/ x \in Names[e.args] => x \in Names[es]
  BY NamesIs
<1> HIDE DEF e
<1>3. Names[<<e>>] = OwnName(e) \cup Names[e.args]
  BY <1>1, NamesOne
<1>4. e \in Terms => Free[e] = Names[<<e>>]
  BY <1>1, ExprOperation, FreeUnfold DEF FreeOf
<1>5. Names[<<e>>] \subseteq N
  BY <1>2, <1>3
<1> QED
  BY <1>1, <1>4, <1>5 DEF Within, e

LEMMA WithinVar ==
  ASSUME NEW x \in Idents, NEW N, x \in N
  PROVE  Var(x) \in Exprs /\ <<Var(x)>> \in Seq(Exprs) /\ Within(Var(x), N)
<1> DEFINE v == Var(x)
           c == <<v>>
<1>1. v \in Exprs
  BY VarIn, DepthAssumption DEF Exprs
<1>2. v.op = "var" /\ v.name = x /\ v.args = <<>>
  BY DEF Var, Expr
<1> HIDE DEF v
<1>3. c \in Seq(Exprs) /\ Names[c] = OwnName(v) \cup Names[v.args]
  BY <1>1, NamesOne
<1>4. Names[v.args] = {}
  BY <1>2, NamesEmpty
<1>5. OwnName(v) = {x}
  BY <1>2 DEF OwnName
<1>6. DOMAIN c = {1} /\ c[1] = v
  BY <1>3
<1> HIDE DEF c
<1>7. Names[c] \subseteq N
  BY <1>3, <1>4, <1>5
<1>8. Within(c[1], N)
  BY <1>3, <1>6, <1>7, WithinExprs
<1> QED
  BY <1>1, <1>3, <1>6, <1>8 DEF v, c

\* An operation on what is within N.
LEMMA WithinTerm ==
  ASSUME NEW t, NEW N, t.op \notin Operations, t.op # "write-back",
         \A i \in DOMAIN t.args : Within(t.args[i], N)
  PROVE  Within(t, N)
<1> SUFFICES ASSUME t \in Terms PROVE Free[t] \subseteq N
  BY DEF Within
<1>1. \A i \in DOMAIN t.args : t.args[i] \in Terms
  BY TermArgs
<1>2. \A i \in DOMAIN t.args : Free[t.args[i]] \subseteq N
  BY <1>1 DEF Within
<1>3. Free[t] = FreeOf(Free, t)
  BY FreeUnfold
<1> QED
  BY <1>2, <1>3, OperationFree

\* A let binds what it names in its body.
LEMMA WithinBinder ==
  ASSUME NEW t, NEW N, t.op = "let", \A i \in DOMAIN t.args : i # Len(t.args) => Within(t.args[i], N),
         Within(t.args[Len(t.args)], N \cup Range(t.to))
  PROVE  Within(t, N)
<1> SUFFICES ASSUME t \in Terms PROVE Free[t] \subseteq N
  BY DEF Within
<1>1. t.op \notin Operations /\ t.op # "write-back"
  BY DEF Operations
<1>2. \A i \in DOMAIN t.args : t.args[i] \in Terms
  BY <1>1, TermArgs
<1>3. ASSUME NEW i \in DOMAIN t.args PROVE Free[t.args[i]] \ BoundIn(t, i) \subseteq N
  <2>1. CASE i = Len(t.args)
    <3>1. Free[t.args[i]] \subseteq N \cup Range(t.to)
      BY <1>2, <2>1 DEF Within
    <3> QED
      BY <2>1, <3>1 DEF BoundIn
  <2>2. CASE i # Len(t.args)
    <3>1. Free[t.args[i]] \subseteq N
      BY <1>2, <2>2 DEF Within
    <3> QED
      BY <3>1
  <2> QED
    BY <2>1, <2>2
<1>4. Free[t] = FreeOf(Free, t)
  BY FreeUnfold
<1> QED
  BY <1>1, <1>3, <1>4, OperationFree

-----------------------------------------------------------------------------
(* Terms of any depth.                                                       *)

AnyTerm == UNION {TermsTo[n] : n \in Nat}

\* A list of terms is built from one level.
LEMMA AnyList == \A q \in Seq(AnyTerm) : \E n \in Nat : q \in Seq(TermsTo[n])
<1> DEFINE S == {k \in Nat : \A q \in Seq(AnyTerm) : Len(q) = k => \E n \in Nat : q \in Seq(TermsTo[n])}
<1>1. 0 \in S
  <2> SUFFICES ASSUME NEW q \in Seq(AnyTerm), Len(q) = 0 PROVE q \in Seq(TermsTo[0])
    OBVIOUS
  <2>1. q = <<>>
    BY EmptySeq
  <2> QED
    BY <2>1
<1>2. ASSUME NEW k \in S PROVE k + 1 \in S
  <2>1. k \in Nat /\ k + 1 \in Nat
    OBVIOUS
  <2> SUFFICES ASSUME NEW q \in Seq(AnyTerm), Len(q) = k + 1 PROVE \E n \in Nat : q \in Seq(TermsTo[n])
    BY <2>1
  <2>2. q # <<>>
    BY <2>1, EmptySeq
  <2>3. Head(q) \in AnyTerm /\ Tail(q) \in Seq(AnyTerm) /\ q = <<Head(q)>> \o Tail(q)
    BY <2>2, ConsOf
  <2>4. Len(Tail(q)) = k
    BY <2>1, <2>2, HeadTailProperties
  <2>5. PICK n \in Nat : Tail(q) \in Seq(TermsTo[n])
    BY <2>1, <2>3, <2>4
  <2>6. PICK m \in Nat : Head(q) \in TermsTo[m]
    BY <2>3 DEF AnyTerm
  <2>7. PICK u \in Nat : n <= u /\ m <= u
    <3>1. n <= m => m \in Nat /\ n <= m /\ m <= m
      OBVIOUS
    <3>2. ~(n <= m) => n \in Nat /\ n <= n /\ m <= n
      OBVIOUS
    <3> QED
      BY <3>1, <3>2
  <2>8. Head(q) \in TermsTo[u] /\ Tail(q) \in Seq(TermsTo[u])
    BY <2>5, <2>6, <2>7, TreesGrow
  <2>9. <<Head(q)>> \in Seq(TermsTo[u])
    BY <2>8, OneSeq
  <2>10. <<Head(q)>> \o Tail(q) \in Seq(TermsTo[u])
    BY <2>8, <2>9, ConcatProperties
  <2> QED
    BY <2>3, <2>10
<1>3. S \in SUBSET Nat
  OBVIOUS
<1> HIDE DEF S
<1>4. S = Nat
  BY <1>1, <1>2, <1>3, NatSteps
<1>5. ASSUME NEW q \in Seq(AnyTerm) PROVE \E n \in Nat : q \in Seq(TermsTo[n])
  <2>1. Len(q) \in S
    BY <1>4, LenProperties
  <2> QED
    BY <2>1 DEF S
<1> QED
  BY <1>5

\* What is built of terms is a term.
LEMMA AnyTermIs == Exprs \subseteq AnyTerm /\ Seq(Exprs) \subseteq Seq(AnyTerm) /\ TermRecord(AnyTerm) \subseteq AnyTerm
<1>1. 0 \in Nat /\ 0 + 1 = 1 /\ 1 \in Nat
  OBVIOUS
<1>2. Exprs \subseteq AnyTerm
  BY <1>1, TermsIs DEF AnyTerm
<1>3. ASSUME NEW t \in TermRecord(AnyTerm) PROVE t \in AnyTerm
  <2>1. PICK n \in Nat : t.args \in Seq(TermsTo[n])
    BY AnyList DEF TermRecord
  <2>2. t \in TermRecord(TermsTo[n])
    BY <2>1 DEF TermRecord
  <2>3. t \in TermsTo[n + 1] /\ n + 1 \in Nat
    BY <2>2, TermsIs
  <2> QED
    BY <2>3 DEF AnyTerm
<1> QED
  BY <1>2, <1>3, SeqMonotonic

\* The writer's identifiers.
LEMMA NoIdent == Ident("") \in Idents /\ GameState \in Idents /\ Ret \in Idents
BY DEF Ident, Idents, GameState, Ret

\* An operation.
LEMMA TermIs ==
  ASSUME NEW op \in TermOperations, NEW args
  PROVE  /\ Term(op, args).op = op /\ Term(op, args).args = args /\ Term(op, args).to = <<>>
         /\ args \in Seq(AnyTerm) => Term(op, args) \in TermRecord(AnyTerm)
<1> DEFINE t == Term(op, args)
<1>1. t = [op |-> op, name |-> Ident(""), num |-> 0, target |-> "", to |-> <<>>, args |-> args]
  BY DEF Term
<1> HIDE DEF t
<1>2. t.op = op
  BY <1>1
<1>3. t.args = args /\ t.to = <<>>
  BY <1>1
<1>4. ASSUME args \in Seq(AnyTerm) PROVE t \in TermRecord(AnyTerm)
  <2>1. Ident("") \in Idents
    BY NoIdent
  <2>4. 0 \in Int /\ "" \in Instances \cup {""}
    OBVIOUS
  <2>5. <<>> \in Seq(Idents)
    OBVIOUS
  <2> DEFINE x == Ident("")
  <2>2. t = [op |-> op, name |-> x, num |-> 0, target |-> "", to |-> <<>>, args |-> args]
    BY <1>1
  <2>3. x \in Idents
    BY <2>1
  <2> HIDE DEF x
  <2> QED
    BY <1>4, <2>2, <2>3, <2>4, <2>5 DEF TermRecord
<1> QED
  BY <1>2, <1>3, <1>4 DEF t

\* Two and three terms are lists of terms.
LEMMA OneTerm == \A S : \A a \in S : <<a>> \in Seq(S) /\ DOMAIN <<a>> = {1} /\ <<a>>[1] = a
OBVIOUS
LEMMA TwoTerms ==
  \A S : \A a, b \in S : <<a, b>> \in Seq(S) /\ DOMAIN <<a, b>> = {1, 2}
OBVIOUS
LEMMA ThreeTerms ==
  \A S : \A a, b, c \in S : <<a, b, c>> \in Seq(S) /\ DOMAIN <<a, b, c>> = {1, 2, 3}
OBVIOUS

-----------------------------------------------------------------------------
(* Terms with what they leave free.                                          *)

\* A term whose free identifiers are in N.
Good(t, N) == t \in AnyTerm /\ Within(t, N)
AllGood(ts, N) == ts \in Seq(AnyTerm) /\ \A i \in DOMAIN ts : Within(ts[i], N)

Targets == Instances \cup {""}
NoTarget == ""

TermOf(op, name, num, target, to, args) ==
  [op |-> op, name |-> name, num |-> num, target |-> target, to |-> to, args |-> args]

LEMMA TermOfFields ==
  ASSUME NEW op, NEW name, NEW num, NEW target, NEW to, NEW args, NEW t, t = TermOf(op, name, num, target, to, args)
  PROVE  t.op = op /\ t.to = to /\ t.args = args
<1>1. t = [op |-> op, name |-> name, num |-> num, target |-> target, to |-> to, args |-> args]
  BY DEF TermOf
<1>2. t.op = op
  BY <1>1
<1>3. t.args = args
  BY <1>1
<1>4. t.to = to
  BY <1>1
<1> QED
  BY <1>2, <1>3, <1>4

LEMMA TermOfIs ==
  ASSUME NEW op \in TermOperations, NEW name \in Idents, NEW num \in Int, NEW target \in Targets,
         NEW to \in Seq(Idents), NEW args \in Seq(AnyTerm)
  PROVE  TermOf(op, name, num, target, to, args) \in AnyTerm
<1>1. TermOf(op, name, num, target, to, args) \in TermRecord(AnyTerm)
  BY DEF TermOf, TermRecord, Targets
<1> QED
  BY <1>1, AnyTermIs

\* Good is monotone, and every term is in all identifiers.
LEMMA GoodMore == \A t, M, N : Good(t, M) /\ M \subseteq N => Good(t, N)
BY WithinMore DEF Good

LEMMA GoodEverywhere == \A t \in AnyTerm : Good(t, Idents)
BY FreeUnfold DEF Good, Within

\* Lists of good terms.
LEMMA AllGoodExprs ==
  ASSUME NEW es \in Seq(Exprs), NEW N, Names[es] \subseteq N
  PROVE  AllGood(es, N)
BY WithinExprs, AnyTermIs DEF AllGood

LEMMA GoodVar ==
  ASSUME NEW x \in Idents, NEW N, x \in N PROVE Good(Var(x), N)
BY WithinVar, AnyTermIs DEF Good

LEMMA AllGoodOne ==
  ASSUME NEW a, NEW N, Good(a, N) PROVE AllGood(<<a>>, N)
<1>1. a \in AnyTerm
  BY DEF Good
<1> DEFINE c == <<a>>
<1>2. c \in Seq(AnyTerm) /\ DOMAIN c = {1} /\ c[1] = a
  BY <1>1, OneTerm
<1> HIDE DEF c
<1>3. AllGood(c, N)
  BY <1>2 DEF AllGood, Good
<1> QED
  BY <1>3 DEF c

LEMMA AllGoodConcat ==
  ASSUME NEW a, NEW b, NEW N, AllGood(a, N), AllGood(b, N) PROVE AllGood(a \o b, N)
<1> DEFINE c == a \o b
<1>1. a \in Seq(AnyTerm) /\ b \in Seq(AnyTerm)
  BY DEF AllGood
<1>2. c \in Seq(AnyTerm) /\ Joined(a, b, c)
  BY <1>1, ConcatPositions
<1> HIDE DEF c
<1>3. AllGood(c, N)
  BY <1>2 DEF AllGood, Joined
<1> QED
  BY <1>3 DEF c

LEMMA AllGoodThree ==
  ASSUME NEW a, NEW b, NEW c, NEW N, Good(a, N), Good(b, N), Good(c, N) PROVE AllGood(<<a, b, c>>, N)
<1>1. a \in AnyTerm /\ b \in AnyTerm /\ c \in AnyTerm
  BY DEF Good
<1> DEFINE d == <<a, b, c>>
<1>2. d \in Seq(AnyTerm)
  BY <1>1, ThreeTerms
<1>3. DOMAIN d = {1, 2, 3} /\ d[1] = a /\ d[2] = b /\ d[3] = c
  OBVIOUS
<1> HIDE DEF d
<1>4. AllGood(d, N)
  BY <1>2, <1>3 DEF AllGood, Good
<1> QED
  BY <1>4 DEF d

\* An operation on good terms.
Pure == TermOperations \ {"write-back"}

\* They are no expressions, and read no state.
LEMMA PureIs == \A op \in Pure : op \in TermOperations /\ op \notin Operations
BY TermOperation DEF Pure

LEMMA PureReads == \A t : t.op \in Pure => t.op # "write-back"
BY DEF Pure

LEMMA GoodOf ==
  ASSUME NEW op \in Pure, NEW name \in Idents, NEW num \in Int,
         NEW target \in Targets, NEW to \in Seq(Idents), NEW args, NEW N, AllGood(args, N)
  PROVE  Good(TermOf(op, name, num, target, to, args), N)
<1> DEFINE t == TermOf(op, name, num, target, to, args)
<1>1. args \in Seq(AnyTerm)
  BY DEF AllGood
<1>8. op \in TermOperations
  BY PureIs
<1>2. t \in AnyTerm
  BY <1>1, <1>8, TermOfIs
<1> HIDE DEF t
<1>7. t = TermOf(op, name, num, target, to, args)
  BY DEF t
<1>5. t.op = op
  BY <1>7, TermOfFields
<1>6. t.args = args
  BY <1>7, TermOfFields
<1>3. t.op \notin Operations
  BY <1>5, PureIs
<1>9. t.op # "write-back"
  BY <1>5, PureReads
<1>4. Within(t, N)
  BY <1>3, <1>6, <1>9, WithinTerm DEF AllGood
<1> QED
  BY <1>2, <1>4 DEF Good, t

\* The empty fields of an operation.
LEMMA TermIsOf == \A op, args : Term(op, args) = TermOf(op, Ident(""), 0, NoTarget, <<>>, args)
BY DEF Term, TermOf, NoTarget

LEMMA Blanks == Ident("") \in Idents /\ 0 \in Int /\ NoTarget \in Targets /\ <<>> \in Seq(Idents)
<1>1. Ident("") \in Idents
  BY NoIdent
<1>2. 0 \in Int /\ NoTarget \in Targets
  BY DEF NoTarget, Targets
<1>3. <<>> \in Seq(Idents)
  OBVIOUS
<1> QED
  BY <1>1, <1>2, <1>3

LEMMA GoodTerm ==
  ASSUME NEW op \in Pure, NEW args, NEW N, AllGood(args, N)
  PROVE  Good(Term(op, args), N)
<1>1. Good(TermOf(op, Ident(""), 0, NoTarget, <<>>, args), N)
  BY GoodOf, Blanks
<1> QED
  BY <1>1, TermIsOf

\* The state is read where it is written back.
LEMMA GoodWriteBack ==
  ASSUME NEW N, GameState \in N, State \subseteq N PROVE Good(WriteBack, N)
<1> DEFINE v == Var(GameState)
           c == <<v>>
           t == Term("write-back", c)
<1>1. Good(v, N)
  BY GoodVar, NoIdent
<1>2. AllGood(c, N)
  BY <1>1, AllGoodOne
<1> HIDE DEF v, c
<1>9. "write-back" \in TermOperations
  BY DEF TermOperations
<1>3. t \in AnyTerm /\ t.op = "write-back" /\ t.args = c
  <2>1. c \in Seq(AnyTerm)
    BY <1>2 DEF AllGood
  <2> QED
    BY <1>9, <2>1, TermIs, AnyTermIs
<1> HIDE DEF t
<1>4. t.op \notin Operations
  BY <1>3, <1>9, TermOperation
<1>5. ASSUME t \in Terms PROVE Free[t] \subseteq N
  <2>1. \A i \in DOMAIN t.args : t.args[i] \in Terms
    BY <1>4, <1>5, TermArgs
  <2>2. \A i \in DOMAIN t.args : Free[t.args[i]] \subseteq N
    BY <1>2, <1>3, <2>1 DEF AllGood, Within
  <2>3. Free[t] = FreeOf(Free, t)
    BY <1>5, FreeUnfold
  <2>4. \A i \in DOMAIN t.args : Free[t.args[i]] \ BoundIn(t, i) \subseteq N
    BY <2>2
  <2> QED
    BY <1>4, <2>3, <2>4, OperationFree
<1>6. Good(t, N)
  BY <1>3, <1>5 DEF Good, Within
<1> QED
  BY <1>6 DEF WriteBack, t, c, v

LEMMA LetIsOf ==
  \A to, values, body : Let(to, values, body) = TermOf("let", Ident(""), 0, NoTarget, to, Append(values, body))
<1> SUFFICES ASSUME NEW to, NEW values, NEW body
             PROVE  Let(to, values, body) = TermOf("let", Ident(""), 0, NoTarget, to, Append(values, body))
  OBVIOUS
<1> DEFINE args == Append(values, body)
           x == Ident("")
<1>1. Let(to, values, body) = [Term("let", args) EXCEPT !.to = to]
  BY DEF Let
<1>2. Term("let", args) = [op |-> "let", name |-> x, num |-> 0, target |-> "", to |-> <<>>, args |-> args]
  BY DEF Term
<1> HIDE DEF args, x
<1> DEFINE r == Term("let", args)
<1> HIDE DEF r
<1>4. Let(to, values, body) = [r EXCEPT !.to = to]
  BY <1>1 DEF r
<1>5. r = [op |-> "let", name |-> x, num |-> 0, target |-> "", to |-> <<>>, args |-> args]
  BY <1>2 DEF r
<1>3. Let(to, values, body) = [op |-> "let", name |-> x, num |-> 0, target |-> "", to |-> to, args |-> args]
  BY <1>4, <1>5
<1> QED
  BY <1>3 DEF TermOf, NoTarget, args, x

\* A let's body may have what it binds.
LEMMA GoodLet ==
  ASSUME NEW to \in Seq(Idents), NEW values, NEW body, NEW N, AllGood(values, N), Good(body, N \cup Range(to))
  PROVE  Good(Let(to, values, body), N)
<1> DEFINE args == Append(values, body)
           l == "let"
           x == Ident("")
           z == 0
           t == TermOf(l, x, z, NoTarget, to, args)
<1>1. Let(to, values, body) = t
  BY LetIsOf
<1>2. values \in Seq(AnyTerm) /\ body \in AnyTerm
  BY DEF AllGood, Good
<1>3. /\ args \in Seq(AnyTerm) /\ Len(args) = Len(values) + 1 /\ Len(values) \in Nat
      /\ DOMAIN args = 1 .. Len(values) + 1 /\ DOMAIN values = 1 .. Len(values)
      /\ args[Len(args)] = body /\ \A i \in DOMAIN values : args[i] = values[i]
  BY <1>2, AppendProperties, LenProperties
<1>9. l \in TermOperations /\ l = "let"
  BY DEF TermOperations
<1> HIDE DEF args, l
<1>16. x \in Idents /\ z \in Int
  BY Blanks
<1> HIDE DEF x, z
<1>10. args \in Seq(AnyTerm) /\ x \in Idents /\ z \in Int /\ NoTarget \in Targets
  BY <1>3, <1>16, Blanks
<1>11. t \in AnyTerm
  BY <1>9, <1>10, TermOfIs
<1> HIDE DEF t
<1>15. t = TermOf(l, x, z, NoTarget, to, args)
  BY DEF t
<1>12. t.op = l
  BY <1>15, TermOfFields
<1>13. t.to = to
  BY <1>15, TermOfFields
<1>14. t.args = args
  BY <1>15, TermOfFields
<1>4. t \in AnyTerm /\ t.op = "let" /\ t.to = to /\ t.args = args
  BY <1>9, <1>11, <1>12, <1>13, <1>14
<1>5. \A i \in DOMAIN args : i # Len(args) => i \in DOMAIN values
  BY <1>3
<1>6. \A i \in DOMAIN t.args : i # Len(t.args) => Within(t.args[i], N)
  BY <1>3, <1>4, <1>5 DEF AllGood
<1>7. Within(t.args[Len(t.args)], N \cup Range(t.to))
  BY <1>3, <1>4 DEF Good
<1>8. Within(t, N)
  BY <1>4, <1>6, <1>7, WithinBinder
<1> QED
  BY <1>1, <1>4, <1>8 DEF Good

\* What a let of these names binds.
Named(to) == Range(to) \ {Ident("_")}

\* The same when nothing is bound to "_".
LEMMA GoodLetNamed ==
  ASSUME NEW to \in Seq(Idents), NEW values, NEW body, NEW N,
         \A i \in DOMAIN to : Good(values[i], N),
         Good(body, N \cup Named(to))
  PROVE  Good(LetNamed(to, values, body), N)
<1> DEFINE K == {i \in DOMAIN to : to[i] # Ident("_")}
           k == SetToSeq(K)
           p == [i \in DOMAIN k |-> to[k[i]]]
           v == [i \in DOMAIN k |-> values[k[i]]]
<1>1. IsFiniteSet(K)
  BY DomainFinite
<1>4. LetNamed(to, values, body) = Let(p, v, body)
  BY DEF LetNamed
<1>10. /\ k = SetToSeq(K)
       /\ p = [i \in DOMAIN k |-> p[i]] /\ \A i \in DOMAIN k : p[i] = to[k[i]]
       /\ v = [i \in DOMAIN k |-> v[i]] /\ \A i \in DOMAIN k : v[i] = values[k[i]]
  OBVIOUS
<1>11. (\A i \in K : to[i] \in Idents) /\ \A i \in K : values[i] \in AnyTerm
  <2>1. \A i \in DOMAIN to : to[i] \in Idents
    BY ElementOfSeq, LenProperties
  <2> QED
    BY <2>1 DEF Good
<1> HIDE DEF K, k, p, v
<1>12. p \in Seq(Idents) /\ DOMAIN p = DOMAIN k
  BY ONLY <1>1, <1>10, <1>11, PickedSeq
<1>2. \A x : x \in Range(p) <=> \E i \in K : x = to[i]
  BY ONLY <1>1, <1>10, <1>12, PickedRange
<1>13. v \in Seq(AnyTerm) /\ DOMAIN v = DOMAIN k
  BY ONLY <1>1, <1>10, <1>11, PickedSeq
<1>3. \A x : x \in Range(v) <=> \E i \in K : x = values[i]
  BY ONLY <1>1, <1>10, <1>13, PickedRange
<1>5. ASSUME NEW i \in DOMAIN v PROVE Within(v[i], N)
  <2>1. v[i] \in Range(v)
    BY <1>13, RangeIs
  <2>2. PICK j \in K : v[i] = values[j]
    BY <1>3, <2>1
  <2>3. j \in DOMAIN to
    BY <2>2 DEF K
  <2> QED
    BY <2>2, <2>3 DEF Good
<1>6. AllGood(v, N)
  BY <1>5, <1>13 DEF AllGood
<1>7. Named(to) \subseteq Range(p)
  <2> SUFFICES ASSUME NEW x, x \in Range(to), x # Ident("_") PROVE x \in Range(p)
    BY DEF Named
  <2>1. PICK i \in DOMAIN to : x = to[i]
    BY RangeIs
  <2>2. i \in K
    BY <2>1 DEF K
  <2> QED
    BY <1>2, <2>1, <2>2
<1>8. Good(body, N \cup Range(p))
  <2>1. N \cup Named(to) \subseteq N \cup Range(p)
    BY <1>7
  <2> QED
    BY <2>1, GoodMore
<1>9. Good(Let(p, v, body), N)
  BY <1>6, <1>8, <1>12, GoodLet
<1> QED
  BY <1>4, <1>9

-----------------------------------------------------------------------------
(* What the writer makes of a statement.                                     *)

LEMMA Operators ==
  /\ {"panic", "let", "if", "aborted", "returned", "store", "is-none", "maybe-get", "rand", "drawn", "el",
      "call", "ret-aborted", "ret-state", "ret-value", "state"} \subseteq Pure
BY DEF Pure, TermOperations

\* A term with more said about the operation.
LEMMA GoodMarked ==
  ASSUME NEW op \in Pure, NEW args, NEW N, AllGood(args, N), NEW x \in Idents, NEW n \in Int, NEW target \in Targets
  PROVE  /\ Good([Term(op, args) EXCEPT !.name = x, !.num = n], N)
         /\ Good([Term(op, args) EXCEPT !.name = x], N)
         /\ Good([Term(op, args) EXCEPT !.num = n], N)
         /\ Good([Term(op, args) EXCEPT !.target = target], N)
<1> DEFINE e == Ident("")
           z == 0
           t == Term(op, args)
<1>1. t = TermOf(op, e, z, NoTarget, <<>>, args)
  BY TermIsOf
<1>2. e \in Idents /\ z \in Int /\ NoTarget \in Targets /\ <<>> \in Seq(Idents)
  BY Blanks
<1> HIDE DEF e, z, t
<1>4. [t EXCEPT !.name = x] = TermOf(op, x, z, NoTarget, <<>>, args)
  BY <1>1 DEF TermOf
<1> DEFINE u == [t EXCEPT !.name = x]
<1>11. [t EXCEPT !.name = x, !.num = n] = [u EXCEPT !.num = n]
  OBVIOUS
<1>12. u = TermOf(op, x, z, NoTarget, <<>>, args)
  BY <1>4
<1> HIDE DEF u
<1>3. [t EXCEPT !.name = x, !.num = n] = TermOf(op, x, n, NoTarget, <<>>, args)
  BY <1>11, <1>12 DEF TermOf
<1>5. [t EXCEPT !.num = n] = TermOf(op, e, n, NoTarget, <<>>, args)
  BY <1>1 DEF TermOf
<1>6. [t EXCEPT !.target = target] = TermOf(op, e, z, target, <<>>, args)
  BY <1>1 DEF TermOf
<1>7. Good(TermOf(op, x, n, NoTarget, <<>>, args), N)
  BY <1>2, GoodOf
<1>8. Good(TermOf(op, x, z, NoTarget, <<>>, args), N)
  BY <1>2, GoodOf
<1>9. Good(TermOf(op, e, n, NoTarget, <<>>, args), N)
  BY <1>2, GoodOf
<1>10. Good(TermOf(op, e, z, target, <<>>, args), N)
  BY <1>2, GoodOf
<1> QED
  BY <1>3, <1>4, <1>5, <1>6, <1>7, <1>8, <1>9, <1>10 DEF t

\* What the statement reads, and the state, is in N.
Reached(s, N) ==
  /\ GameState \in N /\ State \subseteq N
  /\ Names[s.idx] \subseteq N /\ Names[s.args] \subseteq N
  /\ s.idx # <<>> => s.to[1] \in N

\* The terms the writer makes of a statement: what its expressions read is free, and
\* in what follows also what it assigns.
LEMMA GoodGameState ==
  ASSUME NEW N, GameState \in N, State \subseteq N
  PROVE  /\ Good(Var(GameState), N) /\ AllGood(<<Var(GameState)>>, N)
         /\ Good(WriteBack, N)
         /\ \A t : Good(t, N) => Good(AbortWith(t), N)
<1>1. Good(Var(GameState), N)
  BY GoodVar, NoIdent
<1>2. ASSUME NEW t, Good(t, N) PROVE Good(AbortWith(t), N)
  BY <1>2, AllGoodOne, GoodTerm, Operators DEF AbortWith
<1> QED
  BY <1>1, <1>2, AllGoodOne, GoodWriteBack

LEMMA GoodIte ==
  ASSUME NEW N, NEW c, NEW t, NEW e, Good(c, N), Good(t, N), Good(e, N) PROVE Good(Ite(c, t, e), N)
<1>1. AllGood(<<c, t, e>>, N)
  BY AllGoodThree
<1> QED
  BY <1>1, GoodTerm, Operators DEF Ite

LEMMA GoodStored ==
  ASSUME NEW s \in AnyStmt, NEW N, Reached(s, N), NEW e, Good(e, N)
  PROVE  Good(Stored(s, e), N)
<1>1. CASE s.idx = <<>>
  BY <1>1 DEF Stored
<1>2. CASE s.idx # <<>>
  <2>1. s.idx \in Seq(Exprs) /\ s.to \in Seq(Idents) /\ s.to # <<>>
    BY <1>2, StmtType DEF HasShape
  <2>2. s.to[1] \in Idents /\ 1 \in DOMAIN s.idx
    BY <1>2, <2>1
  <2>3. Good(Var(s.to[1]), N)
    BY <1>2, <2>2, GoodVar DEF Reached
  <2>4. Good(s.idx[1], N)
    BY <2>1, <2>2, WithinExprs, AnyTermIs DEF Reached, Good
  <2>5. AllGood(<<Var(s.to[1]), s.idx[1], e>>, N)
    BY <2>3, <2>4, AllGoodThree
  <2>6. Good(Term("store", <<Var(s.to[1]), s.idx[1], e>>), N)
    BY <2>5, GoodTerm, Operators
  <2> QED
    BY <1>2, <2>6 DEF Stored
<1> QED
  BY <1>1, <1>2

LEMMA GoodReturn ==
  ASSUME NEW s \in AnyStmt, NEW N, Reached(s, N)
  PROVE  Good(WriteReturn(s), N) /\ Good(WriteAbort, N)
<1>1. Good(WriteBack, N)
  BY GoodGameState DEF Reached
<1>2. AllGood(s.args, N)
  BY StmtType, AllGoodExprs DEF Reached
<1>3. AllGood(<<WriteBack>> \o s.args, N)
  BY <1>1, <1>2, AllGoodOne, AllGoodConcat
<1>4. Good(WriteReturn(s), N)
  BY <1>3, GoodTerm, Operators DEF WriteReturn
<1>5. AllGood(<<WriteBack>>, N) /\ <<GameState>> \in Seq(Idents)
  BY <1>1, AllGoodOne, NoIdent, OneSeq
<1>6. Good(AbortWith(Var(GameState)), N)
  BY GoodGameState DEF Reached
<1>7. Good(AbortWith(Var(GameState)), N \cup Range(<<GameState>>))
  <2>1. N \subseteq N \cup Range(<<GameState>>)
    OBVIOUS
  <2> QED
    BY <1>6, <2>1, GoodMore
<1>8. Good(WriteAbort, N)
  BY <1>5, <1>7, GoodLet DEF WriteAbort
<1> QED
  BY <1>4, <1>8

LEMMA GoodAssign ==
  ASSUME NEW s \in AnyStmt, NEW N, Reached(s, N), s.op = "assign", NEW body, Good(body, N \cup Range(s.to))
  PROVE  Good(WriteAssign(s, body), N)
<1> DEFINE e == s.args[1]
           new == IF e.op = "unwrap" THEN Term("maybe-get", e.args) ELSE e
           let == Let(s.to, <<Stored(s, new)>>, body)
<1>1. s.args \in Seq(Exprs) /\ 1 \in DOMAIN s.args /\ s.to \in Seq(Idents)
  <2>1. s.args \in Seq(Exprs) /\ Len(s.args) = 1 /\ s.to \in Seq(Idents)
    BY StmtType DEF HasShape
  <2> QED
    BY <2>1
<1>2. Good(e, N) /\ e \in Exprs
  BY <1>1, WithinExprs, AnyTermIs DEF Reached, Good
<1>3. e.args \in Seq(Exprs) /\ AllGood(e.args, N)
  <2>1. e.args \in Seq(Exprs)
    BY <1>1, ExprsParts
  <2>2. Names[e.args] \subseteq N
    BY <1>1, NamesIs DEF Reached
  <2> QED
    BY <2>1, <2>2, AllGoodExprs
<1>4. Good(Term("maybe-get", e.args), N) /\ Good(Term("is-none", e.args), N)
  BY <1>3, GoodTerm, Operators
<1>5. Good(new, N)
  BY <1>2, <1>4
<1>6. AllGood(<<Stored(s, new)>>, N)
  BY <1>5, GoodStored, AllGoodOne
<1>7. Good(let, N)
  BY <1>1, <1>6, GoodLet
<1>8. Good(AbortWith(Var(GameState)), N)
  BY GoodGameState DEF Reached
<1>9. Good(Ite(Term("is-none", e.args), AbortWith(Var(GameState)), let), N)
  BY <1>4, <1>7, <1>8, GoodIte
<1>10. WriteAssign(s, body) = IF e.op = "unwrap" THEN Ite(Term("is-none", e.args), AbortWith(Var(GameState)), let) ELSE let
  BY DEF WriteAssign
<1> HIDE DEF e, let
<1> QED
  BY <1>7, <1>9, <1>10

LEMMA OneTo ==
  ASSUME NEW s \in AnyStmt, s.op \in {"assign", "sample", "invoke"}
  PROVE  s.to \in Seq(Idents) /\ DOMAIN s.to = {1} /\ s.to[1] \in Idents /\ Range(s.to) = {s.to[1]}
<1>1. s.to \in Seq(Idents) /\ Len(s.to) = 1
  BY StmtType DEF HasShape
<1>2. DOMAIN s.to = {1} /\ s.to[1] \in Idents
  BY <1>1
<1>3. \A x : x \in Range(s.to) <=> \E i \in DOMAIN s.to : x = s.to[i]
  BY <1>1, RangeIs
<1> QED
  BY <1>1, <1>2, <1>3

LEMMA GoodSample ==
  ASSUME NEW s \in AnyStmt, NEW N, Reached(s, N), s.op = "sample", NEW body,
         Good(body, N \cup Named(s.to))
  PROVE  Good(WriteSample(s, body), N)
<1> DEFINE M == N \cup Named(s.to)
           inner == Let(<<GameState>>, <<Drawn(s)>>, body)
           value == Stored(s, Rand(s))
<1>1. AllGood(<<Var(GameState)>>, N) /\ GameState \in N /\ State \subseteq N
  BY GoodGameState DEF Reached
<1>2. s.name \in Idents /\ s.id \in Int /\ NoTarget \in Targets
  BY StmtType, Blanks
<1>3. "rand" \in Pure /\ "drawn" \in Pure
  BY Operators
<1>4. Good(Rand(s), N) /\ Good(Drawn(s), N)
  BY <1>1, <1>2, <1>3, GoodMarked DEF Rand, Drawn
<1>5. Good(value, N)
  BY <1>4, GoodStored
<1>6. Good(inner, M)
  <2>1. N \subseteq M /\ M \subseteq M \cup Range(<<GameState>>)
    OBVIOUS
  <2>2. Good(Drawn(s), M)
    BY <1>4, <2>1, GoodMore
  <2>3. AllGood(<<Drawn(s)>>, M) /\ <<GameState>> \in Seq(Idents)
    BY <2>2, AllGoodOne, NoIdent, OneSeq
  <2>4. Good(body, M \cup Range(<<GameState>>))
    BY <2>1, GoodMore
  <2> HIDE DEF M
  <2> QED
    BY <2>3, <2>4, GoodLet
<1> DEFINE values == <<value>>
<1>7. values[1] = value
  OBVIOUS
<1>8. WriteSample(s, body) = LetNamed(s.to, values, inner)
  BY DEF WriteSample
<1> HIDE DEF values, value, inner
<1>9. \A i \in DOMAIN s.to : Good(values[i], N)
  BY <1>5, <1>7, OneTo
<1>10. s.to \in Seq(Idents)
  BY StmtType
<1> QED
  BY <1>6, <1>8, <1>9, <1>10, GoodLetNamed

LEMMA GoodParse ==
  ASSUME NEW s \in AnyStmt, NEW N, Reached(s, N), NEW body,
         Good(body, N \cup Named(s.to))
  PROVE  Good(WriteParse(s, body), N)
<1> DEFINE values == [i \in DOMAIN s.to |-> Component(s, i)]
<1>1. AllGood(s.args, N) /\ s.to \in Seq(Idents)
  BY StmtType, AllGoodExprs DEF Reached
<1>2. "el" \in Pure /\ NoTarget \in Targets /\ Ident("") \in Idents
  BY Operators, Blanks
<1>3. \A i \in DOMAIN s.to : i \in Int
  <2>1. DOMAIN s.to = 1 .. Len(s.to) /\ Len(s.to) \in Nat
    BY <1>1, LenProperties
  <2> QED
    BY <2>1
<1>4. \A i \in Int : Good(Component(s, i), N)
  BY <1>1, <1>2, GoodMarked DEF Component
<1>5. \A i \in DOMAIN s.to : Good(values[i], N)
  BY <1>3, <1>4
<1>6. WriteParse(s, body) = LetNamed(s.to, values, body)
  BY DEF WriteParse
<1> HIDE DEF values
<1> QED
  BY <1>1, <1>5, <1>6, GoodLetNamed

\* The value that is written back when an invocation fails, and what it binds.
LEMMA GoodInvoke ==
  ASSUME NEW s \in AnyStmt, NEW N, Reached(s, N), s.op = "invoke", NEW body,
         Good(body, N \cup Named(s.to))
  PROVE  Good(WriteInvoke(s, body), N)
<1> DEFINE M == N \cup {Ret}
           call == [Term("call", <<Var(GameState)>> \o s.args) EXCEPT !.target = s.target]
           failed == Let(<<GameState>>, <<OnRet("ret-state")>>, AbortWith(WriteBack))
           to == <<GameState, s.to[1]>>
           values == <<OnRet("ret-state"), OnRet("ret-value")>>
           done == LetNamed(to, values, body)
           answer == Ite(OnRet("ret-aborted"), failed, done)
<1>1. s.to[1] \in Idents /\ Range(s.to) = {s.to[1]}
  BY OneTo
<1>2. Good(call, N)
  <2>1. AllGood(<<Var(GameState)>>, N)
    BY GoodGameState DEF Reached
  <2>2. AllGood(s.args, N)
    BY StmtType, AllGoodExprs DEF Reached
  <2>3. AllGood(<<Var(GameState)>> \o s.args, N)
    BY <2>1, <2>2, AllGoodConcat
  <2>4. s.target \in Targets /\ Ident("") \in Idents /\ 0 \in Int
    BY StmtType, Blanks DEF Targets
  <2>5. "call" \in Pure
    BY Operators
  <2> QED
    BY <2>3, <2>4, <2>5, GoodMarked
<1>3. /\ Good(OnRet("ret-aborted"), M) /\ Good(OnRet("ret-state"), M) /\ Good(OnRet("ret-value"), M)
  <2>1. AllGood(<<Var(Ret)>>, M)
    <3>1. Good(Var(Ret), M)
      BY NoIdent, GoodVar
    <3> QED
      BY <3>1, AllGoodOne
  <2> HIDE DEF M
  <2> QED
    BY <2>1, GoodTerm, Operators DEF OnRet
<1>4. Good(failed, M)
  <2>1. GameState \in M \cup Range(<<GameState>>) /\ State \subseteq M \cup Range(<<GameState>>)
    BY DEF Reached
  <2>2. Good(AbortWith(WriteBack), M \cup Range(<<GameState>>))
    BY <2>1, GoodGameState
  <2>3. AllGood(<<OnRet("ret-state")>>, M) /\ <<GameState>> \in Seq(Idents)
    BY <1>3, AllGoodOne, NoIdent, OneSeq
  <2> HIDE DEF M
  <2> QED
    BY <2>2, <2>3, GoodLet
<1>5. Good(done, M)
  <2>1. to \in Seq(Idents) /\ DOMAIN to = {1, 2} /\ to[1] = GameState /\ to[2] = s.to[1]
    <3> DEFINE g == GameState
               x == s.to[1]
    <3>3. g \in Idents /\ x \in Idents
      BY <1>1, NoIdent
    <3>4. to = <<g, x>>
      OBVIOUS
    <3> HIDE DEF g, x, to
    <3>1. to \in Seq(Idents) /\ DOMAIN to = {1, 2}
      BY ONLY <3>3, <3>4, TwoTerms
    <3> USE DEF to
    <3>2. to[1] = GameState /\ to[2] = s.to[1]
      OBVIOUS
    <3> QED
      BY <3>1, <3>2
  <2>2. values[1] = OnRet("ret-state") /\ values[2] = OnRet("ret-value")
    OBVIOUS
  <2>3. s.to[1] \in Range(to)
    BY <2>1, RangeIs
  <2> HIDE DEF to, values
  <2>4. \A i \in DOMAIN to : Good(values[i], M)
    BY <1>3, <2>1, <2>2
  <2>5. N \cup Named(s.to) \subseteq M \cup Named(to)
    BY <1>1, <2>3 DEF Named
  <2>6. Good(body, M \cup Named(to))
    BY <2>5, GoodMore
  <2> HIDE DEF M
  <2> QED
    BY <2>1, <2>4, <2>6, GoodLetNamed
<1>6. Good(answer, M)
  <2> HIDE DEF M, failed, done
  <2> QED
    BY <1>3, <1>4, <1>5, GoodIte
<1>7. Good(Let(<<Ret>>, <<call>>, answer), N)
  <2>1. <<Ret>> \in Seq(Idents)
    BY NoIdent, OneSeq
  <2>2. Ret \in Range(<<Ret>>)
    <3> DEFINE r == <<Ret>>
    <3>1. r \in Seq(Idents) /\ 1 \in DOMAIN r /\ r[1] = Ret
      BY NoIdent, OneTerm
    <3> HIDE DEF r
    <3>2. Ret \in Range(r)
      BY <3>1, RangeIs
    <3> QED
      BY <3>2 DEF r
  <2>3. M \subseteq N \cup Range(<<Ret>>)
    BY <2>2
  <2>4. AllGood(<<call>>, N)
    BY <1>2, AllGoodOne
  <2> HIDE DEF M, call, answer
  <2>5. Good(answer, N \cup Range(<<Ret>>))
    BY <1>6, <2>3, GoodMore
  <2> QED
    BY <2>1, <2>4, <2>5, GoodLet
<1>8. WriteInvoke(s, body) = Stored(s, Let(<<Ret>>, <<call>>, answer))
  BY DEF WriteInvoke
<1> HIDE DEF call, answer
<1> QED
  BY <1>7, <1>8, GoodStored

-----------------------------------------------------------------------------
(* Write, statement by statement.                                            *)

\* The term of a statement, when then, else and body are those of its blocks and of
\* what follows.
WriteStmt(s, then, else, body) ==
  CASE s.op = "ite" -> Ite(s.args[1], then, else)
    [] s.op = "return" -> WriteReturn(s)
    [] s.op = "abort" -> WriteAbort
    [] s.op = "assign" -> WriteAssign(s, body)
    [] s.op = "sample" -> WriteSample(s, body)
    [] s.op = "parse" -> WriteParse(s, body)
    [] s.op = "invoke" -> WriteInvoke(s, body)
    [] s.op = "for" -> Panic
WriteOf(f, block) ==
  IF block = <<>> THEN Panic
  ELSE WriteStmt(Head(block), f[Head(block).then], f[Head(block).else], f[Tail(block)])

\* A panic has no arguments.
LEMMA GoodPanic == \A N : Good(Panic, N)
<1> SUFFICES ASSUME NEW N PROVE Good(Panic, N)
  OBVIOUS
<1>1. AllGood(<<>>, N)
  <2> DEFINE e == <<>>
  <2>1. e \in Seq(AnyTerm) /\ DOMAIN e = {}
    OBVIOUS
  <2> HIDE DEF e
  <2>2. AllGood(e, N)
    BY <2>1 DEF AllGood
  <2> QED
    BY <2>2 DEF e
<1> QED
  BY <1>1, GoodTerm, Operators DEF Panic

\* What follows ends, or is what a statement binds a value for.
Goes(s) == s.op \in {"assign", "sample", "parse", "invoke"}

\* Whatever the statement is.
LEMMA GoodStmt ==
  ASSUME NEW s \in AnyStmt, NEW N, Reached(s, N), NEW then, NEW else, NEW body,
         s.op = "ite" => Good(then, N) /\ Good(else, N),
         Goes(s) => Good(body, N \cup Named(s.to))
  PROVE  Good(WriteStmt(s, then, else, body), N)
<1>1. CASE s.op = "ite"
  <2>1. s.args \in Seq(Exprs) /\ Len(s.args) = 1
    BY <1>1, StmtType DEF HasShape
  <2>2. 1 \in DOMAIN s.args
    BY <2>1
  <2>3. Good(s.args[1], N)
    BY <2>1, <2>2, WithinExprs, AnyTermIs DEF Reached, Good
  <2>4. Good(Ite(s.args[1], then, else), N)
    BY <1>1, <2>3, GoodIte
  <2> QED
    BY <1>1, <2>4 DEF WriteStmt
<1>2. CASE s.op = "return"
  BY <1>2, GoodReturn DEF WriteStmt
<1>3. CASE s.op = "abort"
  BY <1>3, GoodReturn DEF WriteStmt
<1>4. CASE s.op = "assign"
  <2>1. N \cup Named(s.to) \subseteq N \cup Range(s.to)
    BY DEF Named
  <2>2. Good(body, N \cup Named(s.to))
    BY <1>4 DEF Goes
  <2>3. Good(body, N \cup Range(s.to))
    BY <2>1, <2>2, GoodMore
  <2>4. Good(WriteAssign(s, body), N)
    BY <1>4, <2>3, GoodAssign
  <2> QED
    BY <1>4, <2>4 DEF WriteStmt
<1>5. CASE s.op = "sample"
  <2>1. Good(WriteSample(s, body), N)
    BY <1>5, GoodSample DEF Goes
  <2> QED
    BY <1>5, <2>1 DEF WriteStmt
<1>6. CASE s.op = "parse"
  <2>1. Good(WriteParse(s, body), N)
    BY <1>6, GoodParse DEF Goes
  <2> QED
    BY <1>6, <2>1 DEF WriteStmt
<1>7. CASE s.op = "invoke"
  <2>1. Good(WriteInvoke(s, body), N)
    BY <1>7, GoodInvoke DEF Goes
  <2> QED
    BY <1>7, <2>1 DEF WriteStmt
<1>8. CASE s.op = "for"
  BY <1>8, GoodPanic DEF WriteStmt
<1> QED
  BY <1>1, <1>2, <1>3, <1>4, <1>5, <1>6, <1>7, <1>8, StmtType DEF Kinds

\* All identifiers are enough, so that Write is typed.
LEMMA ReachedEverywhere == \A s \in AnyStmt : Reached(s, Idents)
<1> SUFFICES ASSUME NEW s \in AnyStmt PROVE Reached(s, Idents)
  OBVIOUS
<1>1. Names[s.idx] \subseteq Idents /\ Names[s.args] \subseteq Idents
  BY StmtType, NamesIs
<1>2. ASSUME s.idx # <<>> PROVE s.to[1] \in Idents
  <2>1. s.to \in Seq(Idents) /\ s.to # <<>>
    BY <1>2, StmtType DEF HasShape
  <2> QED
    BY <2>1
<1> QED
  BY <1>1, <1>2, NoIdent, StateAssumption DEF Reached

\* Write is total, and its definition holds everywhere.
LEMMA WriteUnfold ==
  /\ Write \in [Code -> AnyTerm]
  /\ \A block \in Code : Write[block] = WriteOf(Write, block)
<1> DEFINE V == [x \in Code |-> AnyTerm]
           E == [p \in Code \X Typed(Code, V) |-> WriteOf(p[2], p[1])]
<1>1. \A x \in Code, g \in Typed(Code, V) : E[<<x, g>>] = WriteOf(g, x)
  OBVIOUS
<1>2. \A x \in Code : V[x] = AnyTerm
  OBVIOUS
<1>3. \A x \in Code : \A g, h : AgreeBelow(Code, CodeRank, g, h, x) => WriteOf(g, x) = WriteOf(h, x)
  <2> SUFFICES ASSUME NEW x \in Code, NEW g, NEW h, AgreeBelow(Code, CodeRank, g, h, x)
               PROVE  WriteOf(g, x) = WriteOf(h, x)
    OBVIOUS
  <2>1. x # <<>> => /\ g[Head(x).then] = h[Head(x).then] /\ g[Head(x).else] = h[Head(x).else]
                    /\ g[Tail(x)] = h[Tail(x)]
    BY HeadParts DEF AgreeBelow
  <2> QED
    BY <2>1 DEF WriteOf
<1> HIDE DEF V, E
<1>4. ASSUME NEW x \in Code, NEW g \in Typed(Code, V) PROVE WriteOf(g, x) \in AnyTerm
  <2>1. \A b \in Code : Good(g[b], Idents)
    BY <1>2, GoodEverywhere DEF Typed
  <2>2. CASE x = <<>>
    BY <2>2, GoodPanic DEF WriteOf, Good
  <2>3. CASE x # <<>>
    <3>1. /\ Head(x) \in AnyStmt /\ Good(g[Head(x).then], Idents)
          /\ Good(g[Head(x).else], Idents) /\ Good(g[Tail(x)], Idents)
      BY <2>1, <2>3, HeadParts
    <3>2. Idents \subseteq Idents \cup Named(Head(x).to)
      OBVIOUS
    <3>3. Good(g[Tail(x)], Idents \cup Named(Head(x).to))
      BY <3>1, <3>2, GoodMore
    <3>4. Good(WriteOf(g, x), Idents)
      BY <2>3, <3>1, <3>3, ReachedEverywhere, GoodStmt DEF WriteOf
    <3> QED
      BY <3>4 DEF Good
  <2> QED
    BY <2>2, <2>3
<1>5. Recurses(Code, CodeRank, V, E)
  <2>1. \A x \in Code : V[x] # {}
    BY <1>2, GoodPanic DEF Good
  <2>2. \A x \in Code, g \in Typed(Code, V) : E[<<x, g>>] \in V[x]
    BY <1>1, <1>2, <1>4
  <2>3. \A x \in Code : \A g, h \in Typed(Code, V) : AgreeBelow(Code, CodeRank, g, h, x) => E[<<x, g>>] = E[<<x, h>>]
    BY <1>1, <1>3
  <2> QED
    BY <2>1, <2>2, <2>3, CodeRankType DEF Recurses
<1>6. PICK f \in Typed(Code, V) : f = [x \in Code |-> E[<<x, f>>]]
  BY <1>5, RecursionExists
<1>7. f = [x \in Code |-> WriteOf(f, x)]
  BY <1>1, <1>6
<1>8. Write = [x \in Code |-> WriteOf(Write, x)]
  BY <1>7 DEF Write, WriteOf, WriteStmt
<1>9. Write \in Typed(Code, V)
  <2>1. Write = [x \in Code |-> Write[x]]
    BY <1>8
  <2>2. \A x \in Code : Write[x] = WriteOf(Write, x)
    BY <1>8
  <2> QED
    BY <1>1, <1>3, <1>5, <2>1, <2>2, RecursionTyped
<1> QED
  BY <1>2, <1>8, <1>9 DEF Typed

-----------------------------------------------------------------------------
(* The term of code is closed but for what the code has before it begins.    *)

\* Code that can be written has no loop, and so do its blocks and what follows a
\* statement that goes on.
LEMMA WritableParts ==
  ASSUME NEW b \in Code, b # <<>>, ~Unwritable[b]
  PROVE  /\ Head(b).op # "for"
         /\ Head(b).op = "ite" => ~Unwritable[Head(b).then] /\ ~Unwritable[Head(b).else]
         /\ Goes(Head(b)) => Tail(b) # <<>> /\ ~Unwritable[Tail(b)]
<1> DEFINE t == Tail(b)
<1>1. ~UnwritableOf(Unwritable, b)
  BY UnwritableUnfold
<1>2. 1 \in DOMAIN b /\ Head(b) = b[1] /\ t \in Code
  BY CodeTail
<1>3. /\ b[1].op # "for"
      /\ b[1].op = "ite" => ~Unwritable[b[1].then] /\ ~Unwritable[b[1].else]
  BY <1>1, <1>2 DEF UnwritableOf
<1>4. Last(b).op \in {"ite", "return", "abort"}
  BY <1>1 DEF UnwritableOf
<1>5. ASSUME Goes(b[1]) PROVE t # <<>> /\ ~Unwritable[t]
  <2>1. Len(b) \in Nat /\ Len(b) # 0 /\ DOMAIN b = 1 .. Len(b) /\ Len(t) = Len(b) - 1
    BY LenProperties, EmptySeq, HeadTailProperties DEF Code
  <2>2. Last(b) = b[Len(b)]
    BY LastParts DEF Code
  <2>3. Len(b) # 1
    BY <1>4, <1>5, <2>2 DEF Goes
  <2>4. Len(t) # 0 /\ Len(t) \in Nat /\ DOMAIN t = 1 .. Len(t)
    BY <1>2, <2>1, <2>3, LenProperties DEF Code
  <2>5. \A i \in DOMAIN t : i + 1 \in DOMAIN b /\ t[i] = b[i + 1]
    <3>1. \A i \in 1 .. Len(b) - 1 : t[i] = b[i + 1]
      BY HeadTailProperties DEF Code
    <3> HIDE DEF t
    <3> QED
      BY <2>1, <2>4, <3>1
  <2>6. t # <<>>
    BY <2>4, EmptySeq
  <2>7. Last(t) = t[Len(t)] /\ Len(t) \in DOMAIN t
    BY <1>2, <2>6, LastParts DEF Code
  <2>8. Last(t) = Last(b)
    <3> HIDE DEF t
    <3> QED
      BY <2>1, <2>2, <2>5, <2>7
  <2>9. ~UnwritableOf(Unwritable, t)
    <3> HIDE DEF t
    <3> QED
      BY <1>1, <1>4, <2>5, <2>6, <2>8 DEF UnwritableOf
  <2> QED
    BY <1>2, <2>6, <2>9, UnwritableUnfold
<1> QED
  BY <1>2, <1>3, <1>5

\* What the solver has values for when the code has assigned what the flow says.
Known(a) == a.names \cup ({GameState} \cup State)

\* When its expressions are in order, a statement reads what the solver has values for.
LEMMA ReachedAt ==
  ASSUME NEW s \in AnyStmt, NEW a \in Flows, Reading(s, a).ok
  PROVE  Reached(s, Known(a))
<1>1. Reads(s) \subseteq a.names
  BY ReadingIs
<1>2. s.idx \in Seq(Exprs) /\ s.args \in Seq(Exprs)
  BY StmtType
<1>3. Names[ExprsOf(s)] = Names[s.idx] \cup Names[s.args]
  BY <1>2, NamesConcat DEF ExprsOf
<1>4. /\ Names[s.idx] \subseteq a.names /\ Names[s.args] \subseteq a.names
      /\ s.idx # <<>> => s.to[1] \in a.names
  BY <1>1, <1>3 DEF Reads
<1> QED
  BY <1>4 DEF Reached, Known

\* The first statement of code, and what follows with what it assigned.
LEMMA WriteStep ==
  ASSUME NEW b \in Code, b # <<>>, NEW a \in Flows, ~Unwritable[b], ~a.ended, Flow[<<b, a>>].ok,
         \A d \in {Head(b).then, Head(b).else, Tail(b)} : \A x \in Flows :
           ~Unwritable[d] /\ ~x.ended /\ Flow[<<d, x>>].ok => Good(Write[d], Known(x))
  PROVE  Good(Write[b], Known(a))
<1> DEFINE s == Head(b)
           r == Reading(s, a)
           n == FlowAfter(s, a)
<1>1. /\ s \in AnyStmt /\ Tail(b) \in Code /\ n \in Flows /\ Flow[<<b, a>>] = Flow[<<Tail(b), n>>]
  BY FlowStep
<1>2. n.ok
  BY <1>1, FlowOk
<1>3. /\ r.ok
      /\ s.op = "ite" => Flow[<<s.then, r>>].ok /\ Flow[<<s.else, r>>].ok
  BY <1>1, <1>2, AfterOk
<1>4. r \in Flows /\ r.ended = a.ended /\ r.names = a.names
  BY ReadingIs
<1>5. Known(r) = Known(a)
  BY <1>4 DEF Known
<1>6. Reached(s, Known(a))
  BY <1>1, <1>3, ReachedAt
<1>7. s.op = "ite" => Good(Write[s.then], Known(a)) /\ Good(Write[s.else], Known(a))
  <2> HIDE DEF r
  <2> QED
    BY <1>3, <1>4, <1>5, WritableParts
<1>8. ASSUME Goes(s) PROVE Good(Write[Tail(b)], Known(a) \cup Named(s.to))
  <2>1. n = Assigning(s, r)
    BY <1>8 DEF FlowAfter, AfterOf, Goes
  <2>2. n.names = a.names \cup Named(s.to) /\ ~n.ended
    <3> HIDE DEF r
    <3> QED
      BY <1>1, <1>4, <1>8, <2>1, AssigningIs DEF Named, Goes
  <2>3. ~Unwritable[Tail(b)]
    BY <1>8, WritableParts
  <2>4. Good(Write[Tail(b)], Known(n))
    <3> HIDE DEF n
    <3> QED
      BY <1>1, <2>2, <2>3
  <2>5. Known(n) \subseteq Known(a) \cup Named(s.to)
    BY <2>2 DEF Known
  <2> QED
    BY <2>4, <2>5, GoodMore
<1>9. Good(WriteStmt(s, Write[s.then], Write[s.else], Write[Tail(b)]), Known(a))
  <2> HIDE DEF s
  <2> QED
    BY <1>1, <1>6, <1>7, <1>8, GoodStmt
<1> QED
  BY <1>9, WriteUnfold DEF WriteOf

\* The term of code that can be written and reads only what it has assigned is
\* closed but for what the solver has values for.
LEMMA WriteClosed ==
  \A b \in Code : \A a \in Flows :
    ~Unwritable[b] /\ ~a.ended /\ Flow[<<b, a>>].ok => Good(Write[b], Known(a))
<1> DEFINE S == {b \in Code : \A a \in Flows :
                   ~Unwritable[b] /\ ~a.ended /\ Flow[<<b, a>>].ok => Good(Write[b], Known(a))}
<1>1. <<>> \in S
  <2>1. ASSUME NEW b \in Code, b = <<>> PROVE Unwritable[b]
    BY <2>1, UnwritableUnfold DEF UnwritableOf
  <2> QED
    BY <2>1, SizeEmpty
<1>2. ASSUME NEW b \in Code, b # <<>>, Head(b).then \in S, Head(b).else \in S, Tail(b) \in S
      PROVE  b \in S
  BY <1>2, WriteStep
<1> HIDE DEF S
<1>3. Code \subseteq S
  BY <1>1, <1>2, CodeInduction
<1> QED
  BY <1>3 DEF S

\* The identifiers of the state, as the writer binds them.
LEMMA DefineClosed ==
  ASSUME NEW b \in Code, ~Unwritable[b], Flow[<<b, AtStart>>].ok, AtStart \in Flows
  PROVE  Good(Define(b), {GameState} \cup (DOMAIN Params \ State))
<1> DEFINE N == {GameState} \cup (DOMAIN Params \ State)
           state == SetToSeq(State)
           values == [i \in DOMAIN state |-> StateVariable(state[i])]
<1>1. Good(Write[b], Known(AtStart))
  BY WriteClosed DEF AtStart
<1>2. state \in Seq(State) /\ Range(state) = State
  <2>1. state \in Seq(State) /\ \A x \in State : \E i \in DOMAIN state : state[i] = x
    BY SetToSeqIs, StateAssumption
  <2> HIDE DEF state
  <2>2. \A x : x \in Range(state) <=> \E i \in DOMAIN state : x = state[i]
    BY <2>1, RangeIs
  <2>3. \A i \in DOMAIN state : state[i] \in State
    BY <2>1, ElementOfSeq, LenProperties
  <2>4. \A x : x \in Range(state) <=> x \in State
    BY <2>1, <2>2, <2>3
  <2> QED
    BY <2>1, <2>4
<1>3. state \in Seq(Idents)
  <2> HIDE DEF state
  <2> QED
    BY <1>2, StateAssumption
<1>4. Known(AtStart) \subseteq N \cup Range(state)
  BY <1>2 DEF Known, AtStart
<1>5. Good(Write[b], N \cup Range(state))
  BY <1>1, <1>4, GoodMore
<1>6. ASSUME NEW x \in Idents PROVE Good(StateVariable(x), N)
  <2>1. AllGood(<<Var(GameState)>>, N)
    <3>1. Good(Var(GameState), N)
      BY GoodVar, NoIdent
    <3> QED
      BY <3>1, AllGoodOne
  <2>2. "state" \in Pure /\ 0 \in Int /\ NoTarget \in Targets
    BY Operators, Blanks
  <2> HIDE DEF N
  <2> QED
    BY <1>6, <2>1, <2>2, GoodMarked DEF StateVariable
<1>7. AllGood(values, N)
  <2>1. \A i \in DOMAIN state : values[i] = StateVariable(state[i]) /\ state[i] \in Idents
    <3>1. \A i \in DOMAIN state : state[i] \in Idents
      <4> HIDE DEF state
      <4> QED
        BY <1>3, ElementOfSeq, LenProperties
    <3> QED
      BY <3>1
  <2>2. values = [i \in DOMAIN state |-> values[i]]
    OBVIOUS
  <2> HIDE DEF values, state, N
  <2>3. \A i \in DOMAIN state : Good(values[i], N)
    BY <1>6, <2>1
  <2>4. \A i \in DOMAIN state : values[i] \in AnyTerm
    BY <2>3 DEF Good
  <2>5. values \in Seq(AnyTerm) /\ DOMAIN values = DOMAIN state
    BY <1>3, <2>2, <2>4, SeqOfFunction
  <2> QED
    BY <2>3, <2>5 DEF AllGood, Good
<1>8. Define(b) = Let(state, values, Write[b])
  BY DEF Define
<1> HIDE DEF state, values, N
<1> QED
  BY <1>3, <1>5, <1>7, <1>8, GoodLet DEF N

-----------------------------------------------------------------------------
(* The blocks that are being read, whose depth the parser bounds.            *)

\* The depth of the code in the i-th open block: an assertion at the innermost
\* is a conditional with a block of its own.
DepthAt(i) == MaxNesting + 3 - i

FrameIn(f, n) ==
  /\ f = [op |-> f.op, to |-> f.to, args |-> f.args, blocks |-> f.blocks, code |-> f.code, atStart |-> f.atStart]
  /\ f.to \in Seq(Idents) /\ f.args \in Seq(Exprs) /\ f.code \in Seq(StmtsTo[n])
  /\ f.blocks \in Seq(Seq(StmtsTo[n]))
  /\ f.op \in {"oracle", "then", "else", "for"}
  /\ f.op = "then" => Len(f.args) = 1 /\ Len(f.blocks) = 0
  /\ f.op = "else" => Len(f.args) = 1 /\ Len(f.blocks) = 1
  /\ f.op = "for" => Len(f.to) = 1 /\ Len(f.args) = 2

FramesIn(fs) ==
  /\ fs \in Seq(Range(fs)) /\ Len(fs) \in 1 .. MaxNesting + 1
  /\ fs[1].op = "oracle"
  /\ \A i \in 1 .. Len(fs) : FrameIn(fs[i], DepthAt(i))

\* The depths of open blocks.
LEMMA Depths ==
  /\ MaxNesting \in Nat /\ MaxCodeDepth \in Nat /\ MaxNesting + 2 \in Nat /\ MaxNesting + 3 <= MaxCodeDepth
  /\ MaxNesting + 2 <= MaxCodeDepth /\ (MaxNesting + 2) + 1 = MaxNesting + 3 /\ MaxNesting + 3 \in Nat
  /\ DepthAt(1) = MaxNesting + 2
  /\ \A i \in 1 .. MaxNesting + 1 : DepthAt(i) \in Nat /\ 2 <= DepthAt(i) /\ 1 <= DepthAt(i) /\ DepthAt(i) <= MaxCodeDepth
                                    /\ i - 1 \in Nat /\ DepthAt(i - 1) = DepthAt(i) + 1 /\ DepthAt(i + 1) = DepthAt(i) - 1
BY TextAssumption, DepthAssumption DEF DepthAt

LEMMA OwnRange ==
  ASSUME NEW S, NEW b \in Seq(S)
  PROVE  b \in Seq(Range(b))
<1>1. DOMAIN b = 1 .. Len(b) /\ Len(b) \in Nat /\ b = [i \in 1 .. Len(b) |-> b[i]]
  BY LenProperties
<1>2. \A i \in 1 .. Len(b) : b[i] \in Range(b)
  BY <1>1 DEF Range
<1> QED
  BY <1>1, <1>2, SeqOfFunction

\* The whole of a simple statement.
Plain(op, to, args, then, else) ==
  [op |-> op, to |-> to, idx |-> <<>>, args |-> args, then |-> then, else |-> else,
   name |-> Ident(""), id |-> Unnumbered, target |-> "", span |-> 0]

LEMMA PlainIn ==
  ASSUME NEW n \in Nat, NEW s, NEW op \in Kinds, NEW to \in Seq(Idents), NEW args \in Seq(Exprs),
         NEW then \in Seq(StmtsTo[n]), NEW else \in Seq(StmtsTo[n]),
         s = Plain(op, to, args, then, else),
         op = "for" \/ (op = "ite" /\ Len(args) = 1) \/ (op = "abort" /\ then = <<>> /\ else = <<>>)
  PROVE  s \in StmtsTo[n + 1]
<1>1. n + 1 \in Nat /\ n + 1 # 0 /\ (n + 1) - 1 = n
  OBVIOUS
<1>2. Ident("") \in Idents /\ Unnumbered \in Int /\ 0 \in Nat
  <2>1. 0 \in Nat /\ -1 \in Int
    OBVIOUS
  <2> QED
    BY <2>1 DEF Ident, Idents, Unnumbered
<1>3. <<>> \in Seq(Exprs) /\ "" \in Instances \cup {""}
  OBVIOUS
<1>4. s \in [op : Kinds, to : Seq(Idents), idx : Seq(Exprs), args : Seq(Exprs),
             then : Seq(StmtsTo[n]), else : Seq(StmtsTo[n]),
             name : Idents, id : Int, target : Instances \cup {""}, span : Nat]
  BY <1>2, <1>3 DEF Plain
<1>5. s.op = op /\ s.idx = <<>> /\ s.args = args /\ s.then = then /\ s.else = else
  BY DEF Plain
<1>6. HasShape(s)
  BY <1>5 DEF HasShape
<1>7. s \in StmtLevel(StmtsTo[n])
  BY <1>4, <1>6 DEF StmtLevel
<1> QED
  BY <1>1, <1>7, TreesUnfold

LEMMA AbortIn == Abort \in StmtsTo[1]
<1>1. Abort = Plain("abort", <<>>, <<>>, <<>>, <<>>)
  BY DEF Abort, Stmt, Plain
<1>2. "abort" \in Kinds /\ <<>> \in Seq(Idents) /\ <<>> \in Seq(Exprs) /\ <<>> \in Seq(StmtsTo[0]) /\ 0 \in Nat /\ 0 + 1 = 1
  BY DEF Kinds
<1> HIDE DEF Abort
<1> QED
  BY <1>1, <1>2, PlainIn

LEMMA IteIn ==
  ASSUME NEW n \in Nat, NEW c \in Exprs, NEW then \in Seq(StmtsTo[n]), NEW else \in Seq(StmtsTo[n])
  PROVE  IfThenElse(c, then, else) \in StmtsTo[n + 1]
<1> DEFINE s == IfThenElse(c, then, else)
<1>1. s = Plain("ite", <<>>, <<c>>, then, else)
  <2> DEFINE r == Stmt("ite", <<>>, <<>>, <<c>>)
  <2>1. r = Plain("ite", <<>>, <<c>>, <<>>, <<>>)
    BY DEF Plain, Stmt
  <2>2. s = [r EXCEPT !.then = then, !.else = else]
    BY DEF IfThenElse
  <2> HIDE DEF r, s
  <2> QED
    BY <2>1, <2>2 DEF Plain
<1>2. "ite" \in Kinds /\ <<>> \in Seq(Idents) /\ <<c>> \in Seq(Exprs) /\ Len(<<c>>) = 1
  <2>1. <<c>> \in Seq(Exprs)
    BY OneSeq
  <2> QED
    BY <2>1 DEF Kinds
<1> HIDE DEF s
<1>3. s \in StmtsTo[n + 1]
  BY <1>1, <1>2, PlainIn
<1> QED
  BY <1>3 DEF s

LEMMA ForIn ==
  ASSUME NEW n \in Nat, NEW x \in Idents, NEW from \in Exprs, NEW to \in Exprs, NEW body \in Seq(StmtsTo[n])
  PROVE  For(x, from, to, body) \in StmtsTo[n + 1]
<1> DEFINE s == For(x, from, to, body)
<1>1. s = Plain("for", <<x>>, <<from, to>>, body, <<>>)
  <2> DEFINE r == Stmt("for", <<x>>, <<>>, <<from, to>>)
  <2>1. r = Plain("for", <<x>>, <<from, to>>, <<>>, <<>>)
    BY DEF Plain, Stmt
  <2>2. s = [r EXCEPT !.then = body]
    BY DEF For
  <2> HIDE DEF r, s
  <2> QED
    BY <2>1, <2>2 DEF Plain
<1>2. "for" \in Kinds /\ <<x>> \in Seq(Idents) /\ <<from, to>> \in Seq(Exprs) /\ <<>> \in Seq(StmtsTo[n])
  <2>1. <<x>> \in Seq(Idents)
    BY OneSeq
  <2>2. <<from, to>> \in Seq(Exprs)
    OBVIOUS
  <2>3. <<>> \in Seq(StmtsTo[n])
    OBVIOUS
  <2> QED
    BY <2>1, <2>2, <2>3 DEF Kinds
<1> HIDE DEF s
<1>3. s \in StmtsTo[n + 1]
  BY <1>1, <1>2, PlainIn
<1> QED
  BY <1>3 DEF s

LEMMA SpannedIn ==
  ASSUME NEW n \in Nat, NEW s \in StmtsTo[n], NEW k \in Nat
  PROVE  [s EXCEPT !.span = k] \in StmtsTo[n]
<1> DEFINE t == [s EXCEPT !.span = k]
<1>1. /\ n # 0 /\ n - 1 \in Nat
      /\ s \in [op : Kinds, to : Seq(Idents), idx : Seq(Exprs), args : Seq(Exprs),
                then : Seq(StmtsTo[n - 1]), else : Seq(StmtsTo[n - 1]),
                name : Idents, id : Int, target : Instances \cup {""}, span : Nat]
      /\ HasShape(s)
  BY StmtsIn
<1>2. t \in [op : Kinds, to : Seq(Idents), idx : Seq(Exprs), args : Seq(Exprs),
             then : Seq(StmtsTo[n - 1]), else : Seq(StmtsTo[n - 1]),
             name : Idents, id : Int, target : Instances \cup {""}, span : Nat]
  BY <1>1
<1>3. t.op = s.op /\ t.idx = s.idx /\ t.to = s.to /\ t.args = s.args /\ t.then = s.then /\ t.else = s.else
  BY <1>1
<1> HIDE DEF t
<1>4. HasShape(t)
  BY <1>1, <1>3 DEF HasShape
<1>5. t \in StmtLevel(StmtsTo[n - 1])
  BY <1>2, <1>4 DEF StmtLevel
<1>6. t \in StmtsTo[n]
  BY <1>1, <1>5, TreesUnfold
<1> QED
  BY <1>6 DEF t

\* A block that begins, and one to which a statement is added.
LEMMA FrameIsIn ==
  ASSUME NEW n \in Nat, NEW op, NEW to \in Seq(Idents), NEW args \in Seq(Exprs), NEW blocks \in Seq(Seq(StmtsTo[n])), NEW tables,
         \/ op = "oracle"
         \/ op = "then" /\ Len(args) = 1 /\ Len(blocks) = 0
         \/ op = "else" /\ Len(args) = 1 /\ Len(blocks) = 1
         \/ op = "for" /\ Len(to) = 1 /\ Len(args) = 2
  PROVE  FrameIn(Frame(op, to, args, blocks, tables), n) /\ Frame(op, to, args, blocks, tables).op = op
<1> DEFINE f == Frame(op, to, args, blocks, tables)
           v == Visible(tables)
<1>1. f = [op |-> op, to |-> to, args |-> args, blocks |-> blocks, code |-> <<>>, atStart |-> v]
  BY DEF Frame
<1> HIDE DEF f, v
<1>2. f.op = op /\ f.to = to /\ f.args = args /\ f.blocks = blocks /\ f.code = <<>> /\ f.atStart = v
  BY <1>1
<1>3. <<>> \in Seq(StmtsTo[n])
  OBVIOUS
<1>4. FrameIn(f, n)
  BY <1>1, <1>2, <1>3 DEF FrameIn
<1> QED
  BY <1>2, <1>4 DEF f

\* A block that grows by a statement.
LEMMA GrownFrame ==
  ASSUME NEW n \in Nat, NEW f, FrameIn(f, n), NEW s \in StmtsTo[n]
  PROVE  FrameIn([f EXCEPT !.code = Append(@, s)], n) /\ [f EXCEPT !.code = Append(@, s)].op = f.op
<1> DEFINE c == Append(f.code, s)
           g == [f EXCEPT !.code = Append(@, s)]
<1>1. c \in Seq(StmtsTo[n])
  BY AppendIn DEF FrameIn
<1>2. f = [op |-> f.op, to |-> f.to, args |-> f.args, blocks |-> f.blocks, code |-> f.code, atStart |-> f.atStart]
  BY DEF FrameIn
<1>3. g = [op |-> f.op, to |-> f.to, args |-> f.args, blocks |-> f.blocks, code |-> c, atStart |-> f.atStart]
  BY <1>2
<1> HIDE DEF g, c
<1>4. g.op = f.op /\ g.to = f.to /\ g.args = f.args /\ g.blocks = f.blocks /\ g.code = c /\ g.atStart = f.atStart
  BY <1>3
<1>5. FrameIn(g, n)
  BY <1>1, <1>3, <1>4 DEF FrameIn
<1> QED
  BY <1>4, <1>5 DEF g

\* One frame changes, one is opened, one is closed.
LEMMA ChangedFrames ==
  ASSUME NEW fs, FramesIn(fs), NEW g, FrameIn(g, DepthAt(Len(fs))), Len(fs) = 1 => g.op = "oracle"
  PROVE  FramesIn([fs EXCEPT ![Len(fs)] = g])
<1> DEFINE gs == [fs EXCEPT ![Len(fs)] = g]
<1>1. Len(fs) \in Nat /\ 1 <= Len(fs) /\ DOMAIN fs = 1 .. Len(fs) /\ fs \in Seq(Range(fs))
  BY Depths, LenProperties DEF FramesIn
<1>2. /\ gs \in Seq(Range(fs) \cup {g}) /\ Len(gs) = Len(fs) /\ DOMAIN gs = 1 .. Len(fs)
      /\ gs[Len(fs)] = g /\ \A i \in 1 .. Len(fs) : i # Len(fs) => gs[i] = fs[i]
  <2>1. fs \in Seq(Range(fs) \cup {g})
    BY <1>1
  <2> QED
    BY <1>1, <2>1
<1> HIDE DEF gs
<1>3. gs \in Seq(Range(gs))
  BY <1>2, OwnRange
<1>4. gs[1].op = "oracle"
  <2>1. 1 \in 1 .. Len(fs)
    BY <1>1
  <2>2. CASE Len(fs) = 1
    BY <1>2, <2>2
  <2>3. CASE Len(fs) # 1
    BY <1>2, <2>1, <2>3 DEF FramesIn
  <2> QED
    BY <2>2, <2>3
<1>5. \A i \in 1 .. Len(fs) : FrameIn(gs[i], DepthAt(i))
  BY <1>2 DEF FramesIn
<1>6. FramesIn(gs)
  BY <1>2, <1>3, <1>4, <1>5 DEF FramesIn
<1> QED
  BY <1>6 DEF gs

\* The three changes of the open blocks: a statement is added, a block is opened,
\* a block is closed.
LEMMA AddedIn ==
  ASSUME NEW fs, FramesIn(fs), NEW s \in StmtsTo[DepthAt(Len(fs))]
  PROVE  FramesIn(Added(fs, s))
<1>1. Len(fs) \in 1 .. MaxNesting + 1 /\ DepthAt(Len(fs)) \in Nat /\ Len(fs) \in 1 .. Len(fs) /\ Len(fs) \in DOMAIN fs
  <2>1. Len(fs) \in 1 .. MaxNesting + 1 /\ fs \in Seq(Range(fs))
    BY DEF FramesIn
  <2>2. \A k \in 1 .. MaxNesting + 1 : k \in 1 .. k
    BY Depths
  <2> QED
    BY <2>1, <2>2, Depths, LenProperties
<1> DEFINE f == fs[Len(fs)]
           g == [f EXCEPT !.code = Append(@, s)]
<1>2. FrameIn(f, DepthAt(Len(fs))) /\ (Len(fs) = 1 => f.op = "oracle")
  BY <1>1 DEF FramesIn
<1>3. FrameIn(g, DepthAt(Len(fs))) /\ g.op = f.op
  <2> HIDE DEF f
  <2> QED
    BY <1>1, <1>2, GrownFrame
<1>4. Added(fs, s) = [fs EXCEPT ![Len(fs)] = g]
  BY <1>1 DEF Added
<1> HIDE DEF g
<1>5. FramesIn([fs EXCEPT ![Len(fs)] = g])
  BY <1>2, <1>3, ChangedFrames
<1> QED
  BY <1>4, <1>5

LEMMA OpenedIn ==
  ASSUME NEW fs, FramesIn(fs), Len(fs) <= MaxNesting, NEW f, FrameIn(f, DepthAt(Len(fs) + 1))
  PROVE  FramesIn(Append(fs, f))
<1> DEFINE gs == Append(fs, f)
<1>1. Len(fs) \in Nat /\ 1 <= Len(fs) /\ Len(fs) + 1 \in 1 .. MaxNesting + 1 /\ DOMAIN fs = 1 .. Len(fs) /\ fs \in Seq(Range(fs))
  BY Depths, LenProperties DEF FramesIn
<1>2. /\ gs \in Seq(Range(fs) \cup {f}) /\ Len(gs) = Len(fs) + 1
      /\ gs[Len(fs) + 1] = f /\ \A i \in 1 .. Len(fs) : gs[i] = fs[i]
  <2>1. fs \in Seq(Range(fs) \cup {f}) /\ f \in Range(fs) \cup {f}
    BY <1>1
  <2> QED
    BY <1>1, <2>1, AppendProperties
<1> HIDE DEF gs
<1>3. gs \in Seq(Range(gs)) /\ DOMAIN gs = 1 .. Len(fs) + 1
  BY <1>1, <1>2, OwnRange, LenProperties
<1>4. gs[1].op = "oracle"
  BY <1>1, <1>2 DEF FramesIn
<1>5. \A i \in 1 .. Len(fs) + 1 : FrameIn(gs[i], DepthAt(i))
  <2>1. \A i \in 1 .. Len(fs) + 1 : i \in 1 .. Len(fs) \/ i = Len(fs) + 1
    BY <1>1
  <2> QED
    BY <1>2, <2>1 DEF FramesIn
<1>6. FramesIn(gs)
  BY <1>1, <1>2, <1>3, <1>4, <1>5 DEF FramesIn
<1> QED
  BY <1>6 DEF gs

LEMMA ClosedIn ==
  ASSUME NEW fs, FramesIn(fs), Len(fs) # 1, NEW s \in StmtsTo[DepthAt(Len(fs) - 1)]
  PROVE  FramesIn(Added(Front(fs), s))
<1> DEFINE gs == Front(fs)
           n == Len(fs) - 1
<1>1. n \in 1 .. MaxNesting + 1 /\ n <= Len(fs) /\ n \in Nat /\ 1 <= n /\ Len(fs) \in Nat /\ fs \in Seq(Range(fs)) /\ fs # <<>>
  <2>1. Len(fs) \in 1 .. MaxNesting + 1 /\ fs \in Seq(Range(fs))
    BY DEF FramesIn
  <2>2. \A k \in 1 .. MaxNesting + 1 : k # 1 => k - 1 \in 1 .. MaxNesting + 1 /\ k - 1 <= k /\ k - 1 \in Nat /\ 1 <= k - 1 /\ k \in Nat /\ k # 0
    BY Depths
  <2>3. fs # <<>>
    BY <2>1, <2>2, EmptySeq
  <2> QED
    BY <2>1, <2>2, <2>3
<1>2. gs \in Seq(Range(fs)) /\ Len(gs) = n /\ DOMAIN gs = 1 .. n /\ \A i \in DOMAIN gs : gs[i] = fs[i]
  BY <1>1, LastParts, LenProperties
<1>3. \A i \in 1 .. n : i \in 1 .. Len(fs)
  BY <1>1
<1> HIDE DEF gs, n
<1>4. gs \in Seq(Range(gs))
  BY <1>2, OwnRange
<1>5. \A i \in 1 .. n : FrameIn(gs[i], DepthAt(i))
  BY <1>2, <1>3 DEF FramesIn
<1>6. gs[1].op = "oracle"
  BY <1>1, <1>2 DEF FramesIn
<1>7. FramesIn(gs)
  BY <1>1, <1>2, <1>4, <1>5, <1>6 DEF FramesIn
<1>8. FramesIn(Added(gs, s))
  BY <1>2, <1>7, AddedIn DEF n
<1> QED
  BY <1>8 DEF gs

-----------------------------------------------------------------------------
(* The invariant, and the steps of the parser.                               *)

Parsed == Seq(StmtsTo[MaxNesting + 2])

CodeTyped ==
  /\ size \in Nat /\ source \in Parsed /\ samples \in Seq(Idents)
  /\ phase = "parse" => FramesIn(frames)
  /\ phase \in {"parsed", "samplified", "unwrapified", "resolved"} => code \in Parsed
  /\ phase \in {"returnified", "treeified", "ready"} => code \in Code

SamplesCounted ==
  phase \in Transformed =>
    /\ Len(samples) = Len(SamplesOf[source])
    /\ \A v \in Views(code) : v.op = "sample" => From(SamplesOf[source], 0, v)

StepsDone ==
  /\ phase \in {"unwrapified", "resolved", "returnified"} => \A v \in Views(code) : ~HasUnwrap[Written(v)]
  /\ Fits(source) =>
       /\ phase \in {"samplified", "unwrapified", "resolved", "returnified"} => Fits(code)
       /\ phase \in {"resolved", "returnified"} => \A v \in Views(code) : v.op = "invoke" => v.target # ""
       /\ phase = "returnified" => Ends[code]
       /\ phase \in {"treeified", "ready"} => ~Unwritable[code]

IInv == CodeTyped /\ SamplesCounted /\ StepsDone

LEMMA ParsedIsCode == Parsed \subseteq Code
BY Depths, TreesGrow DEF Parsed, Code

\* The invariant holds initially.
LEMMA InitHolds == Init => IInv
<1> SUFFICES ASSUME Init PROVE IInv
  OBVIOUS
<1> DEFINE f == Frame("oracle", <<>>, <<>>, <<>>, scope)
<1>1. phase = "parse" /\ frames = <<f>> /\ size = 0 /\ source = <<>> /\ code = <<>> /\ samples = <<>>
  BY DEF Init
<1>2. \A S : <<>> \in Seq(S)
  OBVIOUS
<1>3. FrameIn(f, DepthAt(1)) /\ f.op = "oracle"
  <2>1. DepthAt(1) \in Nat
    BY Depths
  <2>2. <<>> \in Seq(Idents) /\ <<>> \in Seq(Exprs) /\ <<>> \in Seq(Seq(StmtsTo[DepthAt(1)]))
    BY <1>2
  <2> DEFINE n == DepthAt(1)
             e == <<>>
             k == "oracle"
  <2>3. f = Frame(k, e, e, e, scope) /\ k = "oracle" /\ n \in Nat
        /\ e \in Seq(Idents) /\ e \in Seq(Exprs) /\ e \in Seq(Seq(StmtsTo[n]))
    BY <2>1, <2>2
  <2> HIDE DEF n, e, k, f
  <2>4. FrameIn(Frame(k, e, e, e, scope), n) /\ Frame(k, e, e, e, scope).op = k
    BY <2>3, FrameIsIn
  <2> QED
    BY <2>3, <2>4 DEF n
<1>4. FramesIn(frames)
  <2> HIDE DEF f
  <2> DEFINE fs == <<f>>
  <2>1. fs \in Seq({f})
    OBVIOUS
  <2>2. Len(fs) = 1 /\ fs[1] = f
    OBVIOUS
  <2> HIDE DEF fs
  <2>3. fs \in Seq(Range(fs))
    BY <2>1, OwnRange
  <2>4. 1 \in 1 .. MaxNesting + 1 /\ \A i \in 1 .. 1 : i = 1
    BY Depths
  <2>5. FramesIn(fs)
    BY <1>3, <2>2, <2>3, <2>4 DEF FramesIn
  <2> QED
    BY <1>1, <2>5 DEF fs
<1>5. CodeTyped
  BY <1>1, <1>2, <1>4 DEF CodeTyped, Parsed
<1>6. SamplesCounted /\ StepsDone
  BY <1>1 DEF SamplesCounted, StepsDone, Transformed
<1> QED
  BY <1>5, <1>6 DEF IInv

\* An error or a panic.
LEMMA StopKeeps ==
  ASSUME IInv, NEW why \in {"error", "panic", "written"}, Stop(why)
  PROVE  IInv'
<1>1. phase' = why /\ frames' = frames /\ size' = size /\ source' = source /\ code' = code /\ samples' = samples
  BY DEF Stop
<1>2. CodeTyped'
  BY <1>1 DEF IInv, CodeTyped
<1>3. SamplesCounted' /\ StepsDone'
  BY <1>1 DEF SamplesCounted, StepsDone, Transformed
<1> QED
  BY <1>2, <1>3 DEF IInv

\* A step of the parser after which it goes on.
LEMMA ParsingKeeps ==
  ASSUME IInv, phase = "parse", phase' = phase, size' \in Nat, FramesIn(frames'), UNCHANGED <<source, code, samples>>
  PROVE  IInv'
<1>1. CodeTyped'
  BY DEF IInv, CodeTyped
<1>2. SamplesCounted' /\ StepsDone'
  BY DEF SamplesCounted, StepsDone, Transformed
<1> QED
  BY <1>1, <1>2 DEF IInv

\* A statement is read, or refused.
LEMMA AddStatementKeeps ==
  ASSUME IInv, phase = "parse", NEW s \in StmtsTo[2], NEW types, AddStatement(s, types)
  PROVE  IInv'
<1> DEFINE t == [s EXCEPT !.span = size + 1]
<1>1. FramesIn(frames) /\ size \in Nat /\ size + 1 \in Nat
  BY DEF IInv, CodeTyped
<1>2. DepthAt(Len(frames)) \in Nat /\ 2 <= DepthAt(Len(frames)) /\ 2 \in Nat
  BY <1>1, Depths DEF FramesIn
<1>3. s \in StmtsTo[DepthAt(Len(frames))]
  BY <1>2, TreesGrow
<1>4. t \in StmtsTo[DepthAt(Len(frames))]
  BY <1>1, <1>2, <1>3, SpannedIn
<1>5. \/ Stop("error")
      \/ frames' = Added(frames, t) /\ size' = size + 1 /\ UNCHANGED <<phase, source, code, samples>>
  <2> DEFINE scopes == UNION {DeclareAll(scope, s.to, ts) : ts \in types}
  <2>1. IF scopes = {} THEN Stop("error")
        ELSE /\ scope' \in scopes
             /\ frames' = Added(frames, t)
             /\ size' = size + 1
             /\ UNCHANGED <<phase, returns, source, code, samples>>
    BY DEF AddStatement
  <2> HIDE DEF scopes, t
  <2> QED
    BY <2>1
<1> HIDE DEF t
<1>6. FramesIn(Added(frames, t))
  BY <1>1, <1>4, AddedIn
<1> QED
  BY <1>1, <1>5, <1>6, StopKeeps, ParsingKeeps

LEMMA SimpleKeeps == IInv /\ phase = "parse" => \A s \in StmtsTo[1] : \A types : AddStatement(s, types) => IInv'
<1>1. 1 \in Nat /\ 2 \in Nat /\ 1 <= 2
  OBVIOUS
<1>2. StmtsTo[1] \subseteq StmtsTo[2]
  BY <1>1, TreesGrow
<1> QED
  BY <1>2, AddStatementKeeps

\* The simple statements.
LEMMA ReadKeeps ==
  ASSUME IInv,
         ReadAssign \/ ReadTableAssign \/ ReadSample \/ ReadTableSample \/ ReadInvoke \/ ReadReturn \/ ReadAbort
  PROVE  IInv'
<1>1. phase = "parse"
  <2>1. ReadAssign => Room
    BY DEF ReadAssign
  <2>2. ReadTableAssign => Room
    BY DEF ReadTableAssign
  <2>3. ReadSample \/ ReadTableSample => Room
    BY DEF ReadSample, ReadTableSample
  <2>4. ReadInvoke => Room
    BY DEF ReadInvoke
  <2>5. ReadReturn \/ ReadAbort => Room
    BY DEF ReadReturn, ReadAbort
  <2> QED
    BY <2>1, <2>2, <2>3, <2>4, <2>5 DEF Room
<1>2. \A s \in Texts : \A types : AddStatement(s, types) => IInv'
  BY <1>1, SimpleKeeps, TextAssumption
<1>3. \A op, n : Of(op, n) \subseteq Texts
  BY DEF Of
<1>4. CASE ReadAssign
  BY <1>2, <1>3, <1>4, Zenon DEF ReadAssign
<1>5. CASE ReadTableAssign
  BY <1>2, <1>3, <1>5, Zenon DEF ReadTableAssign
<1>6. CASE ReadSample
  BY <1>2, <1>3, <1>6, Zenon DEF ReadSample
<1>7. CASE ReadTableSample
  BY <1>2, <1>3, <1>7, Zenon DEF ReadTableSample
<1>8. CASE ReadInvoke
  <2>1. \A s \in Of("invoke", 0) \cup Of("invoke", 1) : \A types : AddStatement(s, types) => IInv'
    BY <1>2, <1>3
  <2> QED
    BY <1>8, <2>1, Zenon DEF ReadInvoke
<1>9. CASE ReadReturn
  BY <1>2, <1>3, <1>9, Zenon DEF ReadReturn
<1>10. CASE ReadAbort
  BY <1>1, <1>10, AbortIn, SimpleKeeps DEF ReadAbort
<1> QED
  BY <1>4, <1>5, <1>6, <1>7, <1>8, <1>9, <1>10

LEMMA ReadParseKeeps == ASSUME IInv, ReadParse PROVE IInv'
<1>1. phase = "parse"
  BY DEF ReadParse, Room
<1>2. \A s \in Texts : \A types : AddStatement(s, types) => IInv'
  BY <1>1, SimpleKeeps, TextAssumption
<1>3. Stop("panic") => IInv'
  BY StopKeeps
<1>4. \A s \in Of("parse", 0) : \A types : AddStatement(s, types) => IInv'
  BY <1>2 DEF Of
<1> QED
  BY <1>3, <1>4, Zenon DEF ReadParse

\* An assertion is a conditional with a block of its own.
LEMMA ReadAssertKeeps == ASSUME IInv, ReadAssert PROVE IInv'
<1>1. phase = "parse"
  BY DEF ReadAssert, Room
<1>2. \A c \in Conditions : IfThenElse(c, <<>>, <<Abort>>) \in StmtsTo[2]
  <2>1. 1 \in Nat /\ 1 + 1 = 2
    OBVIOUS
  <2>2. <<>> \in Seq(StmtsTo[1])
    OBVIOUS
  <2>4. <<Abort>> \in Seq(StmtsTo[1])
    BY AbortIn, OneSeq
  <2>3. \A c \in Conditions : c \in Exprs
    BY TextAssumption
  <2> QED
    BY <2>1, <2>2, <2>3, <2>4, IteIn
<1>3. \A c \in Conditions : \A types : AddStatement(IfThenElse(c, <<>>, <<Abort>>), types) => IInv'
  BY <1>1, <1>2, AddStatementKeeps
<1> QED
  BY <1>3, Zenon DEF ReadAssert

\* The innermost open block.
LEMMA OpenIs ==
  ASSUME IInv, phase = "parse"
  PROVE  /\ FramesIn(frames) /\ FrameIn(Open, DepthAt(Len(frames))) /\ (Len(frames) = 1 => Open.op = "oracle")
         /\ DepthAt(Len(frames)) \in Nat /\ DepthAt(Len(frames) - 1) = DepthAt(Len(frames)) + 1
         /\ Len(frames) \in Nat /\ size \in Nat
<1>1. FramesIn(frames) /\ size \in Nat
  BY DEF IInv, CodeTyped
<1>2. Len(frames) \in 1 .. MaxNesting + 1
  BY <1>1 DEF FramesIn
<1>3. Len(frames) \in Nat /\ Len(frames) \in 1 .. Len(frames)
  BY <1>2, Depths
<1>4. FrameIn(frames[Len(frames)], DepthAt(Len(frames)))
  BY <1>1, <1>3 DEF FramesIn
<1> QED
  BY <1>1, <1>2, <1>3, <1>4, Depths DEF Open, FramesIn

LEMMA NestedDepth ==
  ASSUME IInv, Nestable
  PROVE  /\ phase = "parse" /\ Len(frames) <= MaxNesting /\ DepthAt(Len(frames) + 1) \in Nat /\ FramesIn(frames) /\ size + 1 \in Nat
<1>1. phase = "parse" /\ Len(frames) <= MaxNesting
  BY DEF Nestable, Room
<1>2. FramesIn(frames) /\ Len(frames) \in Nat /\ size \in Nat
  BY <1>1, OpenIs
<1>3. Len(frames) + 1 \in 1 .. MaxNesting + 1
  BY <1>1, <1>2, Depths
<1> QED
  BY <1>1, <1>2, <1>3, Depths

\* Blocks are opened and closed.
LEMMA OpenIfKeeps == ASSUME IInv, OpenIf PROVE IInv'
<1>1. Nestable
  BY DEF OpenIf
<1>2. PICK c \in Conditions : IF TypeNow(c, {Bool}) = {} THEN Stop("error")
       ELSE /\ frames' = Append(frames, Frame("then", <<>>, <<c>>, <<>>, scope))
            /\ size' = size + 1
            /\ UNCHANGED <<phase, returns, scope, source, code, samples>>
  BY DEF OpenIf
<1>3. CASE Stop("error")
  BY <1>3, StopKeeps
<1>4. CASE /\ frames' = Append(frames, Frame("then", <<>>, <<c>>, <<>>, scope))
           /\ size' = size + 1
           /\ UNCHANGED <<phase, returns, scope, source, code, samples>>
  <2> DEFINE f == Frame("then", <<>>, <<c>>, <<>>, scope)
  <2>1. <<c>> \in Seq(Exprs) /\ Len(<<c>>) = 1
    <3>1. c \in Exprs
      BY TextAssumption
    <3> QED
      BY <3>1, OneSeq
  <2>2. Len(<<>>) = 0 /\ \A S : <<>> \in Seq(S)
    OBVIOUS
  <2>3. FrameIn(f, DepthAt(Len(frames) + 1))
    BY <1>1, <2>1, <2>2, NestedDepth, FrameIsIn
  <2> HIDE DEF f
  <2>4. FramesIn(Append(frames, f))
    BY <1>1, <2>3, NestedDepth, OpenedIn
  <2>5. frames' = Append(frames, f)
    BY <1>4 DEF f
  <2> QED
    BY <1>1, <1>4, <2>4, <2>5, NestedDepth, ParsingKeeps
<1> QED
  BY <1>2, <1>3, <1>4

LEMMA OpenElseKeeps == ASSUME IInv, OpenElse PROVE IInv'
<1> DEFINE f == Open
           g == Frame("else", <<>>, f.args, <<f.code>>, scope)
           n == DepthAt(Len(frames))
<1>1. /\ phase = "parse" /\ f.op = "then" /\ UNCHANGED <<phase, returns, scope, size, source, code, samples>>
  BY DEF OpenElse
<1>2. FramesIn(frames) /\ FrameIn(f, n) /\ n \in Nat /\ Len(frames) # 1 /\ size \in Nat
  BY <1>1, OpenIs
<1>3. frames' = [frames EXCEPT ![Len(frames)] = g]
  <2>1. Len(frames) \in DOMAIN frames
    <3>1. frames \in Seq(Range(frames)) /\ Len(frames) \in 1 .. MaxNesting + 1
      BY <1>2 DEF FramesIn
    <3>2. \A k \in 1 .. MaxNesting + 1 : k \in 1 .. k
      BY Depths
    <3> QED
      BY <3>1, <3>2, LenProperties
  <2> QED
    BY <2>1 DEF OpenElse, Open
<1>4. FrameIn(g, n)
  <2> HIDE DEF f, n
  <2>1. f.args \in Seq(Exprs) /\ Len(f.args) = 1 /\ f.code \in Seq(StmtsTo[n])
    BY <1>1, <1>2 DEF FrameIn
  <2>2. <<f.code>> \in Seq(Seq(StmtsTo[n])) /\ Len(<<f.code>>) = 1
    BY <2>1, OneSeq
  <2>3. <<>> \in Seq(Idents)
    OBVIOUS
  <2> QED
    BY <1>2, <2>1, <2>2, <2>3, FrameIsIn
<1> HIDE DEF g, f
<1>5. FramesIn([frames EXCEPT ![Len(frames)] = g])
  BY <1>2, <1>4, ChangedFrames
<1> QED
  BY <1>1, <1>2, <1>3, <1>5, ParsingKeeps

LEMMA CloseIfKeeps == ASSUME IInv, CloseIf PROVE IInv'
<1> DEFINE f == Open
           n == DepthAt(Len(frames))
           blocks == Append(f.blocks, f.code)
           else == IF Len(blocks) = 2 THEN blocks[2] ELSE <<>>
           s == IfThenElse(f.args[1], blocks[1], else)
<1>1. /\ phase = "parse" /\ f.op \in {"then", "else"} /\ UNCHANGED <<phase, returns, scope, size, source, code, samples>>
      /\ frames' = Added(Front(frames), s)
  BY DEF CloseIf
<1>2. FramesIn(frames) /\ FrameIn(f, n) /\ n \in Nat /\ Len(frames) # 1 /\ size \in Nat /\ DepthAt(Len(frames) - 1) = n + 1
  BY <1>1, OpenIs
<1> HIDE DEF f, n
<1>3. /\ f.args \in Seq(Exprs) /\ Len(f.args) = 1 /\ f.blocks \in Seq(Seq(StmtsTo[n])) /\ f.code \in Seq(StmtsTo[n])
      /\ Len(f.blocks) = 0 \/ Len(f.blocks) = 1
  BY <1>1, <1>2 DEF FrameIn
<1>4. f.args[1] \in Exprs
  BY <1>3
<1>5. blocks \in Seq(Seq(StmtsTo[n])) /\ Len(blocks) = Len(f.blocks) + 1
  <2> DEFINE S == Seq(StmtsTo[n])
             l == f.blocks
             c == f.code
  <2>1. l \in Seq(S) /\ c \in S
    BY <1>3
  <2> HIDE DEF S, l, c
  <2>2. Append(l, c) \in Seq(S) /\ Len(Append(l, c)) = Len(l) + 1
    BY <2>1, AppendProperties
  <2> QED
    BY <2>2 DEF S, l, c
<1> HIDE DEF blocks
<1>6. blocks[1] \in Seq(StmtsTo[n]) /\ (Len(blocks) = 2 => blocks[2] \in Seq(StmtsTo[n]))
  <2>1. Len(blocks) \in Nat /\ 1 \in 1 .. Len(blocks) /\ (Len(blocks) = 2 => 2 \in 1 .. Len(blocks))
    BY <1>3, <1>5
  <2> QED
    BY <1>5, <2>1, ElementOfSeq
<1>7. else \in Seq(StmtsTo[n])
  <2>1. <<>> \in Seq(StmtsTo[n])
    OBVIOUS
  <2> QED
    BY <1>6, <2>1
<1> HIDE DEF else
<1>8. s \in StmtsTo[n + 1]
  BY <1>2, <1>4, <1>6, <1>7, IteIn
<1> HIDE DEF s
<1>9. FramesIn(Added(Front(frames), s))
  BY <1>2, <1>8, ClosedIn
<1> QED
  BY <1>1, <1>2, <1>9, ParsingKeeps

LEMMA OpenForKeeps == ASSUME IInv, OpenFor PROVE IInv'
<1>1. Nestable
  BY DEF OpenFor
<1>2. PICK x \in LoopVars, from \in LoopBounds, to \in LoopBounds :
       IF \E e \in {from, to} : TypeNow(e, {Integer}) = {} THEN Stop("error")
       ELSE IF x \in DOMAIN Visible(scope) THEN Stop("panic")
       ELSE /\ scope' = Append(scope, x :> Integer)
            /\ frames' = Append(frames, Frame("for", <<x>>, <<from, to>>, <<>>, scope'))
            /\ size' = size + 1
            /\ UNCHANGED <<phase, returns, source, code, samples>>
  BY Zenon DEF OpenFor
<1>3. CASE Stop("error") \/ Stop("panic")
  BY <1>3, StopKeeps
<1>4. CASE /\ frames' = Append(frames, Frame("for", <<x>>, <<from, to>>, <<>>, scope'))
           /\ size' = size + 1
           /\ UNCHANGED <<phase, returns, source, code, samples>>
  <2> DEFINE f == Frame("for", <<x>>, <<from, to>>, <<>>, scope')
  <2>1. <<x>> \in Seq(Idents) /\ Len(<<x>>) = 1 /\ <<from, to>> \in Seq(Exprs) /\ Len(<<from, to>>) = 2
    <3>1. x \in Idents /\ from \in Exprs /\ to \in Exprs
      BY TextAssumption
    <3>2. <<x>> \in Seq(Idents)
      BY <3>1, OneSeq
    <3>3. <<from, to>> \in Seq(Exprs)
      BY <3>1
    <3> QED
      BY <3>2, <3>3
  <2>2. Len(<<>>) = 0 /\ \A S : <<>> \in Seq(S)
    OBVIOUS
  <2>3. FrameIn(f, DepthAt(Len(frames) + 1))
    BY <1>1, <2>1, <2>2, NestedDepth, FrameIsIn
  <2> HIDE DEF f
  <2>4. FramesIn(Append(frames, f))
    BY <1>1, <2>3, NestedDepth, OpenedIn
  <2>5. frames' = Append(frames, f)
    BY <1>4 DEF f
  <2> QED
    BY <1>1, <1>4, <2>4, <2>5, NestedDepth, ParsingKeeps
<1> QED
  BY <1>2, <1>3, <1>4, Zenon

LEMMA CloseForKeeps == ASSUME IInv, CloseFor PROVE IInv'
<1> DEFINE f == Open
           n == DepthAt(Len(frames))
           s == For(f.to[1], f.args[1], f.args[2], f.code)
<1>1. /\ phase = "parse" /\ f.op = "for" /\ UNCHANGED <<phase, returns, size, source, code, samples>>
      /\ frames' = Added(Front(frames), s)
  BY DEF CloseFor
<1>2. FramesIn(frames) /\ FrameIn(f, n) /\ n \in Nat /\ Len(frames) # 1 /\ size \in Nat /\ DepthAt(Len(frames) - 1) = n + 1
  BY <1>1, OpenIs
<1> HIDE DEF f, n
<1>3. /\ f.args \in Seq(Exprs) /\ Len(f.args) = 2 /\ f.to \in Seq(Idents) /\ Len(f.to) = 1 /\ f.code \in Seq(StmtsTo[n])
  BY <1>1, <1>2 DEF FrameIn
<1>4. f.args[1] \in Exprs /\ f.args[2] \in Exprs /\ f.to[1] \in Idents
  <2>1. 1 \in 1 .. Len(f.args) /\ 2 \in 1 .. Len(f.args) /\ 1 \in 1 .. Len(f.to)
    BY <1>3
  <2> QED
    BY <1>3, <2>1, ElementOfSeq
<1>5. s \in StmtsTo[n + 1]
  BY <1>2, <1>3, <1>4, ForIn
<1> HIDE DEF s
<1>6. FramesIn(Added(Front(frames), s))
  BY <1>2, <1>5, ClosedIn
<1> QED
  BY <1>1, <1>2, <1>6, ParsingKeeps

\* The outermost block is the code.
LEMMA EndOracleKeeps == ASSUME IInv, EndOracle PROVE IInv'
<1>1. /\ phase = "parse" /\ Len(frames) = 1 /\ phase' = "parsed" /\ source' = Open.code /\ code' = Open.code
      /\ UNCHANGED <<size, samples>>
  BY DEF EndOracle
<1>2. FrameIn(Open, DepthAt(Len(frames)))
  BY <1>1, OpenIs
<1>3. Open.code \in Parsed
  BY <1>1, <1>2, Depths DEF FrameIn, Parsed
<1>4. CodeTyped'
  BY <1>1, <1>3 DEF IInv, CodeTyped
<1>5. SamplesCounted' /\ StepsDone'
  BY <1>1 DEF SamplesCounted, StepsDone, Transformed
<1> QED
  BY <1>4, <1>5 DEF IInv

-----------------------------------------------------------------------------
(* The steps of transform_game_inst, and the theorems.                       *)

\* What a transformation leaves alone.
LEMMA StepIs ==
  ASSUME NEW from, NEW to, NEW new, Step(from, to, new)
  PROVE  phase = from /\ phase' = to /\ code' = new /\ UNCHANGED <<size, source, samples>>
BY DEF Step

LEMMA SamplifyKeeps == ASSUME IInv, SamplifyCode PROVE IInv'
<1> DEFINE c == [ctr |-> 0, positions |-> <<>>]
           r == Samplify[<<source, c>>]
<1>1. /\ phase = "parsed" /\ phase' = "samplified" /\ code' = r.code /\ samples' = r.counters.positions
      /\ UNCHANGED <<size, source>>
  BY DEF SamplifyCode, Samplified
<1>2. source \in Parsed /\ source \in Code /\ size \in Nat
  BY ParsedIsCode DEF IInv, CodeTyped
<1>3. c \in Counters /\ c.ctr = 0 /\ Len(c.positions) = 0
  <2>1. <<>> \in Seq(Idents) /\ Len(<<>>) = 0
    OBVIOUS
  <2> QED
    BY <2>1 DEF Counters
<1> HIDE DEF c
<1>4. r.counters \in Counters /\ NoDeeper(source, r.code)
  <2>1. <<source, c>> \in SamplifyIn /\ <<source, c>>[1] = source
    BY <1>2, <1>3 DEF SamplifyIn
  <2>2. r \in SamplifyOut[<<source, c>>]
    BY <2>1, SamplifyUnfold DEF Typed
  <2> HIDE DEF r
  <2> QED
    BY <2>1, <2>2 DEF SamplifyOut
<1>5. Numbered(source, c, r)
  BY <1>2, <1>3, SamplifyNumbers
<1> HIDE DEF r
<1>6. /\ code' \in Parsed /\ samples' \in Seq(Idents)
  BY <1>1, <1>2, <1>4, Depths DEF NoDeeper, Parsed, Counters
<1>7. CodeTyped'
  BY <1>1, <1>2, <1>6 DEF CodeTyped
<1>8. SamplesCounted'
  <2>1. Len(SamplesOf[source]) \in Nat
    BY <1>2, SamplesOfIs
  <2>2. Len(r.counters.positions) = Len(SamplesOf[source])
    BY <1>3, <1>5, <2>1 DEF Numbered
  <2>3. \A v \in Views(r.code) : v.op = "sample" => From(SamplesOf[source], 0, v)
    BY <1>3, <1>5 DEF Numbered
  <2> QED
    BY <1>1, <2>2, <2>3 DEF SamplesCounted
<1>9. StepsDone'
  <2>1. Fits(source) => Fits(r.code)
    BY <1>5 DEF Numbered, Fits
  <2> QED
    BY <1>1, <2>1 DEF StepsDone
<1> QED
  BY <1>7, <1>8, <1>9 DEF IInv

LEMMA UnwrapifyKeeps == ASSUME IInv, UnwrapifyCode PROVE IInv'
<1> DEFINE r == Unwrapify[<<code, 1>>]
<1>1. phase = "samplified" /\ phase' = "unwrapified" /\ code' = r.code /\ UNCHANGED <<size, source, samples>>
  BY StepIs DEF UnwrapifyCode
<1>2. code \in Parsed /\ code \in Code /\ size \in Nat /\ source \in Parsed /\ samples \in Seq(Idents) /\ 1 \in Nat
  BY <1>1, ParsedIsCode DEF IInv, CodeTyped
<1>3. NoDeeper(code, r.code)
  <2>1. <<code, 1>> \in UnwrapifyIn /\ <<code, 1>>[1] = code
    BY <1>2 DEF UnwrapifyIn
  <2>2. r \in UnwrapifyOut[<<code, 1>>]
    BY <2>1, UnwrapifyUnfold DEF Typed
  <2> HIDE DEF r
  <2> QED
    BY <2>1, <2>2 DEF UnwrapifyOut
<1>4. UnwrapFree(code, r.code)
  BY <1>2, UnwrapifyFrees
<1> HIDE DEF r
<1>5. code' \in Parsed
  BY <1>1, <1>2, <1>3, Depths DEF NoDeeper, Parsed
<1>6. CodeTyped'
  BY <1>1, <1>2, <1>5 DEF CodeTyped
<1>7. SamplesCounted'
  <2>1. \A u \in Views(code) : u.op = "sample" => From(SamplesOf[source], 0, u)
    BY <1>1 DEF IInv, SamplesCounted, Transformed
  <2>2. ASSUME NEW v \in Views(r.code), v.op = "sample" PROVE From(SamplesOf[source], 0, v)
    <3>1. PICK u \in Views(code) : u.op = v.op /\ u.id = v.id /\ u.span = v.span
      BY <1>4, <2>2 DEF UnwrapFree, Stems
    <3> QED
      BY <2>1, <2>2, <3>1 DEF From
  <2>3. Len(samples) = Len(SamplesOf[source])
    BY <1>1 DEF IInv, SamplesCounted, Transformed
  <2> QED
    BY <1>1, <2>2, <2>3 DEF SamplesCounted
<1>8. StepsDone'
  <2>1. Fits(source) => Fits(code)
    BY <1>1 DEF IInv, StepsDone
  <2>2. Fits(source) => Fits(r.code)
    <3>1. \A v : v.op = "assign" => v.op # "for" /\ InFull(v)
      BY DEF InFull
    <3> QED
      BY <1>4, <2>1, <3>1 DEF UnwrapFree, Stems, Fits
  <2>3. \A v \in Views(r.code) : ~HasUnwrap[Written(v)]
    BY <1>4 DEF UnwrapFree
  <2> QED
    BY <1>1, <2>2, <2>3 DEF StepsDone
<1> QED
  BY <1>6, <1>7, <1>8 DEF IInv

LEMMA ResolveKeeps == ASSUME IInv, ResolveCode PROVE IInv'
<1> DEFINE r == Resolve[code]
<1>1. Stop("panic") \/ (r.ok /\ Step("unwrapified", "resolved", r.code))
  <2>1. IF phase = "unwrapified" /\ ~r.ok THEN Stop("panic") ELSE Step("unwrapified", "resolved", r.code)
    BY DEF ResolveCode
  <2> HIDE DEF r
  <2> QED
    BY <2>1, StepIs
<1>2. CASE Stop("panic")
  BY <1>2, StopKeeps
<1>3. CASE r.ok /\ Step("unwrapified", "resolved", r.code)
  <2>1. phase = "unwrapified" /\ phase' = "resolved" /\ code' = r.code /\ UNCHANGED <<size, source, samples>>
    BY <1>3, StepIs
  <2>2. code \in Parsed /\ code \in Code /\ size \in Nat /\ source \in Parsed /\ samples \in Seq(Idents)
    BY <2>1, ParsedIsCode DEF IInv, CodeTyped
  <2>3. NoDeeper(code, r.code)
    <3>1. r \in ResolveOut[code]
      BY <2>2, ResolveUnfold DEF Typed
    <3> HIDE DEF r
    <3> QED
      BY <2>2, <3>1 DEF ResolveOut
  <2>4. Aimed(code, r)
    BY <2>2, ResolveAims
  <2> HIDE DEF r
  <2>5. code' \in Parsed
    BY <2>1, <2>2, <2>3, Depths DEF NoDeeper, Parsed
  <2>6. CodeTyped'
    BY <2>1, <2>2, <2>5 DEF CodeTyped
  <2>7. \A v \in Views(r.code) : \E u \in Views(code) : SameBut(u, v)
    BY <2>4 DEF Aimed
  <2>8. SamplesCounted'
    <3>1. \A u \in Views(code) : u.op = "sample" => From(SamplesOf[source], 0, u)
      BY <2>1 DEF IInv, SamplesCounted, Transformed
    <3>2. Len(samples) = Len(SamplesOf[source])
      BY <2>1 DEF IInv, SamplesCounted, Transformed
    <3>3. ASSUME NEW v \in Views(r.code), v.op = "sample" PROVE From(SamplesOf[source], 0, v)
      <4>1. PICK u \in Views(code) : u.op = v.op /\ u.id = v.id /\ u.span = v.span
        BY <2>7 DEF SameBut
      <4> QED
        BY <3>1, <3>3, <4>1 DEF From
    <3> QED
      BY <2>1, <3>2, <3>3 DEF SamplesCounted
  <2>9. StepsDone'
    <3>1. Fits(source) => Fits(code)
      BY <2>1 DEF IInv, StepsDone
    <3>2. Fits(source) => Fits(r.code)
      <4>1. \A u, v : SameBut(u, v) => u.op = v.op /\ (InFull(u) <=> InFull(v))
        BY DEF SameBut, InFull
      <4> QED
        BY <2>7, <3>1, <4>1 DEF Fits
    <3>3. \A v \in Views(r.code) : ~HasUnwrap[Written(v)]
      <4>1. \A u \in Views(code) : ~HasUnwrap[Written(u)]
        BY <2>1 DEF IInv, StepsDone
      <4>2. \A u, v : SameBut(u, v) => Written(v) = Written(u)
        BY DEF SameBut, Written, ExprsOf
      <4> QED
        BY <2>7, <4>1, <4>2
    <3>4. Fits(source) => \A v \in Views(r.code) : v.op = "invoke" => v.target # ""
      BY <1>3, <2>4, <3>1 DEF Aimed
    <3> QED
      BY <2>1, <3>2, <3>3, <3>4 DEF StepsDone
  <2> QED
    BY <2>6, <2>8, <2>9 DEF IInv
<1> QED
  BY <1>1, <1>2, <1>3

LEMMA ReturnViewIs == ReturnView.op = "return" /\ ~HasUnwrap[Written(ReturnView)] /\ InFull(ReturnView)
<1>1. ReturnView.op = "return" /\ ReturnView.idx = <<>> /\ ReturnView.args = <<>>
  BY ReturnIs DEF ReturnView, View
<1>2. Written(ReturnView) = <<>> \o <<>>
  BY <1>1 DEF Written, ExprsOf
<1>3. <<>> \o <<>> = <<>>
  BY HasUnwrapEmpty, ConcatEmptySeq
<1>4. InFull(ReturnView)
  BY <1>1 DEF InFull
<1> QED
  BY <1>1, <1>2, <1>3, <1>4, HasUnwrapEmpty

LEMMA ReturnifyKeeps == ASSUME IInv, ReturnifyCode PROVE IInv'
<1> DEFINE ok == returns = Empty
           r == Returnify[<<code, ok>>]
<1>1. Stop("panic") \/ (r.ok /\ Step("resolved", "returnified", r.code))
  <2>1. IF phase = "resolved" /\ ~r.ok THEN Stop("panic") ELSE Step("resolved", "returnified", r.code)
    BY DEF ReturnifyCode
  <2> HIDE DEF r
  <2> QED
    BY <2>1, StepIs
<1>2. CASE Stop("panic")
  BY <1>2, StopKeeps
<1>3. CASE r.ok /\ Step("resolved", "returnified", r.code)
  <2>1. phase = "resolved" /\ phase' = "returnified" /\ code' = r.code /\ UNCHANGED <<size, source, samples>>
    BY <1>3, StepIs
  <2>2. code \in Parsed /\ code \in Code /\ size \in Nat /\ source \in Parsed /\ samples \in Seq(Idents) /\ ok \in BOOLEAN
    BY <2>1, ParsedIsCode DEF IInv, CodeTyped
  <2> HIDE DEF ok
  <2>3. OneDeeper(code, r.code)
    <3>1. <<code, ok>> \in ReturnifyIn /\ <<code, ok>>[1] = code
      BY <2>2 DEF ReturnifyIn
    <3>2. r \in ReturnifyOut[<<code, ok>>]
      BY <3>1, ReturnifyUnfold DEF Typed
    <3> HIDE DEF r
    <3> QED
      BY <3>1, <3>2 DEF ReturnifyOut
  <2>4. EndsAll(code, r)
    BY <2>2, ReturnifyEnds
  <2> HIDE DEF r
  <2>5. r.code \in Code
    <3>1. r.code \in Seq(StmtsTo[MaxNesting + 3])
      BY <2>2, <2>3, Depths DEF OneDeeper, Parsed
    <3> QED
      BY <3>1, Depths, TreesGrow DEF Code
  <2>6. CodeTyped'
    BY <2>1, <2>2, <2>5 DEF CodeTyped
  <2>7. Views(r.code) \subseteq Views(code) \cup {ReturnView} /\ Ends[r.code]
    BY <1>3, <2>4, <2>5 DEF EndsAll
  <2>8. SamplesCounted'
    <3>1. \A u \in Views(code) : u.op = "sample" => From(SamplesOf[source], 0, u)
      BY <2>1 DEF IInv, SamplesCounted, Transformed
    <3>2. Len(samples) = Len(SamplesOf[source])
      BY <2>1 DEF IInv, SamplesCounted, Transformed
    <3>3. \A v \in Views(r.code) : v.op = "sample" => From(SamplesOf[source], 0, v)
      BY <2>7, <3>1, ReturnViewIs
    <3> QED
      BY <2>1, <3>2, <3>3 DEF SamplesCounted
  <2>9. StepsDone'
    <3>1. Fits(source) => Fits(r.code)
      BY <2>1, <2>7, ReturnViewIs DEF IInv, StepsDone, Fits
    <3>2. \A v \in Views(r.code) : ~HasUnwrap[Written(v)]
      BY <2>1, <2>7, ReturnViewIs DEF IInv, StepsDone
    <3>3. Fits(source) => \A v \in Views(r.code) : v.op = "invoke" => v.target # ""
      BY <2>1, <2>7, ReturnViewIs DEF IInv, StepsDone
    <3> QED
      BY <2>1, <2>7, <3>1, <3>2, <3>3 DEF StepsDone
  <2> QED
    BY <2>6, <2>8, <2>9 DEF IInv
<1> QED
  BY <1>1, <1>2, <1>3

LEMMA TreeifyKeeps == ASSUME IInv, TreeifyCode PROVE IInv'
<1> DEFINE c == Treeify[<<code, Len(code)>>]
<1>1. c \in Code /\ phase = "returnified" /\ phase' = "treeified" /\ code' = c /\ UNCHANGED <<size, source, samples>>
  BY StepIs DEF TreeifyCode
<1>2. code \in Code /\ size \in Nat /\ source \in Parsed /\ samples \in Seq(Idents)
  BY <1>1 DEF IInv, CodeTyped
<1>3. Len(code) \in Nat
  BY <1>2, LenProperties DEF Code
<1>4. TreeOk(code, c)
  BY <1>2, <1>3, TreeifyOk
<1> HIDE DEF c
<1>5. Views(c) \subseteq Views(code) /\ (Ends[code] /\ (\A v \in Views(code) : GoodView(v)) => ~Unwritable[c])
  BY <1>1, <1>4 DEF TreeOk
<1>6. CodeTyped'
  BY <1>1, <1>2 DEF CodeTyped
<1>7. \A u \in Views(code) : u.op = "sample" => From(SamplesOf[source], 0, u)
  BY <1>1 DEF IInv, SamplesCounted, Transformed
<1>8. SamplesCounted'
  <2>1. Len(samples) = Len(SamplesOf[source])
    BY <1>1 DEF IInv, SamplesCounted, Transformed
  <2> QED
    BY <1>1, <1>5, <1>7, <2>1 DEF SamplesCounted
<1>9. StepsDone'
  <2>1. ASSUME Fits(source) PROVE ~Unwritable[c]
    <3>1. Fits(code) /\ Ends[code] /\ \A v \in Views(code) : ~HasUnwrap[Written(v)] /\ (v.op = "invoke" => v.target # "")
      BY <1>1, <2>1 DEF IInv, StepsDone
    <3>2. \A v : From(SamplesOf[source], 0, v) => v.id # Unnumbered
      <4>1. SamplesOf[source] \in Seq(AnyStmt)
        BY <1>2, ParsedIsCode, SamplesOfIs
      <4> DEFINE l == SamplesOf[source]
      <4> HIDE DEF l
      <4>2. \A j \in DOMAIN l : 0 + j - 1 # -1
        BY <4>1 DEF l
      <4>3. \A v : From(l, 0, v) => v.id # Unnumbered
        BY <4>2 DEF From, Unnumbered
      <4> QED
        BY <4>3 DEF l
    <3>3. \A v \in Views(code) : GoodView(v)
      BY <1>7, <3>1, <3>2 DEF GoodView, Fits
    <3> QED
      BY <1>5, <3>1, <3>3
  <2> QED
    BY <1>1, <2>1 DEF StepsDone
<1> QED
  BY <1>6, <1>8, <1>9 DEF IInv

LEMMA InitTablesKeep == ASSUME IInv, InitTablesCode PROVE IInv'
<1> DEFINE c == InitTables[<<code, {}>>]
<1>1. phase = "treeified" /\ phase' = "ready" /\ code' = c /\ UNCHANGED <<size, source, samples>>
  BY StepIs DEF InitTablesCode
<1>2. code \in Code /\ size \in Nat /\ source \in Parsed /\ samples \in Seq(Idents) /\ {} \in SUBSET Idents
  BY <1>1 DEF IInv, CodeTyped
<1>3. c \in Code /\ Kept(code, c)
  BY <1>2, InitTablesParts, InitTablesKeeps
<1> HIDE DEF c
<1>4. CodeTyped'
  BY <1>1, <1>2, <1>3 DEF CodeTyped
<1>5. SamplesCounted'
  <2>1. /\ \A u \in Views(code) : u.op = "sample" => From(SamplesOf[source], 0, u)
        /\ Len(samples) = Len(SamplesOf[source])
    BY <1>1 DEF IInv, SamplesCounted, Transformed
  <2>2. \A v \in Views(c) : v.op = "sample" => From(SamplesOf[source], 0, v)
    BY <1>3, <2>1 DEF Kept
  <2> QED
    BY <1>1, <2>1, <2>2 DEF SamplesCounted
<1>6. StepsDone'
  <2>1. Fits(source) => ~Unwritable[c]
    <3>1. Fits(source) => ~Unwritable[code]
      BY <1>1 DEF IInv, StepsDone
    <3> QED
      BY <1>2, <1>3, <3>1, KeptWritable
  <2> QED
    BY <1>1, <2>1 DEF StepsDone
<1> QED
  BY <1>4, <1>5, <1>6 DEF IInv

\* Nothing else is looked at.
LEMMA StutterKeeps == ASSUME IInv, UNCHANGED vars PROVE IInv'
<1>1. /\ phase' = phase /\ frames' = frames /\ size' = size /\ source' = source /\ code' = code /\ samples' = samples
  BY DEF vars
<1>2. CodeTyped'
  BY <1>1 DEF IInv, CodeTyped
<1>3. SamplesCounted'
  BY <1>1 DEF IInv, SamplesCounted
<1>4. StepsDone'
  BY <1>1 DEF IInv, StepsDone
<1> QED
  BY <1>2, <1>3, <1>4 DEF IInv

\* The invariant is inductive: one case for each step.
LEMMA Inductive == ASSUME IInv, [Next]_vars PROVE IInv'
<1>1. CASE ReadAssign \/ ReadTableAssign \/ ReadSample \/ ReadTableSample \/ ReadInvoke \/ ReadReturn \/ ReadAbort
  BY <1>1, ReadKeeps
<1>2. CASE ReadParse
  BY <1>2, ReadParseKeeps
<1>3. CASE ReadAssert
  BY <1>3, ReadAssertKeeps
<1>4. CASE OpenIf
  BY <1>4, OpenIfKeeps
<1>5. CASE OpenElse
  BY <1>5, OpenElseKeeps
<1>6. CASE CloseIf
  BY <1>6, CloseIfKeeps
<1>7. CASE OpenFor
  BY <1>7, OpenForKeeps
<1>8. CASE CloseFor
  BY <1>8, CloseForKeeps
<1>9. CASE EndOracle
  BY <1>9, EndOracleKeeps
<1>10. CASE SamplifyCode
  BY <1>10, SamplifyKeeps
<1>11. CASE UnwrapifyCode
  BY <1>11, UnwrapifyKeeps
<1>12. CASE ResolveCode
  BY <1>12, ResolveKeeps
<1>13. CASE ReturnifyCode
  BY <1>13, ReturnifyKeeps
<1>14. CASE TreeifyCode
  BY <1>14, TreeifyKeeps
<1>15. CASE InitTablesCode
  BY <1>15, InitTablesKeep
<1>16. CASE WriteCode
  <2>1. PICK why \in {"panic", "written"} : Stop(why)
    BY <1>16 DEF WriteCode
  <2> QED
    BY <2>1, StopKeeps
<1>17. CASE UNCHANGED vars
  BY <1>17, StutterKeeps
<1> QED
  BY <1>1, <1>2, <1>3, <1>4, <1>5, <1>6, <1>7, <1>8, <1>9, <1>10, <1>11, <1>12, <1>13, <1>14, <1>15, <1>16, <1>17 DEF Next

\* For every text, scope, signature, table of edges and bound, every state satisfies
\* the invariant: blocks and code are well formed and as deep as the parser and
\* returnify let them be, the sample statements carry the numbers samplify gave
\* them, and each transformation of transform_game_inst has done its part and
\* undone none of the earlier ones.
THEOREM Invariance == Spec => []IInv
<1>1. Init => IInv
  BY InitHolds
<1>2. IInv /\ [Next]_vars => IInv'
  BY Inductive
<1> QED
  BY <1>1, <1>2, PTL DEF Spec

\* Whatever code the parser accepts and resolveoracles and returnify let pass,
\* smt_codeblock_nonsplit panics on no more than two things that were in the text:
\* a loop, and an invocation that leaves its arguments out.  transform_game_inst
\* hands it a block with an end on every path, a target and, where the text has
\* them, the arguments for every invocation, a number for every sample and no
\* unwrap inside an expression.
THEOREM WriterNeverPanicsHolds == Spec => []WriterNeverPanics
<1>1. IInv => WriterNeverPanics
  <2> SUFFICES ASSUME IInv, phase = "ready", Supported(source) PROVE ~Unwritable[code]
    BY DEF WriterNeverPanics
  <2>1. Fits(source)
    <3>1. \A s \in StatementsOf[source] : s.op # "for" /\ InFull(s)
      BY DEF Supported
    <3>2. \A s : View(s).op = s.op /\ (InFull(View(s)) <=> InFull(s))
      BY InFullView DEF View
    <3> QED
      BY <3>1, <3>2 DEF Fits, Views
  <2> QED
    BY <2>1 DEF IInv, StepsDone
<1> QED
  BY <1>1, Invariance, PTL

\* Through all transformations a sample statement and its copies carry the number
\* of their place in the text, and no two places share one.
THEOREM OneCounterPerSampleHolds == Spec => []OneCounterPerSample
<1>1. IInv => OneCounterPerSample
  <2> SUFFICES ASSUME IInv, phase \in Transformed PROVE OneCounterPerSample
    BY DEF OneCounterPerSample
  <2> DEFINE l == SamplesOf[source]
  <2>1. l \in Seq(AnyStmt)
    BY ParsedIsCode, SamplesOfIs DEF IInv, CodeTyped
  <2>2. Len(samples) = Len(l) /\ \A v \in Views(code) : v.op = "sample" => From(l, 0, v)
    BY DEF IInv, SamplesCounted
  <2>3. Places = [i \in DOMAIN l |-> l[i].span]
    BY DEF Places
  <2> HIDE DEF l
  <2>4. DOMAIN Places = DOMAIN l /\ \A i \in DOMAIN l : Places[i] = l[i].span
    BY <2>3
  <2>5. Len(Places) = Len(l)
    <3>1. DOMAIN Places = 1 .. Len(l) /\ Len(l) \in Nat
      BY <2>1, <2>4, LenProperties
    <3>2. Places \in Seq({Places[i] : i \in DOMAIN Places})
      <4>1. \A i \in DOMAIN l : Places[i] \in {Places[i_1] : i_1 \in DOMAIN Places}
        BY <2>4
      <4> QED
        BY <2>1, <2>3, <2>4, <4>1, SeqOfFunction
    <3> QED
      BY <3>1, <3>2, LenProperties
  <2>6. ASSUME NEW s \in StatementsOf[code], s.op = "sample"
        PROVE  s.id + 1 \in DOMAIN Places /\ Places[s.id + 1] = s.span
    <3>1. View(s) \in Views(code) /\ View(s).op = "sample" /\ View(s).id = s.id /\ View(s).span = s.span
      BY <2>6 DEF View, Views
    <3>2. PICK j \in DOMAIN l : s.id = 0 + j - 1 /\ s.span = l[j].span
      BY <2>2, <3>1 DEF From
    <3>3. s.id + 1 = j
      <4>1. j \in Nat
        BY <2>1
      <4>2. \A m \in Nat : (0 + m - 1) + 1 = m
        OBVIOUS
      <4> QED
        BY <3>2, <4>1, <4>2
    <3> QED
      BY <2>4, <3>2, <3>3
  <2> QED
    BY <2>2, <2>5, <2>6 DEF OneCounterPerSample
<1> QED
  BY <1>1, Invariance, PTL

-----------------------------------------------------------------------------
(* The flow stays, and so the term is closed.                                *)

\* The code assigns on every path what its text does and reads no more; and only
\* code that can be written is.
FlowStays ==
  /\ phase \in Transformed \cup {"written"} => code \in Code /\ FlowKept(source, code)
  /\ phase = "written" => ~Unwritable[code]

Early == {"parse", "parsed", "error", "panic"}

\* A step of the parser writes nothing.
LEMMA AddingIsEarly ==
  /\ \A s, types : AddStatement(s, types) /\ phase = "parse" => phase' \in Early
  /\ \A why \in {"error", "panic"} : Stop(why) => phase' \in Early
<1>1. \A why \in {"error", "panic"} : Stop(why) => phase' \in Early
  BY DEF Stop, Early
<1>2. ASSUME NEW s, NEW types, AddStatement(s, types), phase = "parse" PROVE phase' \in Early
  <2> DEFINE scopes == UNION {DeclareAll(scope, s.to, ts) : ts \in types}
             t == [s EXCEPT !.span = size + 1]
  <2>1. IF scopes = {} THEN Stop("error")
        ELSE /\ scope' \in scopes
             /\ frames' = Added(frames, t)
             /\ size' = size + 1
             /\ UNCHANGED <<phase, returns, source, code, samples>>
    BY <1>2 DEF AddStatement
  <2> HIDE DEF scopes, t
  <2> QED
    BY <1>1, <1>2, <2>1 DEF Early
<1> QED
  BY <1>1, <1>2

\* Reading statements, and opening and closing blocks, is early.
LEMMA ReadingIsEarly ==
  ASSUME \/ ReadAssign \/ ReadTableAssign \/ ReadSample \/ ReadTableSample \/ ReadInvoke \/ ReadParse
         \/ ReadReturn \/ ReadAbort \/ ReadAssert
  PROVE  phase' \in Early
<1>1. /\ ReadAssign => Room
      /\ ReadTableAssign => Room
      /\ ReadSample \/ ReadTableSample => Room
      /\ ReadInvoke => Room
      /\ ReadParse => Room
      /\ ReadReturn \/ ReadAbort => Room
      /\ ReadAssert => Room
  <2>1. ReadAssign => Room
    BY DEF ReadAssign
  <2>2. ReadTableAssign => Room
    BY DEF ReadTableAssign
  <2>3. ReadSample \/ ReadTableSample => Room
    BY DEF ReadSample, ReadTableSample
  <2>4. ReadInvoke => Room
    BY DEF ReadInvoke
  <2>5. ReadReturn \/ ReadAbort => Room
    BY DEF ReadReturn, ReadAbort
  <2>6. ReadParse => Room
    BY DEF ReadParse
  <2>7. ReadAssert => Room
    BY DEF ReadAssert
  <2> QED
    BY <2>1, <2>2, <2>3, <2>4, <2>5, <2>6, <2>7
<1>2. phase = "parse"
  BY <1>1 DEF Room
<1>3. \A s, types : AddStatement(s, types) => phase' \in Early
  BY <1>2, AddingIsEarly
<1>4. Stop("panic") => phase' \in Early
  BY AddingIsEarly
<1>5. CASE ReadAssign
  BY <1>3, <1>5, Zenon DEF ReadAssign
<1>6. CASE ReadTableAssign
  BY <1>3, <1>6, Zenon DEF ReadTableAssign
<1>7. CASE ReadSample
  BY <1>3, <1>7, Zenon DEF ReadSample
<1>8. CASE ReadTableSample
  BY <1>3, <1>8, Zenon DEF ReadTableSample
<1>9. CASE ReadInvoke
  BY <1>3, <1>9, Zenon DEF ReadInvoke
<1>10. CASE ReadParse
  BY <1>3, <1>4, <1>10, Zenon DEF ReadParse
<1>11. CASE ReadReturn
  BY <1>3, <1>11, Zenon DEF ReadReturn
<1>12. CASE ReadAbort
  BY <1>3, <1>12, Zenon DEF ReadAbort
<1>13. CASE ReadAssert
  BY <1>3, <1>13, Zenon DEF ReadAssert
<1> QED
  BY <1>5, <1>6, <1>7, <1>8, <1>9, <1>10, <1>11, <1>12, <1>13

LEMMA BlocksAreEarly ==
  ASSUME OpenIf \/ OpenElse \/ CloseIf \/ OpenFor \/ CloseFor \/ EndOracle
  PROVE  phase' \in Early
<1>1. CASE OpenIf
  <2>1. phase = "parse"
    BY <1>1 DEF OpenIf, Nestable, Room
  <2>2. Stop("error") \/ UNCHANGED phase
    BY <1>1 DEF OpenIf
  <2> QED
    BY <2>1, <2>2, AddingIsEarly DEF Early
<1>2. CASE OpenElse
  BY <1>2 DEF OpenElse, Early
<1>3. CASE CloseIf
  BY <1>3 DEF CloseIf, Early
<1>4. CASE OpenFor
  <2>1. phase = "parse"
    BY <1>4 DEF OpenFor, Nestable, Room
  <2>2. Stop("error") \/ Stop("panic") \/ UNCHANGED phase
    BY <1>4 DEF OpenFor
  <2> QED
    BY <2>1, <2>2, AddingIsEarly DEF Early
<1>5. CASE CloseFor
  BY <1>5 DEF CloseFor, Early
<1>6. CASE EndOracle
  BY <1>6 DEF EndOracle, Early
<1> QED
  BY <1>1, <1>2, <1>3, <1>4, <1>5, <1>6

LEMMA EarlyStays == ASSUME phase' \in Early PROVE FlowStays'
BY DEF Early, FlowStays, Transformed

\* One more transformation that keeps the flow.
LEMMA FlowOn ==
  ASSUME source \in Code, code \in Code, FlowKept(source, code), NEW c \in Code, FlowKept(code, c),
         NEW to \in Transformed, phase' = to, code' = c, source' = source
  PROVE  FlowStays'
<1>1. FlowKept(source, c)
  BY KeptChain
<1>2. code' \in Code /\ FlowKept(source, code)' /\ phase' # "written"
  <2>1. FlowKept(source', code') 
    BY <1>1
  <2>2. phase' # "written"
    BY DEF Transformed
  <2> QED
    BY <2>1, <2>2 DEF FlowKept
<1> QED
  BY <1>2 DEF FlowStays

\* What a step of transform_game_inst finds and leaves.
LEMMA TransformingStays ==
  ASSUME IInv, IInv', FlowStays,
         SamplifyCode \/ UnwrapifyCode \/ ResolveCode \/ ReturnifyCode \/ TreeifyCode \/ InitTablesCode
  PROVE  FlowStays'
<1>1. source \in Code /\ (phase \in Transformed => code \in Code /\ FlowKept(source, code))
  BY ParsedIsCode DEF IInv, CodeTyped, FlowStays
<1>2. \A c \in Parsed : c \in Code
  BY ParsedIsCode
<1>3. phase' \in Transformed => code' \in Code
  BY <1>2 DEF IInv, CodeTyped, Transformed
<1>4. Stop("panic") => FlowStays'
  BY AddingIsEarly, EarlyStays
<1>5. CASE SamplifyCode
  <2> DEFINE c == [ctr |-> 0, positions |-> <<>>]
             d == Samplify[<<source, c>>].code
  <2>1. phase' = "samplified" /\ code' = d /\ source' = source
    BY <1>5 DEF SamplifyCode, Samplified
  <2>2. c \in Counters
    <3>1. <<>> \in Seq(Idents)
      OBVIOUS
    <3> QED
      BY <3>1 DEF Counters
  <2> HIDE DEF c
  <2>3. FlowKept(source, d)
    BY <1>1, <2>2, SamplifyFlow
  <2> HIDE DEF d
  <2>4. "samplified" \in Transformed
    BY DEF Transformed
  <2> QED
    BY <1>3, <2>1, <2>3, <2>4 DEF FlowStays, FlowKept, Transformed
<1>6. CASE UnwrapifyCode
  <2> DEFINE d == Unwrapify[<<code, 1>>].code
  <2>1. phase = "samplified" /\ phase' = "unwrapified" /\ code' = d /\ source' = source
    BY <1>6, StepIs DEF UnwrapifyCode
  <2>2. phase \in Transformed /\ "unwrapified" \in Transformed
    BY <2>1 DEF Transformed
  <2>3. FlowKept(code, d)
    BY <1>1, <2>2, UnwrapifyFlow
  <2> HIDE DEF d
  <2> QED
    BY <1>1, <1>3, <2>1, <2>2, <2>3, FlowOn
<1>7. CASE ResolveCode
  <2> DEFINE r == Resolve[code]
             d == r.code
  <2>1. Stop("panic") \/ Step("unwrapified", "resolved", d)
    BY <1>7 DEF ResolveCode
  <2>2. ASSUME Step("unwrapified", "resolved", d) PROVE FlowStays'
    <3>1. phase = "unwrapified" /\ phase' = "resolved" /\ code' = d /\ source' = source
      BY <2>2, StepIs
    <3>2. phase \in Transformed /\ "resolved" \in Transformed
      BY <3>1 DEF Transformed
    <3>3. FlowKept(code, d)
      BY <1>1, <3>2, ResolveFlow
    <3> HIDE DEF d
    <3> QED
      BY <1>1, <1>3, <3>1, <3>2, <3>3, FlowOn
  <2> QED
    BY <1>4, <2>1, <2>2
<1>8. CASE ReturnifyCode
  <2> DEFINE ok == returns = Empty
             r == Returnify[<<code, ok>>]
             d == r.code
  <2>1. Stop("panic") \/ Step("resolved", "returnified", d)
    BY <1>8 DEF ReturnifyCode
  <2>2. ASSUME Step("resolved", "returnified", d) PROVE FlowStays'
    <3>1. phase = "resolved" /\ phase' = "returnified" /\ code' = d /\ source' = source
      BY <2>2, StepIs
    <3>2. phase \in Transformed /\ "returnified" \in Transformed
      BY <3>1 DEF Transformed
    <3>3. EndFlow(code, d)
      <4>1. ok \in BOOLEAN
        OBVIOUS
      <4> HIDE DEF ok
      <4> QED
        BY <1>1, <3>2, <4>1, ReturnifyFlow
    <3> HIDE DEF d
    <3>4. d \in Code
      BY <1>3, <3>1, <3>2
    <3> QED
      BY <1>1, <3>1, <3>2, <3>3, <3>4, FlowOn DEF EndFlow
  <2> QED
    BY <1>4, <2>1, <2>2
<1>9. CASE TreeifyCode
  <2> DEFINE d == Treeify[<<code, Len(code)>>]
  <2>1. phase = "returnified" /\ phase' = "treeified" /\ code' = d /\ source' = source /\ d \in Code
    BY <1>9, StepIs DEF TreeifyCode
  <2>2. phase \in Transformed /\ "treeified" \in Transformed
    BY <2>1 DEF Transformed
  <2>3. EndFlow(code, d)
    <3>1. Len(code) \in Nat
      BY <1>1, <2>2, LenProperties DEF Code
    <3> QED
      BY <1>1, <2>2, <3>1, TreeifyFlow
  <2> HIDE DEF d
  <2> QED
    BY <1>1, <2>1, <2>2, <2>3, FlowOn DEF EndFlow
<1>10. CASE InitTablesCode
  <2> DEFINE none == {}
             d == InitTables[<<code, none>>]
  <2>1. phase = "treeified" /\ phase' = "ready" /\ code' = d /\ source' = source
    BY <1>10, StepIs DEF InitTablesCode
  <2>2. phase \in Transformed /\ "ready" \in Transformed /\ none \in SUBSET Idents
    BY <2>1 DEF Transformed
  <2> HIDE DEF none
  <2>3. FlowKept(code, d)
    BY <1>1, <2>2, InitTablesFlow
  <2> HIDE DEF d
  <2> QED
    BY <1>1, <1>3, <2>1, <2>2, <2>3, FlowOn
<1> QED
  BY <1>5, <1>6, <1>7, <1>8, <1>9, <1>10

\* WriteCode writes only what can be written.
LEMMA WritingStays == ASSUME FlowStays, WriteCode PROVE FlowStays'
<1>1. phase = "ready" /\ Stop(IF Unwritable[code] THEN "panic" ELSE "written")
  BY DEF WriteCode
<1>2. /\ phase' = IF Unwritable[code] THEN "panic" ELSE "written"
      /\ source' = source /\ code' = code
  BY <1>1 DEF Stop
<1>3. code \in Code /\ FlowKept(source, code)
  BY <1>1 DEF FlowStays, Transformed
<1>4. CASE Unwritable[code]
  BY <1>2, <1>4, EarlyStays DEF Early
<1>5. CASE ~Unwritable[code]
  BY <1>2, <1>3, <1>5 DEF FlowStays, FlowKept
<1> QED
  BY <1>4, <1>5

\* The flow stays as good as the text's through all transformations.
THEOREM FlowInvariance == Spec => []FlowStays
<1>1. Init => FlowStays
  BY DEF Init, FlowStays, Transformed
<1>2. IInv /\ IInv' /\ FlowStays /\ [Next]_vars => FlowStays'
  <2> SUFFICES ASSUME IInv, IInv', FlowStays, [Next]_vars PROVE FlowStays'
    OBVIOUS
  <2>1. CASE \/ ReadAssign \/ ReadTableAssign \/ ReadSample \/ ReadTableSample \/ ReadInvoke \/ ReadParse
             \/ ReadReturn \/ ReadAbort \/ ReadAssert
    BY <2>1, ReadingIsEarly, EarlyStays
  <2>2. CASE OpenIf \/ OpenElse \/ CloseIf \/ OpenFor \/ CloseFor \/ EndOracle
    BY <2>2, BlocksAreEarly, EarlyStays
  <2>3. CASE SamplifyCode \/ UnwrapifyCode \/ ResolveCode \/ ReturnifyCode \/ TreeifyCode \/ InitTablesCode
    BY <2>3, TransformingStays
  <2>4. CASE WriteCode
    BY <2>4, WritingStays
  <2>5. CASE UNCHANGED vars
    <3>1. phase' = phase /\ source' = source /\ code' = code
      BY <2>5 DEF vars
    <3> QED
      BY <3>1 DEF FlowStays, FlowKept
  <2> QED
    BY <2>1, <2>2, <2>3, <2>4, <2>5 DEF Next
<1> QED
  BY <1>1, <1>2, Invariance, PTL DEF Spec

\* Of a text that reads only what it has assigned, the term has no free identifier
\* but the game state and the parameters.
THEOREM TermIsClosedHolds == Spec => []TermIsClosed
<1>1. FlowStays => TermIsClosed
  <2> SUFFICES ASSUME FlowStays, phase = "written", Define(code) \in Terms, Flow[<<source, AtStart>>].ok
               PROVE  Free[Define(code)] \subseteq {GameState} \cup (DOMAIN Params \ State)
    BY DEF TermIsClosed
  <2>1. code \in Code /\ FlowKept(source, code) /\ ~Unwritable[code]
    BY DEF FlowStays
  <2>2. AtStart \in Flows
    BY TextAssumption DEF AtStart, Flows
  <2>3. Flow[<<code, AtStart>>].ok
    BY <2>1, <2>2, BetterOrder DEF FlowKept, Better
  <2> QED
    BY <2>1, <2>2, <2>3, DefineClosed DEF Good, Within
<1> QED
  BY <1>1, FlowInvariance, PTL
=============================================================================
