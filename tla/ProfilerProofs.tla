---------------------------- MODULE ProfilerProofs ----------------------------
(***************************************************************************)
(* Theorems about Profiler, for any profiles, entry points and bounds.     *)
(***************************************************************************)
EXTENDS Profiler, FiniteSetTheorems, TLAPS

-----------------------------------------------------------------------------
(***************************************************************************)
(* Finite sums.                                                            *)
(***************************************************************************)

(* A set of finite subsets of S has a smallest one.                        *)
LEMMA LeastSubset ==
    ASSUME NEW S, IsFiniteSet(S), NEW T, T \subseteq SUBSET S, T # {}
    PROVE  \E x \in T : \A y \in T : ~(y \subseteq x /\ y # x)
<1> DEFINE R == StrictSubsetOrdering(S)
           F == FiniteSubsetsOf(S)
<1>1. IsWellFoundedOn(R, F)
  BY FS_StrictSubsetOrderingWellFounded
<1>2. T \subseteq F
  BY FS_FiniteSubsetsOfFinite
<1>3. PICK x \in T : \A y \in T : <<y, x>> \notin R
  <2> HIDE DEF R, F
  <2>1. QED BY <1>1, <1>2, WFMin
<1>4. ASSUME NEW y \in T, y \subseteq x, y # x PROVE FALSE
  <2>1. <<y, x>> \in R
    BY <1>4 DEF StrictSubsetOrdering
  <2>2. QED BY <1>3, <2>1
<1>5. QED BY <1>4

(* g gives every subset of S the sum of f over it.                         *)
Sums(f, S, g) ==
    /\ g \in [SUBSET S -> Int] /\ g[{}] = 0
    /\ \A s \in SUBSET S : \A x \in s : g[s] = f[x] + g[s \ {x}]

LEMMA SetInduction ==
    ASSUME NEW S, IsFiniteSet(S), NEW T, T \subseteq SUBSET S, {} \in T,
           \A t \in T : \A x \in S \ t : t \cup {x} \in T
    PROVE  S \in T
<1> SUFFICES ASSUME S \notin T PROVE FALSE
  OBVIOUS
<1> DEFINE U == {u \in SUBSET S : S \ u \in T}
<1>1. U \subseteq SUBSET S /\ U # {}
  <2>1. S \ S = {}
    OBVIOUS
  <2>2. S \in U
    BY <2>1
  <2>3. QED BY <2>2
<1>2. PICK u \in U : \A y \in U : ~(y \subseteq u /\ y # u)
  <2> HIDE DEF U
  <2>1. QED BY <1>1, LeastSubset
<1>3. u # {}
  <2>1. S \ {} = S
    OBVIOUS
  <2>2. QED BY <1>2, <2>1
<1>4. PICK x \in u : TRUE
  BY <1>3
<1>5. x \in S \ (S \ u) /\ S \ u \in T
  BY <1>2, <1>4
<1>6. (S \ u) \cup {x} \in T
  BY <1>5
<1>7. (S \ u) \cup {x} = S \ (u \ {x})
  BY <1>5
<1>8. u \ {x} \in U
  BY <1>2, <1>6, <1>7
<1>9. QED BY <1>2, <1>4, <1>8

LEMMA SumsExist ==
    ASSUME NEW S, IsFiniteSet(S), NEW f, \A x \in S : f[x] \in Int
    PROVE  \E g : Sums(f, S, g)
<1> DEFINE T == {t \in SUBSET S : \E g : Sums(f, t, g)}
<1>1. {} \in T
  <2> DEFINE g == [s \in SUBSET {} |-> 0]
  <2>1. SUBSET {} = {{}} /\ g \in [SUBSET {} -> Int] /\ g[{}] = 0
    OBVIOUS
  <2>2. \A s \in SUBSET {} : s = {}
    OBVIOUS
  <2>3. Sums(f, {}, g)
    BY <2>1, <2>2 DEF Sums
  <2> HIDE DEF g
  <2>4. {} \in SUBSET S
    OBVIOUS
  <2>5. QED BY <2>3, <2>4
<1>2. ASSUME NEW t \in T, NEW x \in S \ t
      PROVE  t \cup {x} \in T
  <2>1. PICK g : Sums(f, t, g)
    OBVIOUS
  <2> DEFINE h == [s \in SUBSET (t \cup {x}) |-> IF x \in s THEN f[x] + g[s \ {x}] ELSE g[s]]
  <2>2. \A s \in SUBSET (t \cup {x}) : s \ {x} \in SUBSET t /\ (x \notin s => s \in SUBSET t)
    OBVIOUS
  <2>3. f[x] \in Int /\ \A s \in SUBSET t : g[s] \in Int
    BY <2>1 DEF Sums
  <2>4. \A s \in SUBSET (t \cup {x}) : h[s] \in Int
    <3>1. ASSUME NEW s \in SUBSET (t \cup {x}) PROVE h[s] \in Int
      <4>1. h[s] = IF x \in s THEN f[x] + g[s \ {x}] ELSE g[s]
        OBVIOUS
      <4> HIDE DEF h
      <4>2. CASE x \in s
        <5>1. g[s \ {x}] \in Int
          BY <2>2, <2>3
        <5>2. QED BY <4>1, <4>2, <5>1, <2>3
      <4>3. CASE x \notin s
        BY <4>1, <4>3, <2>2, <2>3
      <4>4. QED BY <4>2, <4>3
    <3>2. QED BY <3>1
  <2>5. h \in [SUBSET (t \cup {x}) -> Int]
    BY <2>4
  <2>6. h[{}] = 0
    <3>1. {} \in SUBSET (t \cup {x}) /\ x \notin {} /\ h[{}] = g[{}]
      OBVIOUS
    <3>2. QED BY <3>1, <2>1 DEF Sums
  <2>7. ASSUME NEW s \in SUBSET (t \cup {x}), NEW y \in s
        PROVE  h[s] = f[y] + h[s \ {y}]
    <3>1. s \ {y} \in SUBSET (t \cup {x}) /\ x \notin s \ {x}
      OBVIOUS
    <3>2. CASE y = x
      <4>1. h[s] = f[x] + g[s \ {x}] /\ h[s \ {x}] = g[s \ {x}]
        BY <3>1, <3>2
      <4>2. QED BY <3>2, <4>1
    <3>3. CASE y # x /\ x \in s
      <4>1. h[s] = f[x] + g[s \ {x}] /\ h[s \ {y}] = f[x] + g[(s \ {y}) \ {x}]
        BY <3>1, <3>3
      <4> HIDE DEF h
      <4>2. (s \ {y}) \ {x} = (s \ {x}) \ {y} /\ s \ {x} \in SUBSET t /\ y \in s \ {x}
        BY <3>3, <2>2
      <4>3. g[s \ {x}] = f[y] + g[(s \ {x}) \ {y}]
        BY <2>1, <4>2 DEF Sums
      <4>4. f[y] \in Int /\ g[(s \ {x}) \ {y}] \in Int /\ f[x] \in Int
        <5>1. y \in S /\ (s \ {x}) \ {y} \in SUBSET t
          BY <4>2
        <5>2. QED BY <5>1, <2>3
      <4>5. h[s \ {y}] = f[x] + g[(s \ {x}) \ {y}]
        BY <4>1, <4>2
      <4>6. h[s] = f[x] + (f[y] + g[(s \ {x}) \ {y}])
        BY <4>1, <4>3
      <4> HIDE DEF h
      <4>7. QED BY <4>4, <4>5, <4>6
    <3>4. CASE x \notin s
      <4>1. h[s] = g[s] /\ h[s \ {y}] = g[s \ {y}]
        BY <3>1, <3>4
      <4>2. QED BY <2>1, <2>2, <3>4, <4>1 DEF Sums
    <3>5. QED BY <3>2, <3>3, <3>4
  <2>8. Sums(f, t \cup {x}, h)
    <3> HIDE DEF h
    <3>1. QED BY <2>5, <2>6, <2>7 DEF Sums
  <2> HIDE DEF h
  <2>9. t \cup {x} \in SUBSET S
    OBVIOUS
  <2>10. QED BY <2>8, <2>9
<1>3. T \subseteq SUBSET S
  OBVIOUS
<1>4. S \in T
  <2> HIDE DEF T
  <2>1. QED BY <1>1, <1>2, <1>3, SetInduction
<1>5. QED BY <1>4

(* The sum of the library is the sum.                                      *)
LEMMA SumIs ==
    ASSUME NEW S, IsFiniteSet(S), NEW f, NEW g, Sums(f, S, g)
    PROVE  SumFunctionOnSet(f, S) = g[S]
<1> DEFINE next(i, s) == IF s = {} THEN 0
                         ELSE f[CHOOSE x \in s : TRUE] + i[s \ {CHOOSE x \in s : TRUE}]
<1>1. g = [s \in SUBSET S |-> next(g, s)]
  <2>1. ASSUME NEW s \in SUBSET S PROVE g[s] = next(g, s)
    <3>1. CASE s = {}
      BY <3>1 DEF Sums
    <3>2. CASE s # {}
      <4>1. (CHOOSE x \in s : TRUE) \in s
        BY <3>2
      <4>2. QED BY <3>2, <4>1 DEF Sums
    <3>3. QED BY <3>1, <3>2
  <2> HIDE DEF next
  <2>2. QED BY <2>1 DEF Sums
<1> DEFINE iter[s \in SUBSET S] == IF s = {} THEN 0
                                  ELSE LET x == CHOOSE x \in s : TRUE
                                       IN  f[x] + iter[s \ {x}]
<1>2. SumFunctionOnSet(f, S) = iter[S]
  BY DEF SumFunctionOnSet, FoldFunctionOnSet, MapThenFoldSet
<1>3. iter = [s \in SUBSET S |-> next(iter, s)]
  <2>1. iter = CHOOSE i : i = [s \in SUBSET S |-> next(i, s)]
    OBVIOUS
  <2> HIDE DEF next, iter
  <2>2. QED BY <1>1, <2>1
<1> HIDE DEF iter
<1>4. ASSUME NEW u \in SUBSET S, iter[u] # g[u] PROVE FALSE
  <2> DEFINE B == {s \in SUBSET S : iter[s] # g[s]}
  <2>1. B \subseteq SUBSET S /\ B # {}
    BY <1>4
  <2>2. PICK s \in B : \A y \in B : ~(y \subseteq s /\ y # s)
    <3> HIDE DEF B
    <3>1. QED BY <2>1, LeastSubset
  <2>3. s \in SUBSET S /\ iter[s] = next(iter, s) /\ g[s] = next(g, s)
    <3> HIDE DEF next
    <3>1. QED BY <1>1, <1>3, <2>2
  <2>4. s # {}
    BY <2>2, <2>3
  <2>5. PICK x : x = CHOOSE y \in s : TRUE
    OBVIOUS
  <2>6. x \in s /\ s \ {x} \in SUBSET S /\ s \ {x} \subseteq s /\ s \ {x} # s
    BY <2>3, <2>4, <2>5
  <2>7. iter[s \ {x}] = g[s \ {x}]
    BY <2>2, <2>6
  <2>8. iter[s] = f[x] + iter[s \ {x}] /\ g[s] = f[x] + g[s \ {x}]
    BY <2>3, <2>4, <2>5
  <2>9. QED BY <2>2, <2>7, <2>8
<1>5. QED BY <1>2, <1>4

LEMMA SumsSubset ==
    ASSUME NEW S, NEW f, NEW g, Sums(f, S, g), NEW R \in SUBSET S
    PROVE  \E h : Sums(f, R, h) /\ h[R] = g[R]
<1> DEFINE h == [s \in SUBSET R |-> g[s]]
<1>1. \A s \in SUBSET R : s \in SUBSET S /\ h[s] = g[s]
  OBVIOUS
<1>2. {} \in SUBSET R /\ R \in SUBSET R
  OBVIOUS
<1>3. h \in [SUBSET R -> Int]
  BY DEF Sums
<1> HIDE DEF h
<1>4. \A s \in SUBSET R : \A x \in s : h[s] = f[x] + h[s \ {x}]
  BY <1>1 DEF Sums
<1>5. QED BY <1>1, <1>2, <1>3, <1>4 DEF Sums

LEMMA SumEmpty == ASSUME NEW f PROVE SumFunctionOnSet(f, {}) = 0
<1>1. IsFiniteSet({}) /\ \A x \in {} : f[x] \in Int
  BY FS_EmptySet
<1>2. PICK g : Sums(f, {}, g)
  BY <1>1, SumsExist
<1>3. QED BY <1>1, <1>2, SumIs DEF Sums

LEMMA SumInt ==
    ASSUME NEW S, IsFiniteSet(S), NEW f, \A x \in S : f[x] \in Int
    PROVE  SumFunctionOnSet(f, S) \in Int
<1>1. PICK g : Sums(f, S, g)
  BY SumsExist
<1>2. S \in SUBSET S
  OBVIOUS
<1>3. g[S] \in Int
  BY <1>1, <1>2 DEF Sums
<1>4. QED BY <1>1, <1>3, SumIs

LEMMA SumRemove ==
    ASSUME NEW S, IsFiniteSet(S), NEW f, \A y \in S : f[y] \in Int, NEW x \in S
    PROVE  SumFunctionOnSet(f, S) = f[x] + SumFunctionOnSet(f, S \ {x})
<1>1. PICK g : Sums(f, S, g)
  BY SumsExist
<1>2. S \in SUBSET S /\ S \ {x} \in SUBSET S
  OBVIOUS
<1>3. PICK h : Sums(f, S \ {x}, h) /\ h[S \ {x}] = g[S \ {x}]
  BY <1>1, <1>2, SumsSubset
<1>4. IsFiniteSet(S \ {x})
  BY FS_RemoveElement
<1>5. SumFunctionOnSet(f, S \ {x}) = g[S \ {x}]
  BY <1>3, <1>4, SumIs
<1>6. SumFunctionOnSet(f, S) = g[S]
  BY <1>1, SumIs
<1>7. g[S] = f[x] + g[S \ {x}]
  BY <1>1, <1>2 DEF Sums
<1>8. QED BY <1>5, <1>6, <1>7

LEMMA SumSame ==
    ASSUME NEW S, IsFiniteSet(S), NEW f, NEW g,
           \A y \in S : f[y] \in Int /\ f[y] = g[y]
    PROVE  SumFunctionOnSet(f, S) = SumFunctionOnSet(g, S)
<1>1. PICK h : Sums(f, S, h)
  BY SumsExist
<1>2. \A s \in SUBSET S : \A x \in s : f[x] = g[x]
  OBVIOUS
<1>3. Sums(g, S, h)
  BY <1>1, <1>2 DEF Sums
<1>4. QED BY <1>1, <1>3, SumIs

(* One term changes.                                                       *)
LEMMA SumChange ==
    ASSUME NEW S, IsFiniteSet(S), NEW f, NEW g, NEW x \in S,
           \A y \in S : f[y] \in Int /\ g[y] \in Int /\ (y # x => g[y] = f[y])
    PROVE  SumFunctionOnSet(g, S) = SumFunctionOnSet(f, S) + (g[x] - f[x])
<1>1. IsFiniteSet(S \ {x})
  BY FS_RemoveElement
<1>2. SumFunctionOnSet(f, S \ {x}) = SumFunctionOnSet(g, S \ {x})
  <2>1. \A y \in S \ {x} : f[y] \in Int /\ f[y] = g[y]
    OBVIOUS
  <2>2. QED BY <1>1, <2>1, SumSame
<1>3. SumFunctionOnSet(f, S) = f[x] + SumFunctionOnSet(f, S \ {x})
  BY SumRemove
<1>4. SumFunctionOnSet(g, S) = g[x] + SumFunctionOnSet(g, S \ {x})
  BY SumRemove
<1>5. SumFunctionOnSet(f, S \ {x}) \in Int
  BY <1>1, SumInt
<1>6. f[x] \in Int /\ g[x] \in Int
  OBVIOUS
<1>7. QED BY <1>2, <1>3, <1>4, <1>5, <1>6

(* A term is added.                                                        *)
LEMMA SumAdd ==
    ASSUME NEW S, IsFiniteSet(S), NEW f, NEW g, NEW x, x \notin S, g[x] \in Int,
           \A y \in S : f[y] \in Int /\ g[y] = f[y]
    PROVE  /\ SumFunctionOnSet(g, S \cup {x}) = SumFunctionOnSet(f, S) + g[x]
           /\ IsFiniteSet(S \cup {x})
<1>1. IsFiniteSet(S \cup {x}) /\ (S \cup {x}) \ {x} = S
  BY FS_AddElement
<1>2. \A y \in S \cup {x} : g[y] \in Int
  OBVIOUS
<1>3. SumFunctionOnSet(g, S \cup {x}) = g[x] + SumFunctionOnSet(g, (S \cup {x}) \ {x})
  <2>1. x \in S \cup {x}
    OBVIOUS
  <2>2. QED BY <1>1, <1>2, <2>1, SumRemove
<1>4. SumFunctionOnSet(f, S) = SumFunctionOnSet(g, S)
  BY SumSame
<1>5. SumFunctionOnSet(f, S) \in Int
  BY SumInt
<1>6. SumFunctionOnSet(g, S \cup {x}) = g[x] + SumFunctionOnSet(g, S)
  BY <1>1, <1>3
<1>7. SumFunctionOnSet(g, S \cup {x}) = SumFunctionOnSet(f, S) + g[x]
  BY <1>4, <1>5, <1>6
<1>8. QED BY <1>1, <1>7

-----------------------------------------------------------------------------
(***************************************************************************)
(* Induction on a number, and the nearest frame of an entry point.         *)
(***************************************************************************)
LEMMA Induction ==
    ASSUME NEW n \in Nat, NEW T, 0 \in T, \A k \in 0..n - 1 : k \in T => k + 1 \in T
    PROVE  n \in T
<1> SUFFICES ASSUME n \notin T PROVE FALSE
  OBVIOUS
<1> DEFINE B == {0..k : k \in (0..n) \ T}
<1>1. B \subseteq SUBSET (0..n) /\ B # {}
  OBVIOUS
<1>2. IsFiniteSet(0..n)
  BY FS_Interval
<1>3. PICK x \in B : \A y \in B : ~(y \subseteq x /\ y # x)
  <2>1. PICK N : N = 0..n
    OBVIOUS
  <2>2. B \subseteq SUBSET N /\ B # {} /\ IsFiniteSet(N)
    BY <1>1, <1>2, <2>1
  <2> HIDE DEF B
  <2>3. QED BY <2>2, LeastSubset
<1>4. PICK k \in (0..n) \ T : x = 0..k
  BY <1>3
<1>5. k # 0 /\ k - 1 \in 0..n - 1 /\ k = (k - 1) + 1
  BY <1>4
<1>6. k - 1 \notin T
  BY <1>4, <1>5
<1>7. 0..k - 1 \in B
  BY <1>5, <1>6
<1>8. 0..k - 1 \subseteq 0..k /\ k \in 0..k /\ k \notin 0..k - 1
  BY <1>5
<1>9. QED BY <1>3, <1>4, <1>7, <1>8

LEMMA MaxOf ==
    ASSUME NEW n \in Nat, NEW T, T \subseteq 0..n, T # {}
    PROVE  Max(T) \in T /\ \A y \in T : Max(T) >= y
<1>1. \E x \in T : \A y \in T : x >= y
  <2> DEFINE C == {k \in 0..n : T \cap (0..k) = {} \/ \E x \in T \cap (0..k) : \A y \in T \cap (0..k) : x >= y}
  <2>1. 0 \in C
    <3>1. CASE 0 \in T
      BY <3>1
    <3>2. CASE 0 \notin T
      BY <3>2
    <3>3. QED BY <3>1, <3>2
  <2>2. ASSUME NEW k \in 0..n - 1, k \in C PROVE k + 1 \in C
    <3>1. CASE k + 1 \in T
      BY <2>2, <3>1
    <3>2. CASE k + 1 \notin T
      <4>1. T \cap (0..k + 1) = T \cap (0..k)
        BY <3>2
      <4>2. QED BY <2>2, <4>1
    <3>3. QED BY <3>1, <3>2
  <2>3. n \in C
    <3> HIDE DEF C
    <3>1. QED BY <2>1, <2>2, Induction
  <2>4. T \cap (0..n) = T
    OBVIOUS
  <2>5. QED BY <2>3, <2>4
<1>2. QED BY <1>1 DEF Max

LEMMA MinOf ==
    ASSUME NEW n \in Nat, NEW T, T \subseteq 0..n, T # {}
    PROVE  Min(T) \in T /\ \A y \in T : Min(T) <= y
<1>1. \E x \in T : \A y \in T : x <= y
  <2> DEFINE U == {n - x : x \in T}
  <2>1. U \subseteq 0..n /\ U # {}
    <3>1. \A x \in T : x \in Int /\ x >= 0 /\ x <= n
      OBVIOUS
    <3>2. \A x \in T : n - x \in 0..n
      BY <3>1
    <3>3. QED BY <3>2
  <2>2. Max(U) \in U /\ \A y \in U : Max(U) >= y
    <3> HIDE DEF U
    <3>1. QED BY <2>1, MaxOf
  <2>3. PICK x \in T : Max(U) = n - x
    BY <2>2
  <2>4. ASSUME NEW y \in T PROVE x <= y
    <3>1. n - y \in U
      OBVIOUS
    <3>2. n - x >= n - y
      BY <2>2, <2>3, <3>1
    <3>3. x \in Int /\ y \in Int
      OBVIOUS
    <3>4. QED BY <3>2, <3>3
  <2>5. QED BY <2>4
<1>2. QED BY <1>1 DEF Min

-----------------------------------------------------------------------------
(***************************************************************************)
(* Profiles.                                                               *)
(***************************************************************************)
Entry == [len : BOOLEAN, total : Int, self : Int, first : Int]

FrameType ==
    [ep : Points, begin : Int, self : Int, beginSelf : Int, correction : Int,
     inv : BOOLEAN, athrow : BOOLEAN, next : Int]

Profile ==
    [eps : UNION {[D -> Entry] : D \in SUBSET Points},
     arcs : UNION {[D -> Int] : D \in SUBSET (Points \X Points)},
     stack : UNION {[D -> FrameType] : D \in SUBSET Nat},
     sp : Nat, icount : Nat, frozen : BOOLEAN, enabled : BOOLEAN,
     inclusive : [Points -> Int], under : Nat, calls : Nat, program : Points]

(* The stack is never empty, its lowest frame is "Program", and every      *)
(* frame is of a registered entry point.                                   *)
Sound(P) ==
    /\ P \in Profile /\ IsFiniteSet(DOMAIN P.eps) /\ IsFiniteSet(DOMAIN P.arcs)
    /\ P.sp >= 1 /\ Frames(P) \subseteq DOMAIN P.stack
    /\ P.stack[0].ep = P.program
    /\ \A i \in Frames(P) : P.stack[i].ep \in DOMAIN P.eps

LEMMA ProfileTyped ==
    ASSUME NEW P \in Profile
    PROVE  /\ P.eps \in [DOMAIN P.eps -> Entry] /\ DOMAIN P.eps \subseteq Points
           /\ P.arcs \in [DOMAIN P.arcs -> Int] /\ DOMAIN P.arcs \subseteq Points \X Points
           /\ P.stack \in [DOMAIN P.stack -> FrameType] /\ DOMAIN P.stack \subseteq Nat
           /\ P.sp \in Nat /\ P.icount \in Nat /\ P.frozen \in BOOLEAN /\ P.enabled \in BOOLEAN
           /\ P.inclusive \in [Points -> Int] /\ P.under \in Nat /\ P.calls \in Nat
           /\ P.program \in Points
<1>1. PICK D \in SUBSET Points : P.eps \in [D -> Entry]
  BY DEF Profile
<1>2. PICK E \in SUBSET (Points \X Points) : P.arcs \in [E -> Int]
  BY DEF Profile
<1>3. PICK F \in SUBSET Nat : P.stack \in [F -> FrameType]
  BY DEF Profile
<1>4. /\ P.sp \in Nat /\ P.icount \in Nat /\ P.frozen \in BOOLEAN /\ P.enabled \in BOOLEAN
      /\ P.inclusive \in [Points -> Int] /\ P.under \in Nat /\ P.calls \in Nat
      /\ P.program \in Points
  BY DEF Profile
<1>5. DOMAIN P.eps = D /\ DOMAIN P.arcs = E /\ DOMAIN P.stack = F
  BY <1>1, <1>2, <1>3
<1>6. QED BY <1>1, <1>2, <1>3, <1>4, <1>5

LEMMA SoundTyped ==
    ASSUME NEW P, Sound(P)
    PROVE  /\ P \in Profile /\ P.sp \in Nat /\ P.sp >= 1 /\ P.icount \in Nat
           /\ P.sp - 1 \in Frames(P) /\ 0 \in Frames(P)
           /\ \A i \in Frames(P) :
                /\ i \in Nat /\ i \in DOMAIN P.stack /\ P.stack[i] \in FrameType
                /\ P.stack[i].ep \in DOMAIN P.eps /\ P.stack[i].ep \in Points
                /\ P.stack[i].begin \in Int /\ P.stack[i].self \in Int
                /\ P.stack[i].beginSelf \in Int /\ P.stack[i].correction \in Int
                /\ P.stack[i].next \in Int
                /\ P.stack[i].inv \in BOOLEAN /\ P.stack[i].athrow \in BOOLEAN
           /\ \A e \in DOMAIN P.eps :
                /\ e \in Points /\ P.eps[e] \in Entry
                /\ P.eps[e].total \in Int /\ P.eps[e].self \in Int /\ P.eps[e].first \in Int
                /\ P.eps[e].len \in BOOLEAN
<1>1. P \in Profile /\ P.sp >= 1 /\ Frames(P) \subseteq DOMAIN P.stack
      /\ \A i \in Frames(P) : P.stack[i].ep \in DOMAIN P.eps
  BY DEF Sound
<1>2. /\ P.eps \in [DOMAIN P.eps -> Entry] /\ DOMAIN P.eps \subseteq Points
      /\ P.stack \in [DOMAIN P.stack -> FrameType] /\ DOMAIN P.stack \subseteq Nat
      /\ P.sp \in Nat /\ P.icount \in Nat
  BY <1>1, ProfileTyped
<1>3. P.sp - 1 \in Frames(P) /\ 0 \in Frames(P)
  BY <1>1, <1>2 DEF Frames
<1>4. ASSUME NEW i \in Frames(P)
      PROVE  /\ i \in Nat /\ i \in DOMAIN P.stack /\ P.stack[i] \in FrameType
             /\ P.stack[i].ep \in DOMAIN P.eps
  BY <1>1, <1>2
<1>5. \A f \in FrameType : /\ f.ep \in Points /\ f.begin \in Int /\ f.self \in Int
                           /\ f.beginSelf \in Int /\ f.correction \in Int /\ f.next \in Int
                           /\ f.inv \in BOOLEAN /\ f.athrow \in BOOLEAN
  BY DEF FrameType
<1>6. \A e \in Entry : /\ e.total \in Int /\ e.self \in Int /\ e.first \in Int
                       /\ e.len \in BOOLEAN
  BY DEF Entry
<1>7. QED BY <1>1, <1>2, <1>3, <1>4, <1>5, <1>6

-----------------------------------------------------------------------------
(***************************************************************************)
(* What leaving and entering a block do.                                   *)
(***************************************************************************)
Top(P) == P.sp - 1
TopFrame(P) == P.stack[Top(P)]
Mine(P) == P.icount - TopFrame(P).begin
Charged(P) == Mine(P) - TopFrame(P).correction
OwnTime(P) == TopFrame(P).self + (P.icount - TopFrame(P).beginSelf)

LEMMA TopTyped ==
    ASSUME NEW P, Sound(P)
    PROVE  /\ Top(P) \in Nat /\ Top(P) \in Frames(P) /\ Top(P) \in DOMAIN P.stack
           /\ TopFrame(P) \in FrameType /\ TopFrame(P).ep \in DOMAIN P.eps
           /\ Mine(P) \in Int /\ Charged(P) \in Int /\ OwnTime(P) \in Int
           /\ P.icount \in Int /\ P.sp = Top(P) + 1
<1>1. P.sp \in Nat /\ P.sp >= 1 /\ P.icount \in Nat /\ P.sp - 1 \in Frames(P)
  BY SoundTyped
<1>2. Top(P) \in Nat /\ Top(P) \in Frames(P) /\ P.sp = Top(P) + 1
  BY <1>1 DEF Top
<1>3. /\ Top(P) \in DOMAIN P.stack /\ TopFrame(P) \in FrameType
      /\ TopFrame(P).ep \in DOMAIN P.eps
      /\ TopFrame(P).begin \in Int /\ TopFrame(P).self \in Int
      /\ TopFrame(P).beginSelf \in Int /\ TopFrame(P).correction \in Int
  BY <1>2, SoundTyped DEF TopFrame
<1>4. QED BY <1>1, <1>2, <1>3 DEF Mine, Charged, OwnTime

LEMMA PopFields ==
    ASSUME NEW P, Sound(P), NEW Q, Q = mark_block_exit_raw(P)
    PROVE  /\ Q.icount = P.icount /\ Q.frozen = P.frozen /\ Q.enabled = P.enabled
           /\ Q.inclusive = P.inclusive /\ Q.calls = P.calls /\ Q.program = P.program
           /\ Q.under = P.under + (IF Top(P) = 0 THEN 1 ELSE 0)
           /\ Q.sp = PoppedPointer(Top(P))
           /\ Q.eps = [P.eps EXCEPT ![TopFrame(P).ep] =
                            [len |-> @.len, total |-> @.total + Charged(P),
                             self |-> @.self + OwnTime(P),
                             first |-> IF @.first = Top(P) THEN -1 ELSE @.first]]
           /\ Q.arcs = IF Top(P) = 0 THEN P.arcs
                       ELSE Arc(P.arcs, P.stack[Top(P) - 1].ep, TopFrame(P).ep, Charged(P))
           /\ Q.stack = Resume(GiveCorrection([P.stack EXCEPT ![Top(P)].self = OwnTime(P)],
                                              TopFrame(P).next, Mine(P), Charged(P)),
                               Top(P), P.icount)
           /\ Q \in [eps : {Q.eps}, arcs : {Q.arcs}, stack : {Q.stack}, sp : {Q.sp},
                     icount : {Q.icount}, frozen : {Q.frozen}, enabled : {Q.enabled},
                     inclusive : {Q.inclusive}, under : {Q.under}, calls : {Q.calls},
                     program : {Q.program}]
<1> DEFINE t == P.sp - 1
           f == P.stack[t]
           self == f.self + (P.icount - f.beginSelf)
           mine == P.icount - f.begin
           corr == mine - f.correction
           eps == [P.eps EXCEPT ![f.ep] =
                        [len |-> @.len, total |-> @.total + corr, self |-> @.self + self,
                         first |-> IF @.first = t THEN -1 ELSE @.first]]
           arcs == IF t = 0 THEN P.arcs ELSE Arc(P.arcs, P.stack[t - 1].ep, f.ep, corr)
           stack == Resume(GiveCorrection([P.stack EXCEPT ![t].self = self], f.next, mine, corr),
                           t, P.icount)
           under == P.under + (IF t = 0 THEN 1 ELSE 0)
<1>1. P \in Profile
  BY DEF Sound
<1>2. Q = [P EXCEPT !.eps = eps, !.arcs = arcs, !.stack = stack, !.sp = PoppedPointer(t),
                    !.under = under]
  BY <1>1 DEF mark_block_exit_raw, Profile
<1>3. self = OwnTime(P) /\ mine = Mine(P) /\ corr = Charged(P) /\ t = Top(P) /\ f = TopFrame(P)
  BY DEF OwnTime, Mine, Charged, Top, TopFrame
<1>4. /\ Q.eps = eps /\ Q.arcs = arcs /\ Q.stack = stack /\ Q.sp = PoppedPointer(t)
      /\ Q.under = under
      /\ Q.icount = P.icount /\ Q.frozen = P.frozen /\ Q.enabled = P.enabled
      /\ Q.inclusive = P.inclusive /\ Q.calls = P.calls /\ Q.program = P.program
  <2> HIDE DEF eps, arcs, stack, under
  <2>1. QED BY <1>1, <1>2 DEF Profile
<1>5. Q \in [eps : {Q.eps}, arcs : {Q.arcs}, stack : {Q.stack}, sp : {Q.sp},
             icount : {Q.icount}, frozen : {Q.frozen}, enabled : {Q.enabled},
             inclusive : {Q.inclusive}, under : {Q.under}, calls : {Q.calls},
             program : {Q.program}]
  <2> HIDE DEF eps, arcs, stack, under
  <2>1. QED BY <1>1, <1>2 DEF Profile
<1>6. QED
  <2> HIDE DEF t, f, self, mine, corr
  <2>1. QED BY <1>3, <1>4, <1>5 DEF eps, arcs, stack, under

LEMMA FrameFields ==
    ASSUME NEW f \in FrameType
    PROVE  /\ f.ep \in Points /\ f.begin \in Int /\ f.self \in Int
           /\ f.beginSelf \in Int /\ f.correction \in Int /\ f.next \in Int
           /\ f.inv \in BOOLEAN /\ f.athrow \in BOOLEAN
           /\ f = [ep |-> f.ep, begin |-> f.begin, self |-> f.self, beginSelf |-> f.beginSelf,
                   correction |-> f.correction, inv |-> f.inv, athrow |-> f.athrow,
                   next |-> f.next]
  BY DEF FrameType

(* The same frame, but for the counts.                                     *)
SameBlock(f, g) ==
    g.ep = f.ep /\ g.next = f.next /\ g.inv = f.inv /\ g.athrow = f.athrow

LEMMA GiveEffect ==
    ASSUME NEW D, NEW s \in [D -> FrameType], NEW n \in Int, NEW m \in Int, NEW c \in Int,
           NEW r, r = GiveCorrection(s, n, m, c)
    PROVE  /\ r \in [D -> FrameType]
           /\ \A i \in D : /\ SameBlock(s[i], r[i]) /\ r[i].begin = s[i].begin
                           /\ r[i].self = s[i].self /\ r[i].beginSelf = s[i].beginSelf
                           /\ r[i].correction =
                                s[i].correction + (IF i = n /\ n # -1 THEN m ELSE 0)
<1>1. CASE n = -1
  <2>1. r = s
    BY <1>1 DEF GiveCorrection
  <2>2. \A i \in D : s[i].correction \in Int
    BY FrameFields
  <2>3. QED BY <1>1, <2>1, <2>2 DEF SameBlock
<1>2. CASE n # -1
  <2>1. r = [s EXCEPT ![n].correction = @ + m]
    BY <1>2 DEF GiveCorrection
  <2>2. ASSUME NEW i \in D
        PROVE  /\ r[i] \in FrameType
               /\ SameBlock(s[i], r[i]) /\ r[i].begin = s[i].begin
               /\ r[i].self = s[i].self /\ r[i].beginSelf = s[i].beginSelf
               /\ r[i].correction = s[i].correction + (IF i = n /\ n # -1 THEN m ELSE 0)
    <3>1. PICK f \in FrameType : f = s[i]
      OBVIOUS
    <3>2. f.correction \in Int /\ f.correction + m \in Int
      BY FrameFields
    <3>3. CASE i = n
      <4>1. r[i] = [f EXCEPT !.correction = f.correction + m]
        BY <2>1, <3>1, <3>3
      <4>2. QED BY <1>2, <3>1, <3>2, <3>3, <4>1 DEF FrameType, SameBlock
    <3>4. CASE i # n
      <4>1. r[i] = f
        BY <2>1, <3>1, <3>4
      <4>2. QED BY <3>1, <3>2, <3>4, <4>1 DEF SameBlock
    <3>5. QED BY <3>3, <3>4
  <2>3. DOMAIN r = D /\ r = [i \in DOMAIN r |-> r[i]]
    BY <2>1
  <2>4. r \in [D -> FrameType]
    BY <2>2, <2>3
  <2>5. QED BY <2>2, <2>4
<1>3. QED BY <1>1, <1>2

Resumed(D, s, r, t, now) ==
    /\ r \in [D -> FrameType]
    /\ \A i \in D : /\ SameBlock(s[i], r[i])
                    /\ r[i].self = s[i].self /\ r[i].correction = s[i].correction
                    /\ r[i].begin = IF t = 0 /\ i = 0 THEN now ELSE s[i].begin
                    /\ r[i].beginSelf = IF (t = 0 /\ i = 0) \/ (t > 0 /\ i = t - 1)
                                        THEN now ELSE s[i].beginSelf

LEMMA ResumeEffect ==
    ASSUME NEW D, NEW s \in [D -> FrameType], NEW t \in Nat, NEW now \in Int,
           NEW r, r = Resume(s, t, now)
    PROVE  Resumed(D, s, r, t, now)
<1>1. CASE t = 0
  <2>1. r = [s EXCEPT ![0].begin = now, ![0].beginSelf = now]
    BY <1>1 DEF Resume
  <2>2. ASSUME NEW i \in D
        PROVE  /\ r[i] \in FrameType
               /\ SameBlock(s[i], r[i])
               /\ r[i].self = s[i].self /\ r[i].correction = s[i].correction
               /\ r[i].begin = IF i = 0 THEN now ELSE s[i].begin
               /\ r[i].beginSelf = IF i = 0 THEN now ELSE s[i].beginSelf
    <3>1. PICK f \in FrameType : f = s[i]
      OBVIOUS
    <3>2. CASE i = 0
      <4>1. r[i] = [f EXCEPT !.begin = now, !.beginSelf = now]
        BY <2>1, <3>1, <3>2
      <4>2. QED BY <3>1, <3>2, <4>1 DEF FrameType, SameBlock
    <3>3. CASE i # 0
      <4>1. r[i] = f
        BY <2>1, <3>1, <3>3
      <4>2. QED BY <3>1, <3>3, <4>1 DEF SameBlock
    <3>4. QED BY <3>2, <3>3
  <2>3. DOMAIN r = D /\ r = [i \in DOMAIN r |-> r[i]]
    BY <2>1
  <2>4. r \in [D -> FrameType]
    BY <2>2, <2>3
  <2>5. QED BY <1>1, <2>2, <2>4 DEF Resumed
<1>2. CASE t # 0
  <2>1. r = [s EXCEPT ![t - 1].beginSelf = now] /\ t > 0
    BY <1>2 DEF Resume
  <2>2. ASSUME NEW i \in D
        PROVE  /\ r[i] \in FrameType
               /\ SameBlock(s[i], r[i]) /\ r[i].begin = s[i].begin
               /\ r[i].self = s[i].self /\ r[i].correction = s[i].correction
               /\ r[i].beginSelf = IF i = t - 1 THEN now ELSE s[i].beginSelf
    <3>1. PICK f \in FrameType : f = s[i]
      OBVIOUS
    <3>2. CASE i = t - 1
      <4>1. r[i] = [f EXCEPT !.beginSelf = now]
        BY <2>1, <3>1, <3>2
      <4>2. QED BY <3>1, <3>2, <4>1 DEF FrameType, SameBlock
    <3>3. CASE i # t - 1
      <4>1. r[i] = f
        BY <2>1, <3>1, <3>3
      <4>2. QED BY <3>1, <3>3, <4>1 DEF SameBlock
    <3>4. QED BY <3>2, <3>3
  <2>3. DOMAIN r = D /\ r = [i \in DOMAIN r |-> r[i]]
    BY <2>1
  <2>4. r \in [D -> FrameType]
    BY <2>2, <2>3
  <2>5. QED BY <1>2, <2>1, <2>2, <2>4 DEF Resumed
<1>3. QED BY <1>1, <1>2

LEMMA SelfEffect ==
    ASSUME NEW D, NEW s \in [D -> FrameType], NEW t \in D, NEW v \in Int,
           NEW r, r = [s EXCEPT ![t].self = v]
    PROVE  /\ r \in [D -> FrameType]
           /\ \A i \in D : /\ SameBlock(s[i], r[i]) /\ r[i].begin = s[i].begin
                           /\ r[i].beginSelf = s[i].beginSelf
                           /\ r[i].correction = s[i].correction
                           /\ r[i].self = IF i = t THEN v ELSE s[i].self
<1>1. ASSUME NEW i \in D
      PROVE  /\ r[i] \in FrameType
             /\ SameBlock(s[i], r[i]) /\ r[i].begin = s[i].begin
             /\ r[i].beginSelf = s[i].beginSelf /\ r[i].correction = s[i].correction
             /\ r[i].self = IF i = t THEN v ELSE s[i].self
  <2>1. PICK f \in FrameType : f = s[i]
    OBVIOUS
  <2>2. CASE i = t
    <3>1. r[i] = [f EXCEPT !.self = v]
      BY <2>1, <2>2
    <3>2. QED BY <2>1, <2>2, <3>1 DEF FrameType, SameBlock
  <2>3. CASE i # t
    <3>1. r[i] = f
      BY <2>1, <2>3
    <3>2. QED BY <2>1, <2>3, <3>1 DEF SameBlock
  <2>4. QED BY <2>2, <2>3
<1>2. DOMAIN r = D /\ r = [i \in DOMAIN r |-> r[i]]
  OBVIOUS
<1>3. QED BY <1>1, <1>2

LEMMA PopStack ==
    ASSUME NEW P, Sound(P), NEW Q, Q = mark_block_exit_raw(P)
    PROVE  /\ Q.stack \in [DOMAIN P.stack -> FrameType]
           /\ \A i \in DOMAIN P.stack :
                /\ SameBlock(P.stack[i], Q.stack[i])
                /\ Q.stack[i].self = IF i = Top(P) THEN OwnTime(P) ELSE P.stack[i].self
                /\ Q.stack[i].begin = IF Top(P) = 0 /\ i = 0 THEN P.icount ELSE P.stack[i].begin
                /\ Q.stack[i].beginSelf =
                     IF (Top(P) = 0 /\ i = 0) \/ (Top(P) > 0 /\ i = Top(P) - 1)
                     THEN P.icount ELSE P.stack[i].beginSelf
                /\ Q.stack[i].correction =
                     P.stack[i].correction
                        + (IF i = TopFrame(P).next /\ TopFrame(P).next # -1 THEN Mine(P) ELSE 0)
<1>1. PICK D : D = DOMAIN P.stack
  OBVIOUS
<1>2. P.stack \in [D -> FrameType]
  BY <1>1, SoundTyped, ProfileTyped
<1>3. PICK t \in D, n \in Int, m \in Int, c \in Int, own \in Int, now \in Int :
         /\ t = Top(P) /\ n = TopFrame(P).next /\ m = Mine(P) /\ c = Charged(P)
         /\ own = OwnTime(P) /\ now = P.icount
  BY <1>1, TopTyped, FrameFields
<1>4. t \in Nat
  BY <1>3, TopTyped
<1>5. PICK s : s = P.stack
  OBVIOUS
<1>6. s \in [D -> FrameType]
  BY <1>2, <1>5
<1>7. PICK a : a = [s EXCEPT ![t].self = own]
  OBVIOUS
<1>8. /\ a \in [D -> FrameType]
      /\ \A i \in D : /\ SameBlock(s[i], a[i]) /\ a[i].begin = s[i].begin
                      /\ a[i].beginSelf = s[i].beginSelf
                      /\ a[i].correction = s[i].correction
                      /\ a[i].self = IF i = t THEN own ELSE s[i].self
  BY <1>6, <1>7, SelfEffect
<1>9. PICK b : b = GiveCorrection(a, n, m, c)
  OBVIOUS
<1>10. /\ b \in [D -> FrameType]
       /\ \A i \in D : /\ SameBlock(a[i], b[i]) /\ b[i].begin = a[i].begin
                       /\ b[i].self = a[i].self /\ b[i].beginSelf = a[i].beginSelf
                       /\ b[i].correction = a[i].correction
                             + (IF i = n /\ n # -1 THEN m ELSE 0)
  BY <1>8, <1>9, GiveEffect
<1>11. PICK q : q = Resume(b, t, now)
  OBVIOUS
<1>12. Resumed(D, b, q, t, now)
  BY <1>4, <1>10, <1>11, ResumeEffect
<1>13. \A i \in D : SameBlock(s[i], q[i])
  BY <1>8, <1>10, <1>12 DEF SameBlock, Resumed
<1>14. q = Q.stack
  <2>1. Q.stack = Resume(GiveCorrection([P.stack EXCEPT ![Top(P)].self = OwnTime(P)],
                                              TopFrame(P).next, Mine(P), Charged(P)),
                               Top(P), P.icount)
    BY PopFields, Zenon
  <2>2. QED BY <1>3, <1>5, <1>7, <1>9, <1>11, <2>1
<1>15. /\ q \in [D -> FrameType]
       /\ \A i \in D :
                /\ SameBlock(s[i], q[i])
                /\ q[i].self = IF i = t THEN own ELSE s[i].self
                /\ q[i].begin = IF t = 0 /\ i = 0 THEN now ELSE s[i].begin
                /\ q[i].beginSelf = IF (t = 0 /\ i = 0) \/ (t > 0 /\ i = t - 1)
                                    THEN now ELSE s[i].beginSelf
                /\ q[i].correction = s[i].correction + (IF i = n /\ n # -1 THEN m ELSE 0)
  BY <1>8, <1>10, <1>12, <1>13 DEF Resumed
<1>16. QED BY <1>1, <1>3, <1>5, <1>14, <1>15

LEMMA PopEps ==
    ASSUME NEW P, Sound(P), NEW Q, Q = mark_block_exit_raw(P)
    PROVE  /\ Q.eps \in [DOMAIN P.eps -> Entry]
           /\ \A e \in DOMAIN P.eps :
                LET mine == e = TopFrame(P).ep
                IN  /\ Q.eps[e].len = P.eps[e].len
                    /\ Q.eps[e].total = P.eps[e].total + (IF mine THEN Charged(P) ELSE 0)
                    /\ Q.eps[e].self = P.eps[e].self + (IF mine THEN OwnTime(P) ELSE 0)
                    /\ Q.eps[e].first =
                         IF mine /\ P.eps[e].first = Top(P) THEN -1 ELSE P.eps[e].first
<1>1. PICK x \in DOMAIN P.eps, t \in Int, c \in Int, own \in Int :
         x = TopFrame(P).ep /\ t = Top(P) /\ c = Charged(P) /\ own = OwnTime(P)
  BY TopTyped
<1>2. P.eps \in [DOMAIN P.eps -> Entry]
  BY SoundTyped, ProfileTyped
<1>3. Q.eps = [P.eps EXCEPT ![x] =
                  [len |-> @.len, total |-> @.total + c, self |-> @.self + own,
                   first |-> IF @.first = t THEN -1 ELSE @.first]]
  <2>1. Q.eps = [P.eps EXCEPT ![TopFrame(P).ep] =
                            [len |-> @.len, total |-> @.total + Charged(P),
                             self |-> @.self + OwnTime(P),
                             first |-> IF @.first = Top(P) THEN -1 ELSE @.first]]
    BY PopFields, Zenon
  <2>2. QED BY <1>1, <2>1
<1>4. ASSUME NEW e \in DOMAIN P.eps
      PROVE  /\ Q.eps[e] \in Entry
             /\ Q.eps[e].len = P.eps[e].len
             /\ Q.eps[e].total = P.eps[e].total + (IF e = x THEN c ELSE 0)
             /\ Q.eps[e].self = P.eps[e].self + (IF e = x THEN own ELSE 0)
             /\ Q.eps[e].first = IF e = x /\ P.eps[e].first = t THEN -1 ELSE P.eps[e].first
  <2>1. P.eps[e] \in Entry /\ P.eps[e].total \in Int /\ P.eps[e].self \in Int
        /\ P.eps[e].first \in Int /\ P.eps[e].len \in BOOLEAN
    BY SoundTyped
  <2>2. CASE e = x
    <3>1. Q.eps[e] = [len |-> P.eps[e].len, total |-> P.eps[e].total + c,
                      self |-> P.eps[e].self + own,
                      first |-> IF P.eps[e].first = t THEN -1 ELSE P.eps[e].first]
      BY <1>2, <1>3, <2>2
    <3>2. QED BY <1>1, <2>1, <2>2, <3>1 DEF Entry
  <2>3. CASE e # x
    <3>1. Q.eps[e] = P.eps[e]
      BY <1>2, <1>3, <2>3
    <3>2. QED BY <2>1, <2>3, <3>1
  <2>4. QED BY <2>2, <2>3
<1>5. DOMAIN Q.eps = DOMAIN P.eps /\ Q.eps = [e \in DOMAIN Q.eps |-> Q.eps[e]]
  BY <1>2, <1>3
<1>6. Q.eps \in [DOMAIN P.eps -> Entry]
  BY <1>4, <1>5
<1>7. QED BY <1>1, <1>4, <1>6

LEMMA PopSound ==
    ASSUME NEW P, Sound(P), NEW Q, Q = mark_block_exit_raw(P)
    PROVE  /\ Sound(Q) /\ DOMAIN Q.eps = DOMAIN P.eps /\ DOMAIN Q.stack = DOMAIN P.stack
           /\ Q.sp = (IF Top(P) = 0 THEN 1 ELSE Top(P))
           /\ Frames(P) = 0..Top(P)
           /\ Frames(Q) = (IF Top(P) = 0 THEN {0} ELSE 0..Top(P) - 1)
           /\ \A i \in Frames(Q) : i \in Frames(P) /\ i \in DOMAIN P.stack
<1>1. PICK t \in Nat : t = Top(P) /\ P.sp = t + 1 /\ t \in Frames(P)
  BY TopTyped
<1>2. Frames(P) = 0..t
  BY <1>1 DEF Frames
<1>3. Q.sp = IF t = 0 THEN 1 ELSE t
  <2>1. Q.sp = PoppedPointer(Top(P))
    BY PopFields, Zenon
  <2>2. QED BY <1>1, <2>1 DEF PoppedPointer
<1>4. Frames(Q) = IF t = 0 THEN {0} ELSE 0..t - 1
  <2>1. CASE t = 0
    BY <1>3, <2>1 DEF Frames
  <2>2. CASE t # 0
    BY <1>3, <2>2 DEF Frames
  <2>3. QED BY <2>1, <2>2
<1>5. Q.eps \in [DOMAIN P.eps -> Entry] /\ Q.stack \in [DOMAIN P.stack -> FrameType]
  BY PopEps, PopStack
<1>6. DOMAIN Q.eps = DOMAIN P.eps /\ DOMAIN Q.stack = DOMAIN P.stack
  BY <1>5
<1>7. /\ P \in Profile /\ IsFiniteSet(DOMAIN P.eps) /\ IsFiniteSet(DOMAIN P.arcs)
      /\ Frames(P) \subseteq DOMAIN P.stack
  BY DEF Sound
<1>8. \A i \in Frames(Q) : i \in Frames(P) /\ i \in DOMAIN P.stack
  BY <1>2, <1>4, <1>7
<1>9. /\ Q.arcs \in [DOMAIN Q.arcs -> Int] /\ IsFiniteSet(DOMAIN Q.arcs)
      /\ DOMAIN Q.arcs \subseteq Points \X Points
  <2>1. /\ P.arcs \in [DOMAIN P.arcs -> Int] /\ DOMAIN P.arcs \subseteq Points \X Points
    BY <1>7, ProfileTyped
  <2>2. Q.arcs = IF t = 0 THEN P.arcs
                 ELSE Arc(P.arcs, P.stack[t - 1].ep, TopFrame(P).ep, Charged(P))
    <3>1. Q.arcs = IF Top(P) = 0 THEN P.arcs
                   ELSE Arc(P.arcs, P.stack[Top(P) - 1].ep, TopFrame(P).ep, Charged(P))
      BY PopFields, Zenon
    <3>2. QED BY <1>1, <3>1
  <2>3. CASE t = 0
    BY <1>7, <2>1, <2>2, <2>3
  <2>4. CASE t # 0
    <3>1. t - 1 \in Frames(P)
      BY <1>2, <2>4
    <3>2. PICK x \in Points, y \in Points, c \in Int :
              x = P.stack[t - 1].ep /\ y = TopFrame(P).ep /\ c = Charged(P)
      <4>1. P.stack[t - 1].ep \in Points
        BY <3>1, SoundTyped
      <4>2. TopFrame(P).ep \in Points /\ Charged(P) \in Int
        BY TopTyped, FrameFields
      <4>3. QED BY <4>1, <4>2
    <3>3. PICK v : v = IF <<x, y>> \in DOMAIN P.arcs THEN P.arcs[<<x, y>>] + c ELSE c
      OBVIOUS
    <3>4. Q.arcs = Arc(P.arcs, x, y, c)
      BY <2>2, <2>4, <3>2
    <3>5. v \in Int
      BY <2>1, <3>3
    <3>6. Q.arcs = [z \in DOMAIN P.arcs \cup {<<x, y>>} |->
                        IF z = <<x, y>> THEN v ELSE P.arcs[z]]
      BY <3>3, <3>4 DEF Arc, Put
    <3>7. DOMAIN Q.arcs = DOMAIN P.arcs \cup {<<x, y>>}
      BY <3>6
    <3>8. IsFiniteSet(DOMAIN Q.arcs)
      <4>1. PICK k : k = <<x, y>>
        OBVIOUS
      <4>2. IsFiniteSet(DOMAIN P.arcs \cup {k})
        BY <1>7, FS_AddElement
      <4>3. QED BY <3>7, <4>1, <4>2
    <3>9. Q.arcs \in [DOMAIN Q.arcs -> Int]
      BY <2>1, <3>5, <3>6, <3>7
    <3>10. QED BY <2>1, <3>7, <3>8, <3>9
  <2>5. QED BY <2>3, <2>4
<1>10. Q \in Profile
  <2>1. /\ DOMAIN P.eps \subseteq Points /\ DOMAIN P.stack \subseteq Nat
        /\ P.icount \in Nat /\ P.frozen \in BOOLEAN /\ P.enabled \in BOOLEAN
        /\ P.inclusive \in [Points -> Int] /\ P.under \in Nat /\ P.calls \in Nat
        /\ P.program \in Points
    BY <1>7, ProfileTyped
  <2>2. /\ Q.icount = P.icount /\ Q.frozen = P.frozen /\ Q.enabled = P.enabled
        /\ Q.inclusive = P.inclusive /\ Q.calls = P.calls /\ Q.program = P.program
        /\ Q.under = P.under + (IF Top(P) = 0 THEN 1 ELSE 0)
        /\ Q \in [eps : {Q.eps}, arcs : {Q.arcs}, stack : {Q.stack}, sp : {Q.sp},
                 icount : {Q.icount}, frozen : {Q.frozen}, enabled : {Q.enabled},
                 inclusive : {Q.inclusive}, under : {Q.under}, calls : {Q.calls},
                 program : {Q.program}]
    BY PopFields, Zenon
  <2>3. Q.under \in Nat /\ Q.sp \in Nat
    BY <1>1, <1>3, <2>1, <2>2
  <2>4. Q.eps \in UNION {[D -> Entry] : D \in SUBSET Points}
    BY <1>5, <2>1
  <2>5. Q.arcs \in UNION {[D -> Int] : D \in SUBSET (Points \X Points)}
    BY <1>9
  <2>6. Q.stack \in UNION {[D -> FrameType] : D \in SUBSET Nat}
    BY <1>5, <2>1
  <2>7. /\ Q.icount \in Nat /\ Q.frozen \in BOOLEAN /\ Q.enabled \in BOOLEAN
        /\ Q.inclusive \in [Points -> Int] /\ Q.calls \in Nat /\ Q.program \in Points
    BY <2>1, <2>2
  <2>8. QED BY <2>2, <2>3, <2>4, <2>5, <2>6, <2>7 DEF Profile
<1>11. \A i \in Frames(Q) : Q.stack[i].ep = P.stack[i].ep /\ P.stack[i].ep \in DOMAIN P.eps
  BY <1>8, PopStack, SoundTyped DEF SameBlock
<1>12. 0 \in Frames(Q) /\ P.stack[0].ep = P.program /\ Q.program = P.program
  <2>1. 0 \in Frames(Q)
    BY <1>4
  <2>2. Q.program = P.program
    BY PopFields, Zenon
  <2>3. QED BY <2>1, <2>2 DEF Sound
<1>13. Q.sp >= 1
  BY <1>1, <1>3
<1>14. Sound(Q)
  BY <1>6, <1>7, <1>8, <1>9, <1>10, <1>11, <1>12, <1>13 DEF Sound
<1>15. QED BY <1>1, <1>2, <1>3, <1>4, <1>6, <1>8, <1>14

(* Whether entering key is a recursive call.                               *)
Recursive(P, key) == key \in DOMAIN P.eps /\ P.eps[key].first # -1

NextOf(P, key) == IF Recursive(P, key) THEN FrameBelow(P, key) ELSE -1

LEMMA BelowTyped ==
    ASSUME NEW P, Sound(P), NEW key
    PROVE  /\ FrameBelow(P, key) \in Int
           /\ FrameBelow(P, key) = -1 =>
                \A j \in Frames(P) : P.stack[j].ep # key
           /\ FrameBelow(P, key) # -1 =>
                /\ FrameBelow(P, key) \in Frames(P) /\ P.stack[FrameBelow(P, key)].ep = key
                /\ \A j \in Frames(P) : P.stack[j].ep = key => j <= FrameBelow(P, key)
<1> DEFINE same == {j \in 0..(P.sp - 1) : P.stack[j].ep = key}
<1>1. PICK t \in Nat : t = P.sp - 1
  <2>1. P.sp \in Nat /\ P.sp >= 1
    BY SoundTyped
  <2>2. P.sp - 1 \in Nat
    BY <2>1
  <2>3. QED BY <2>2
<1>2. Frames(P) = 0..t
  BY <1>1 DEF Frames
<1>3. same \subseteq 0..t /\ \A j : j \in same <=> j \in Frames(P) /\ P.stack[j].ep = key
  BY <1>1, <1>2
<1>4. FrameBelow(P, key) = IF same = {} THEN -1 ELSE Max(same)
  BY DEF FrameBelow
<1> HIDE DEF same
<1>5. CASE same = {}
  BY <1>3, <1>4, <1>5
<1>6. CASE same # {}
  <2>1. PICK m : m = Max(same)
    OBVIOUS
  <2>2. m \in same /\ \A y \in same : m >= y
    BY <1>3, <1>6, <2>1, MaxOf
  <2>3. FrameBelow(P, key) = m
    BY <1>4, <1>6, <2>1
  <2>4. m \in Frames(P) /\ P.stack[m].ep = key
    BY <1>3, <2>2
  <2>5. m \in Int /\ m # -1
    BY <1>2, <2>4
  <2>6. ASSUME NEW j \in Frames(P), P.stack[j].ep = key PROVE j <= m
    <3>1. j \in same /\ j \in Int
      BY <1>2, <1>3, <2>6
    <3>2. m >= j
      BY <2>2, <3>1
    <3>3. QED BY <2>5, <3>1, <3>2
  <2>7. QED BY <2>3, <2>4, <2>5, <2>6
<1>7. QED BY <1>5, <1>6

(* eps after key is entered with the stack pointer at sp.                  *)
Registered(P, key, len) ==
    LET eps == insert_into_hashtable(P.eps, key, len)
    IN  IF Recursive(P, key) THEN eps ELSE [eps EXCEPT ![key].first = P.sp]

(* The stack after key is entered.                                         *)
Pushed(P, key, inv, athrow) ==
    Put([P.stack EXCEPT ![Top(P)].self = OwnTime(P)], P.sp,
        Frame(key, P.icount, inv, athrow, NextOf(P, key)))

Entered(P, Q, key, len, inv, athrow) ==
    /\ Q.icount = P.icount /\ Q.frozen = P.frozen /\ Q.enabled = P.enabled
    /\ Q.inclusive = P.inclusive /\ Q.calls = P.calls + 1 /\ Q.program = P.program
    /\ Q.under = P.under /\ Q.arcs = P.arcs /\ Q.sp = P.sp + 1
    /\ Q.eps = Registered(P, key, len)
    /\ Q.stack = Pushed(P, key, inv, athrow)
    /\ Q \in [eps : {Q.eps}, arcs : {Q.arcs}, stack : {Q.stack}, sp : {Q.sp},
              icount : {Q.icount}, frozen : {Q.frozen}, enabled : {Q.enabled},
              inclusive : {Q.inclusive}, under : {Q.under}, calls : {Q.calls},
              program : {Q.program}]

LEMMA EnterFields ==
    ASSUME NEW P, Sound(P), ~P.frozen, NEW key \in Points, NEW len \in BOOLEAN,
           NEW inv \in BOOLEAN, NEW athrow \in BOOLEAN,
           NEW Q, Q = mark_block_enter(P, key, len, inv, athrow)
    PROVE  Entered(P, Q, key, len, inv, athrow)
<1> DEFINE eps == insert_into_hashtable(P.eps, key, len)
           rec == eps[key].first # -1
           top == P.sp - 1
           self == P.stack[top].self + (P.icount - P.stack[top].beginSelf)
           next == IF rec THEN FrameBelow(P, key) ELSE -1
           after == IF rec THEN eps ELSE [eps EXCEPT ![key].first = P.sp]
           stack == Put([P.stack EXCEPT ![top].self = self], P.sp,
                        Frame(key, P.icount, inv, athrow, next))
<1>1. P \in Profile
  BY DEF Sound
<1>2. Q = [P EXCEPT !.eps = after, !.stack = stack, !.sp = P.sp + 1, !.calls = @ + 1]
  BY <1>1 DEF mark_block_enter, Profile
<1>3. rec <=> Recursive(P, key)
  <2>1. CASE key \in DOMAIN P.eps
    BY <2>1 DEF insert_into_hashtable, Recursive
  <2>2. CASE key \notin DOMAIN P.eps
    <3>1. eps[key] = EntryPoint(len)
      BY <2>2 DEF insert_into_hashtable, Put
    <3>2. EntryPoint(len).first = -1
      BY DEF EntryPoint
    <3>3. QED BY <2>2, <3>1, <3>2 DEF Recursive
  <2>3. QED BY <2>1, <2>2
<1>4. top = Top(P) /\ self = OwnTime(P)
  BY DEF Top, OwnTime, TopFrame
<1>5. next = NextOf(P, key) /\ after = Registered(P, key, len)
  BY <1>3 DEF NextOf, Registered
<1>6. /\ Q.icount = P.icount /\ Q.frozen = P.frozen /\ Q.enabled = P.enabled
      /\ Q.inclusive = P.inclusive /\ Q.calls = P.calls + 1 /\ Q.program = P.program
      /\ Q.under = P.under /\ Q.arcs = P.arcs /\ Q.sp = P.sp + 1
      /\ Q.eps = after /\ Q.stack = stack
      /\ Q \in [eps : {Q.eps}, arcs : {Q.arcs}, stack : {Q.stack}, sp : {Q.sp},
                icount : {Q.icount}, frozen : {Q.frozen}, enabled : {Q.enabled},
                inclusive : {Q.inclusive}, under : {Q.under}, calls : {Q.calls},
                program : {Q.program}]
  <2> HIDE DEF after, stack
  <2>1. QED BY <1>1, <1>2 DEF Profile
<1>7. stack = Pushed(P, key, inv, athrow)
  BY <1>4, <1>5 DEF Pushed
<1> HIDE DEF after, stack
<1>8. QED BY <1>5, <1>6, <1>7 DEF Entered

EpsOf(P, key, r) ==
    /\ r \in [DOMAIN P.eps \cup {key} -> Entry]
    /\ \A e \in DOMAIN P.eps :
         /\ r[e].total = P.eps[e].total /\ r[e].self = P.eps[e].self
         /\ r[e].len = P.eps[e].len
         /\ r[e].first = IF e = key /\ P.eps[e].first = -1 THEN P.sp ELSE P.eps[e].first
    /\ key \notin DOMAIN P.eps =>
         r[key].total = 0 /\ r[key].self = 0 /\ r[key].first = P.sp

LEMMA EnterEps ==
    ASSUME NEW P, Sound(P), NEW key \in Points, NEW len \in BOOLEAN,
           NEW r, r = Registered(P, key, len)
    PROVE  EpsOf(P, key, r)
<1> DEFINE eps == insert_into_hashtable(P.eps, key, len)
           D == DOMAIN P.eps
<1>1. P.eps \in [D -> Entry] /\ P.sp \in Int
  BY SoundTyped, ProfileTyped
<1>2. EntryPoint(len) \in Entry /\ EntryPoint(len).total = 0 /\ EntryPoint(len).self = 0
      /\ EntryPoint(len).first = -1
  BY DEF EntryPoint, Entry
<1>3. /\ eps \in [D \cup {key} -> Entry] /\ \A e \in D : eps[e] = P.eps[e]
      /\ key \notin D => eps[key] = EntryPoint(len)
  <2>1. CASE key \in D
    <3>1. D \cup {key} = D /\ eps = P.eps
      BY <2>1 DEF insert_into_hashtable
    <3>2. QED BY <1>1, <2>1, <3>1
  <2>2. CASE key \notin D
    <3>1. eps = [z \in D \cup {key} |-> IF z = key THEN EntryPoint(len) ELSE P.eps[z]]
      BY <2>2 DEF insert_into_hashtable, Put
    <3> HIDE DEF eps
    <3>2. QED BY <1>1, <1>2, <2>2, <3>1
  <2>3. QED BY <2>1, <2>2
<1>4. Recursive(P, key) <=> eps[key].first # -1
  BY <1>2, <1>3 DEF Recursive
<1>5. r = IF Recursive(P, key) THEN eps ELSE [eps EXCEPT ![key].first = P.sp]
  BY DEF Registered
<1> HIDE DEF eps
<1>6. ASSUME NEW e \in D \cup {key}
      PROVE  /\ r[e] \in Entry
             /\ r[e].total = eps[e].total /\ r[e].self = eps[e].self /\ r[e].len = eps[e].len
             /\ r[e].first = IF e = key /\ eps[e].first = -1 THEN P.sp ELSE eps[e].first
  <2>1. PICK w \in Entry : w = eps[e]
    BY <1>3
  <2>2. CASE Recursive(P, key) \/ e # key
    <3>1. r[e] = w
      BY <1>3, <1>5, <2>1, <2>2
    <3>2. QED BY <1>4, <2>1, <2>2, <3>1
  <2>3. CASE ~Recursive(P, key) /\ e = key
    <3>1. r[e] = [w EXCEPT !.first = P.sp]
      BY <1>3, <1>5, <2>1, <2>3
    <3>2. QED BY <1>1, <1>4, <2>1, <2>3, <3>1 DEF Entry
  <2>4. QED BY <2>2, <2>3
<1>7. r \in [D \cup {key} -> Entry]
  <2>1. DOMAIN r = D \cup {key} /\ r = [e \in DOMAIN r |-> r[e]]
    BY <1>3, <1>5
  <2>2. QED BY <1>6, <2>1
<1>8. QED BY <1>2, <1>3, <1>6, <1>7 DEF EpsOf

StackOf(P, key, r) ==
    /\ r \in [DOMAIN P.stack \cup {P.sp} -> FrameType]
    /\ \A i \in Frames(P) :
         /\ SameBlock(P.stack[i], r[i]) /\ r[i].begin = P.stack[i].begin
         /\ r[i].beginSelf = P.stack[i].beginSelf
         /\ r[i].correction = P.stack[i].correction
         /\ r[i].self = IF i = Top(P) THEN OwnTime(P) ELSE P.stack[i].self
    /\ r[P.sp].ep = key /\ r[P.sp].begin = P.icount /\ r[P.sp].self = 0
    /\ r[P.sp].beginSelf = P.icount /\ r[P.sp].correction = 0
    /\ r[P.sp].next = NextOf(P, key)

LEMMA EnterStack ==
    ASSUME NEW P, Sound(P), NEW key \in Points, NEW inv \in BOOLEAN, NEW athrow \in BOOLEAN,
           NEW r, r = Pushed(P, key, inv, athrow)
    PROVE  StackOf(P, key, r)
<1>1. PICK D : D = DOMAIN P.stack
  OBVIOUS
<1>2. PICK s : s = P.stack
  OBVIOUS
<1>3. PICK t \in D, own \in Int, sp \in Nat, now \in Int, next \in Int :
         t = Top(P) /\ own = OwnTime(P) /\ sp = P.sp /\ now = P.icount /\ next = NextOf(P, key)
  <2>1. Top(P) \in D /\ OwnTime(P) \in Int /\ P.icount \in Int
    BY <1>1, TopTyped
  <2>2. P.sp \in Nat
    BY SoundTyped
  <2>3. NextOf(P, key) \in Int
    BY BelowTyped DEF NextOf
  <2>4. QED BY <2>1, <2>2, <2>3
<1>4. s \in [D -> FrameType]
  BY <1>1, <1>2, SoundTyped, ProfileTyped
<1>5. PICK a : a = [s EXCEPT ![t].self = own]
  OBVIOUS
<1>6. /\ a \in [D -> FrameType]
      /\ \A i \in D : /\ SameBlock(s[i], a[i]) /\ a[i].begin = s[i].begin
                      /\ a[i].beginSelf = s[i].beginSelf
                      /\ a[i].correction = s[i].correction
                      /\ a[i].self = IF i = t THEN own ELSE s[i].self
  BY <1>4, <1>5, SelfEffect
<1>7. PICK f : f = Frame(key, now, inv, athrow, next)
  OBVIOUS
<1>8. /\ f \in FrameType /\ f.ep = key /\ f.begin = now /\ f.self = 0 /\ f.beginSelf = now
      /\ f.correction = 0 /\ f.next = next
  BY <1>7 DEF Frame, FrameType
<1>9. r = [z \in D \cup {sp} |-> IF z = sp THEN f ELSE a[z]]
  <2>1. DOMAIN a = D
    BY <1>6
  <2>2. r = Put(a, sp, f)
    BY <1>2, <1>3, <1>5, <1>7 DEF Pushed
  <2>3. QED BY <2>1, <2>2 DEF Put
<1>10. r \in [D \cup {sp} -> FrameType] /\ r[sp] = f /\ \A i \in D : i # sp => r[i] = a[i]
  BY <1>6, <1>8, <1>9
<1>11. \A i \in Frames(P) : i \in D /\ i # sp
  <2>1. \A i \in Frames(P) : i \in DOMAIN P.stack
    BY SoundTyped
  <2>2. QED BY <1>1, <1>3, <2>1 DEF Frames
<1>12. QED BY <1>1, <1>2, <1>3, <1>6, <1>8, <1>10, <1>11 DEF StackOf

LEMMA EnterSound ==
    ASSUME NEW P, Sound(P), ~P.frozen, NEW key \in Points, NEW len \in BOOLEAN,
           NEW inv \in BOOLEAN, NEW athrow \in BOOLEAN,
           NEW Q, Q = mark_block_enter(P, key, len, inv, athrow)
    PROVE  /\ Sound(Q) /\ DOMAIN Q.eps = DOMAIN P.eps \cup {key}
           /\ Frames(Q) = Frames(P) \cup {P.sp} /\ P.sp \notin Frames(P)
<1>1. PICK t \in Nat : t = Top(P) /\ P.sp = t + 1
  BY TopTyped
<1>2. Frames(P) = 0..t /\ Q.sp = t + 2
  <2>1. Q.sp = P.sp + 1
    BY EnterFields DEF Entered
  <2>2. QED BY <1>1, <2>1 DEF Frames
<1>3. Frames(Q) = 0..t + 1
  BY <1>2 DEF Frames
<1>4. Frames(Q) = Frames(P) \cup {P.sp} /\ P.sp \notin Frames(P)
  BY <1>1, <1>2, <1>3
<1>5. PICK r : r = Registered(P, key, len)
  OBVIOUS
<1>6. PICK s : s = Pushed(P, key, inv, athrow)
  OBVIOUS
<1>7. r \in [DOMAIN P.eps \cup {key} -> Entry]
  BY <1>5, EnterEps DEF EpsOf
<1>8. /\ s \in [DOMAIN P.stack \cup {P.sp} -> FrameType]
      /\ \A i \in Frames(P) : SameBlock(P.stack[i], s[i])
      /\ s[P.sp].ep = key
  <2>1. StackOf(P, key, s)
    BY <1>6, EnterStack
  <2>2. QED BY <2>1 DEF StackOf
<1>9. Entered(P, Q, key, len, inv, athrow)
  BY EnterFields
<1>10. Q.eps = r /\ Q.stack = s
  BY <1>5, <1>6, <1>9 DEF Entered
<1>11. DOMAIN Q.eps = DOMAIN P.eps \cup {key} /\ DOMAIN Q.stack = DOMAIN P.stack \cup {P.sp}
  BY <1>7, <1>8, <1>10
<1>12. /\ P \in Profile /\ IsFiniteSet(DOMAIN P.eps) /\ IsFiniteSet(DOMAIN P.arcs)
       /\ Frames(P) \subseteq DOMAIN P.stack
       /\ P.stack[0].ep = P.program
       /\ \A i \in Frames(P) : P.stack[i].ep \in DOMAIN P.eps
  BY DEF Sound
<1>13. Q \in Profile
  <2>1. /\ DOMAIN P.eps \subseteq Points /\ DOMAIN P.stack \subseteq Nat
        /\ P.icount \in Nat /\ P.frozen \in BOOLEAN /\ P.enabled \in BOOLEAN
        /\ P.inclusive \in [Points -> Int] /\ P.under \in Nat /\ P.calls \in Nat
        /\ P.program \in Points
        /\ P.arcs \in UNION {[D -> Int] : D \in SUBSET (Points \X Points)}
    BY <1>12, ProfileTyped DEF Profile
  <2>2. Q.sp \in Nat /\ Q.calls \in Nat /\ P.sp \in Nat
    BY <1>1, <1>2, <1>9, <2>1 DEF Entered
  <2>3. Q.eps \in UNION {[D -> Entry] : D \in SUBSET Points}
    <3>1. DOMAIN P.eps \cup {key} \in SUBSET Points
      BY <2>1
    <3>2. QED BY <1>7, <1>10, <3>1
  <2>4. Q.stack \in UNION {[D -> FrameType] : D \in SUBSET Nat}
    <3>1. DOMAIN P.stack \cup {P.sp} \in SUBSET Nat
      BY <2>1, <2>2
    <3>2. QED BY <1>8, <1>10, <3>1
  <2>5. /\ Q.icount \in Nat /\ Q.frozen \in BOOLEAN /\ Q.enabled \in BOOLEAN
        /\ Q.inclusive \in [Points -> Int] /\ Q.program \in Points /\ Q.under \in Nat
        /\ Q.arcs \in UNION {[D -> Int] : D \in SUBSET (Points \X Points)}
    BY <1>9, <2>1 DEF Entered
  <2>6. QED BY <1>9, <2>2, <2>3, <2>4, <2>5 DEF Profile, Entered
<1>14. IsFiniteSet(DOMAIN Q.eps) /\ IsFiniteSet(DOMAIN Q.arcs)
  BY <1>9, <1>11, <1>12, FS_AddElement DEF Entered
<1>15. Frames(Q) \subseteq DOMAIN Q.stack
  BY <1>4, <1>11, <1>12
<1>16. Q.stack[0].ep = Q.program
  <2>1. 0 \in Frames(P)
    BY <1>2
  <2>2. QED BY <1>8, <1>9, <1>10, <1>12, <2>1 DEF SameBlock, Entered
<1>17. \A i \in Frames(Q) : Q.stack[i].ep \in DOMAIN Q.eps
  BY <1>4, <1>8, <1>10, <1>11, <1>12 DEF SameBlock
<1>18. Q.sp >= 1
  BY <1>2
<1>19. Sound(Q)
  BY <1>13, <1>14, <1>15, <1>16, <1>17, <1>18 DEF Sound
<1>20. QED BY <1>4, <1>11, <1>19

-----------------------------------------------------------------------------
(***************************************************************************)
(* The links between the frames of an entry point, without Min and Max.    *)
(***************************************************************************)
Linked(P) ==
    /\ \A e \in DOMAIN P.eps :
        P.eps[e].first # -1 => P.eps[e].first \in Frames(P) /\ P.stack[P.eps[e].first].ep = e
    /\ \A i \in Frames(P) :
        P.stack[i].next # -1 =>
            /\ P.stack[i].next \in Frames(P) /\ P.stack[i].next < i
            /\ P.stack[P.stack[i].next].ep = P.stack[i].ep
    /\ \A i \in Frames(P) :
        P.stack[i].ep # P.program =>
            P.eps[P.stack[i].ep].first # -1 /\ P.eps[P.stack[i].ep].first <= i
    /\ \A i, j \in Frames(P) :
        P.stack[i].ep # P.program /\ P.stack[j].ep = P.stack[i].ep /\ j < i =>
            P.stack[i].next # -1 /\ j <= P.stack[i].next

LEMMA EnterLinked ==
    ASSUME NEW P, Sound(P), Linked(P), ~P.frozen, NEW key \in Points, NEW len \in BOOLEAN,
           NEW inv \in BOOLEAN, NEW athrow \in BOOLEAN,
           NEW Q, Q = mark_block_enter(P, key, len, inv, athrow)
    PROVE  Linked(Q)
<1>1. PICK t \in Nat, sp \in Nat : t = Top(P) /\ P.sp = t + 1 /\ sp = P.sp
  BY TopTyped
<1>2. Frames(P) = 0..t /\ Frames(Q) = 0..sp /\ sp = t + 1
  <2>1. Q.sp = P.sp + 1
    BY EnterFields DEF Entered
  <2>2. QED BY <1>1, <2>1 DEF Frames
<1>3. PICK r : r = Registered(P, key, len)
  OBVIOUS
<1>4. PICK s : s = Pushed(P, key, inv, athrow)
  OBVIOUS
<1>5. Q.eps = r /\ Q.stack = s /\ Q.program = P.program
  BY <1>3, <1>4, EnterFields DEF Entered
<1>6. /\ DOMAIN r = DOMAIN P.eps \cup {key}
      /\ \A e \in DOMAIN P.eps :
             r[e].first = IF e = key /\ P.eps[e].first = -1 THEN sp ELSE P.eps[e].first
      /\ key \notin DOMAIN P.eps => r[key].first = sp
  <2>1. EpsOf(P, key, r)
    BY <1>3, EnterEps
  <2>2. QED BY <1>1, <2>1 DEF EpsOf
<1>7. /\ \A i \in Frames(P) : s[i].ep = P.stack[i].ep /\ s[i].next = P.stack[i].next
      /\ s[sp].ep = key /\ s[sp].next = NextOf(P, key)
  <2>1. StackOf(P, key, s)
    BY <1>4, EnterStack
  <2>2. QED BY <1>1, <2>1 DEF SameBlock, StackOf
<1>8. /\ NextOf(P, key) \in Int
      /\ NextOf(P, key) # -1 =>
            /\ NextOf(P, key) \in Frames(P) /\ P.stack[NextOf(P, key)].ep = key
            /\ \A j \in Frames(P) : P.stack[j].ep = key => j <= NextOf(P, key)
  BY BelowTyped DEF NextOf
<1>9. /\ \A i \in Frames(P) : P.stack[i].next \in Int /\ P.stack[i].ep \in DOMAIN P.eps
      /\ \A e \in DOMAIN P.eps : P.eps[e].first \in Int
  BY SoundTyped
<1>10. key # P.program /\ NextOf(P, key) = -1 => \A j \in Frames(P) : P.stack[j].ep # key
  <2>1. CASE Recursive(P, key)
    BY <2>1, BelowTyped DEF NextOf
  <2>2. CASE ~Recursive(P, key)
    BY <1>9, <2>2 DEF Recursive, Linked
  <2>3. QED BY <2>1, <2>2
<1>11. ASSUME NEW e \in DOMAIN Q.eps, Q.eps[e].first # -1
       PROVE  Q.eps[e].first \in Frames(Q) /\ Q.stack[Q.eps[e].first].ep = e
  <2>1. CASE e = key /\ (e \notin DOMAIN P.eps \/ P.eps[e].first = -1)
    <3>1. r[e].first = sp
      BY <1>6, <2>1
    <3>2. QED BY <1>2, <1>5, <1>7, <2>1, <3>1
  <2>2. CASE ~(e = key /\ (e \notin DOMAIN P.eps \/ P.eps[e].first = -1))
    <3>1. e \in DOMAIN P.eps /\ r[e].first = P.eps[e].first
      BY <1>5, <1>6, <2>2
    <3>2. P.eps[e].first \in Frames(P) /\ P.stack[P.eps[e].first].ep = e
      BY <1>5, <1>11, <3>1 DEF Linked
    <3>3. QED BY <1>2, <1>5, <1>7, <3>1, <3>2
  <2>3. QED BY <2>1, <2>2
<1>12. ASSUME NEW i \in Frames(Q), Q.stack[i].next # -1
       PROVE  /\ Q.stack[i].next \in Frames(Q) /\ Q.stack[i].next < i
              /\ Q.stack[Q.stack[i].next].ep = Q.stack[i].ep
  <2>1. CASE i = sp
    <3>1. NextOf(P, key) \in Frames(P) /\ P.stack[NextOf(P, key)].ep = key
          /\ s[i].next = NextOf(P, key)
      BY <1>5, <1>7, <1>8, <1>12, <2>1
    <3>2. QED BY <1>2, <1>5, <1>7, <2>1, <3>1
  <2>2. CASE i # sp
    <3>1. i \in Frames(P)
      BY <1>2, <2>2
    <3>2. P.stack[i].next \in Frames(P) /\ P.stack[i].next < i
          /\ P.stack[P.stack[i].next].ep = P.stack[i].ep
      BY <1>5, <1>7, <1>12, <3>1 DEF Linked
    <3>3. QED BY <1>2, <1>5, <1>7, <3>1, <3>2
  <2>3. QED BY <2>1, <2>2
<1>13. ASSUME NEW i \in Frames(Q), Q.stack[i].ep # Q.program
       PROVE  Q.eps[Q.stack[i].ep].first # -1 /\ Q.eps[Q.stack[i].ep].first <= i
  <2>1. CASE i = sp
    <3>1. Q.stack[i].ep = key
      BY <1>5, <1>7, <2>1
    <3>2. CASE key \in DOMAIN P.eps /\ P.eps[key].first # -1
      <4>1. r[key].first = P.eps[key].first /\ P.eps[key].first \in Frames(P)
        BY <1>6, <3>2 DEF Linked
      <4>2. QED BY <1>2, <1>5, <2>1, <3>1, <3>2, <4>1
    <3>3. CASE ~(key \in DOMAIN P.eps /\ P.eps[key].first # -1)
      <4>1. r[key].first = sp
        BY <1>6, <3>3
      <4>2. QED BY <1>5, <2>1, <3>1, <4>1
    <3>4. QED BY <3>2, <3>3
  <2>2. CASE i # sp
    <3>1. i \in Frames(P) /\ Q.stack[i].ep = P.stack[i].ep
      BY <1>2, <1>5, <1>7, <2>2
    <3>2. /\ P.eps[P.stack[i].ep].first # -1 /\ P.eps[P.stack[i].ep].first <= i
          /\ P.stack[i].ep \in DOMAIN P.eps
      BY <1>5, <1>9, <1>13, <3>1 DEF Linked
    <3>3. r[P.stack[i].ep].first = P.eps[P.stack[i].ep].first
      BY <1>6, <3>2
    <3>4. QED BY <1>5, <3>1, <3>2, <3>3
  <2>3. QED BY <2>1, <2>2
<1>14. ASSUME NEW i \in Frames(Q), NEW j \in Frames(Q), Q.stack[i].ep # Q.program,
              Q.stack[j].ep = Q.stack[i].ep, j < i
       PROVE  Q.stack[i].next # -1 /\ j <= Q.stack[i].next
  <2>1. j \in Frames(P) /\ Q.stack[j].ep = P.stack[j].ep
    BY <1>2, <1>5, <1>7, <1>14
  <2>2. CASE i = sp
    <3>1. Q.stack[i].ep = key /\ Q.stack[i].next = NextOf(P, key) /\ key # P.program
      BY <1>5, <1>7, <1>14, <2>2
    <3>2. P.stack[j].ep = key
      BY <1>14, <2>1, <3>1
    <3>3. NextOf(P, key) # -1
      BY <1>10, <2>1, <3>1, <3>2
    <3>4. QED BY <1>8, <2>1, <3>1, <3>2, <3>3
  <2>3. CASE i # sp
    <3>1. i \in Frames(P) /\ Q.stack[i].ep = P.stack[i].ep /\ Q.stack[i].next = P.stack[i].next
      BY <1>2, <1>5, <1>7, <2>3
    <3>2. P.stack[i].ep # P.program /\ P.stack[j].ep = P.stack[i].ep
      BY <1>5, <1>14, <2>1, <3>1
    <3>3. P.stack[i].next # -1 /\ j <= P.stack[i].next
      BY <1>14, <2>1, <3>1, <3>2 DEF Linked
    <3>4. QED BY <3>1, <3>3
  <2>4. QED BY <2>2, <2>3
<1>15. QED BY <1>11, <1>12, <1>13, <1>14 DEF Linked

LEMMA PopLinked ==
    ASSUME NEW P, Sound(P), Linked(P), NEW Q, Q = mark_block_exit_raw(P)
    PROVE  Linked(Q)
<1>1. PICK t \in Nat : t = Top(P)
  BY TopTyped
<1>2. /\ Frames(P) = 0..t /\ Frames(Q) = (IF t = 0 THEN {0} ELSE 0..t - 1)
      /\ DOMAIN Q.eps = DOMAIN P.eps
      /\ \A i \in Frames(Q) : i \in Frames(P) /\ i \in DOMAIN P.stack
      /\ t \in Frames(P) /\ P.stack[t] = TopFrame(P) /\ P.stack[t].ep \in DOMAIN P.eps
  BY <1>1, PopSound, TopTyped DEF TopFrame
<1>3. Q.program = P.program
  BY PopFields, Zenon
<1>4. \A i \in Frames(Q) : Q.stack[i].ep = P.stack[i].ep /\ Q.stack[i].next = P.stack[i].next
  BY <1>2, PopStack DEF SameBlock
<1>5. \A e \in DOMAIN P.eps :
        Q.eps[e].first = IF e = P.stack[t].ep /\ P.eps[e].first = t THEN -1 ELSE P.eps[e].first
  BY <1>1, <1>2, PopEps
<1>6. /\ \A i \in Frames(P) : P.stack[i].next \in Int /\ P.stack[i].ep \in DOMAIN P.eps
      /\ \A e \in DOMAIN P.eps : P.eps[e].first \in Int
  BY SoundTyped
<1>7. t = 0 => P.stack[0].ep = P.program
  BY DEF Sound
<1>8. ASSUME NEW e \in DOMAIN Q.eps, Q.eps[e].first # -1
      PROVE  Q.eps[e].first \in Frames(Q) /\ Q.stack[Q.eps[e].first].ep = e
  <2>1. e \in DOMAIN P.eps /\ Q.eps[e].first = P.eps[e].first /\ P.eps[e].first # -1
    BY <1>2, <1>5, <1>8
  <2>2. P.eps[e].first \in Frames(P) /\ P.stack[P.eps[e].first].ep = e
    BY <2>1 DEF Linked
  <2>3. P.eps[e].first # t
    BY <1>5, <1>8, <2>1, <2>2
  <2>4. P.eps[e].first \in Frames(Q)
    BY <1>2, <2>2, <2>3
  <2>5. QED BY <1>4, <2>1, <2>2, <2>4
<1>9. ASSUME NEW i \in Frames(Q), Q.stack[i].next # -1
      PROVE  /\ Q.stack[i].next \in Frames(Q) /\ Q.stack[i].next < i
             /\ Q.stack[Q.stack[i].next].ep = Q.stack[i].ep
  <2>1. i \in Frames(P) /\ Q.stack[i].next = P.stack[i].next /\ Q.stack[i].ep = P.stack[i].ep
    BY <1>2, <1>4
  <2>2. P.stack[i].next \in Frames(P) /\ P.stack[i].next < i
        /\ P.stack[P.stack[i].next].ep = P.stack[i].ep
    BY <1>9, <2>1 DEF Linked
  <2>3. P.stack[i].next \in Frames(Q)
    BY <1>2, <2>1, <2>2
  <2>4. QED BY <1>4, <2>1, <2>2, <2>3
<1>10. ASSUME NEW i \in Frames(Q), Q.stack[i].ep # Q.program
       PROVE  Q.eps[Q.stack[i].ep].first # -1 /\ Q.eps[Q.stack[i].ep].first <= i
  <2>1. i \in Frames(P) /\ Q.stack[i].ep = P.stack[i].ep /\ P.stack[i].ep # P.program
    BY <1>2, <1>3, <1>4, <1>10
  <2>2. PICK e \in DOMAIN P.eps : e = P.stack[i].ep
    BY <1>6, <2>1
  <2>3. P.eps[e].first # -1 /\ P.eps[e].first <= i
    BY <2>1, <2>2 DEF Linked
  <2>4. i # t
    <3>1. CASE t = 0
      BY <1>2, <1>7, <2>1, <3>1
    <3>2. CASE t # 0
      BY <1>2, <3>2
    <3>3. QED BY <3>1, <3>2
  <2>5. P.eps[e].first # t
    BY <1>2, <1>6, <2>1, <2>2, <2>3, <2>4
  <2>6. QED BY <1>5, <2>1, <2>2, <2>3, <2>5
<1>11. ASSUME NEW i \in Frames(Q), NEW j \in Frames(Q), Q.stack[i].ep # Q.program,
              Q.stack[j].ep = Q.stack[i].ep, j < i
       PROVE  Q.stack[i].next # -1 /\ j <= Q.stack[i].next
  <2>1. /\ i \in Frames(P) /\ Q.stack[i].ep = P.stack[i].ep /\ Q.stack[i].next = P.stack[i].next
        /\ j \in Frames(P) /\ Q.stack[j].ep = P.stack[j].ep
    BY <1>2, <1>4
  <2>2. P.stack[i].ep # P.program /\ P.stack[j].ep = P.stack[i].ep
    BY <1>3, <1>11, <2>1
  <2>3. P.stack[i].next # -1 /\ j <= P.stack[i].next
    BY <1>11, <2>1, <2>2 DEF Linked
  <2>4. QED BY <2>1, <2>3
<1>12. QED BY <1>8, <1>9, <1>10, <1>11 DEF Linked

(* With Min and Max, as the property says it.                              *)
LinksOf(P, e, of) ==
    /\ P.eps[e].first = (IF of = {} THEN -1 ELSE Min(of))
    /\ \A i \in of :
        LET below == {j \in of : j < i}
        IN  P.stack[i].next = (IF below = {} THEN -1 ELSE Max(below))

LEMMA LinkedMeans ==
    ASSUME NEW P, Sound(P), Linked(P), NEW e \in DOMAIN P.eps \ {P.program},
           NEW of, of = {i \in Frames(P) : P.stack[i].ep = e}
    PROVE  LinksOf(P, e, of)
<1>1. PICK t \in Nat : Frames(P) = 0..t
  BY TopTyped DEF Frames
<1>2. of \subseteq 0..t /\ \A i \in of : i \in Frames(P) /\ P.stack[i].ep = e /\ i \in Int
  BY <1>1
<1>3. P.eps[e].first \in Int
  BY SoundTyped
<1>4. P.eps[e].first # -1 => P.eps[e].first \in of
  BY DEF Linked
<1>5. \A i \in of : P.eps[e].first # -1 /\ P.eps[e].first <= i
  BY <1>2 DEF Linked
<1>6. ASSUME of # {} PROVE P.eps[e].first = Min(of)
  <2>1. PICK m : m = Min(of)
    OBVIOUS
  <2>2. m \in of /\ \A y \in of : m <= y
    BY <1>2, <1>6, <2>1, MinOf
  <2>3. m \in Int /\ P.eps[e].first <= m /\ P.eps[e].first \in of
    BY <1>2, <1>4, <1>5, <2>2
  <2>4. QED BY <1>3, <2>1, <2>2, <2>3
<1>7. ASSUME NEW i \in of, NEW below, below = {j \in of : j < i}
      PROVE  P.stack[i].next = (IF below = {} THEN -1 ELSE Max(below))
  <2>1. /\ i \in Frames(P) /\ P.stack[i].ep = e /\ i \in Int /\ P.stack[i].next \in Int
        /\ e # P.program
    BY <1>2, SoundTyped
  <2>2. P.stack[i].next # -1 => P.stack[i].next \in below
    BY <1>7, <2>1 DEF Linked
  <2>3. \A j \in below : P.stack[i].next # -1 /\ j <= P.stack[i].next
    <3>1. ASSUME NEW j \in below PROVE P.stack[i].next # -1 /\ j <= P.stack[i].next
      <4>1. j \in Frames(P) /\ P.stack[j].ep = e /\ j < i
        BY <1>2, <1>7
      <4>2. QED BY <2>1, <4>1 DEF Linked
    <3>2. QED BY <3>1
  <2>4. CASE below = {}
    BY <2>2, <2>4
  <2>5. CASE below # {}
    <3>1. below \subseteq 0..t
      BY <1>2, <1>7
    <3>2. PICK m : m = Max(below)
      OBVIOUS
    <3>3. m \in below /\ \A y \in below : m >= y
      BY <2>5, <3>1, <3>2, MaxOf
    <3>4. P.stack[i].next \in below /\ m <= P.stack[i].next /\ m >= P.stack[i].next
      BY <2>2, <2>3, <2>5, <3>3
    <3>5. m \in Int
      BY <3>1, <3>3
    <3>6. QED BY <2>1, <2>5, <3>2, <3>4, <3>5
  <2>6. QED BY <2>4, <2>5
<1>8. of = {} => P.eps[e].first = -1
  BY <1>4
<1>9. QED BY <1>6, <1>7, <1>8 DEF LinksOf

-----------------------------------------------------------------------------
(***************************************************************************)
(* Self counts.                                                            *)
(***************************************************************************)
SelfOf(P) == [e \in DOMAIN P.eps |-> P.eps[e].self]
LiveOf(P) == [i \in Frames(P) |-> LiveSelf(P, i)]

LEMMA FramesFinite == ASSUME NEW P, Sound(P) PROVE IsFiniteSet(Frames(P))
<1>1. PICK t \in Nat : Frames(P) = 0..t
  BY TopTyped DEF Frames
<1>2. QED BY <1>1, FS_Interval

LEMMA SelfTotalIs ==
    ASSUME NEW P, Sound(P)
    PROVE  /\ SelfTotal(P) = SumFunctionOnSet(SelfOf(P), DOMAIN P.eps)
                                + SumFunctionOnSet(LiveOf(P), Frames(P))
           /\ \A e \in DOMAIN P.eps : SelfOf(P)[e] \in Int /\ SelfOf(P)[e] = P.eps[e].self
           /\ \A i \in Frames(P) : LiveOf(P)[i] \in Int /\ LiveOf(P)[i] = LiveSelf(P, i)
           /\ SumFunctionOnSet(SelfOf(P), DOMAIN P.eps) \in Int
           /\ SumFunctionOnSet(LiveOf(P), Frames(P)) \in Int
           /\ LiveSelf(P, Top(P)) = OwnTime(P)
<1>1. \A e \in DOMAIN P.eps : SelfOf(P)[e] \in Int /\ SelfOf(P)[e] = P.eps[e].self
  BY SoundTyped DEF SelfOf
<1>2. ASSUME NEW i \in Frames(P) PROVE LiveOf(P)[i] \in Int /\ LiveOf(P)[i] = LiveSelf(P, i)
  <2>1. P.stack[i].self \in Int /\ P.stack[i].beginSelf \in Int /\ P.icount \in Int
    BY SoundTyped
  <2>2. LiveSelf(P, i) \in Int
    BY <2>1 DEF LiveSelf
  <2>3. QED BY <2>2 DEF LiveOf
<1>3. IsFiniteSet(DOMAIN P.eps) /\ IsFiniteSet(Frames(P))
  BY FramesFinite DEF Sound
<1>4. SumFunctionOnSet(SelfOf(P), DOMAIN P.eps) \in Int
  BY <1>1, <1>3, SumInt
<1>5. SumFunctionOnSet(LiveOf(P), Frames(P)) \in Int
  BY <1>2, <1>3, SumInt
<1>6. DOMAIN SelfOf(P) = DOMAIN P.eps /\ DOMAIN LiveOf(P) = Frames(P)
  BY DEF SelfOf, LiveOf
<1>7. SelfTotal(P) = SumFunction(SelfOf(P)) + SumFunction(LiveOf(P))
  BY DEF SelfTotal, SelfOf, LiveOf
<1>8. SelfTotal(P) = SumFunctionOnSet(SelfOf(P), DOMAIN P.eps)
                        + SumFunctionOnSet(LiveOf(P), Frames(P))
  BY <1>6, <1>7 DEF SumFunction
<1>9. LiveSelf(P, Top(P)) = OwnTime(P)
  BY DEF LiveSelf, OwnTime, TopFrame, Top
<1>10. QED BY <1>1, <1>2, <1>4, <1>5, <1>8, <1>9

LEMMA PopSelf ==
    ASSUME NEW P, Sound(P), Top(P) # 0, NEW Q, Q = mark_block_exit_raw(P)
    PROVE  SelfTotal(Q) = SelfTotal(P)
<1>1. PICK t \in Nat, own \in Int, x \in DOMAIN P.eps :
         t = Top(P) /\ own = OwnTime(P) /\ x = TopFrame(P).ep
  BY TopTyped
<1>2. t > 0 /\ P.sp = t + 1 /\ Q.sp = t /\ Q.icount = P.icount
  <2>1. Q.sp = t /\ P.sp = t + 1
    BY <1>1, PopSound, TopTyped
  <2>2. Q.icount = P.icount
    BY PopFields, Zenon
  <2>3. QED BY <1>1, <2>1, <2>2
<1>3. Sound(Q) /\ DOMAIN Q.eps = DOMAIN P.eps /\ Frames(P) = 0..t /\ Frames(Q) = 0..t - 1
  BY <1>1, PopSound
<1>4. SumFunctionOnSet(SelfOf(Q), DOMAIN P.eps) = SumFunctionOnSet(SelfOf(P), DOMAIN P.eps) + own
  <2>1. PICK f, g, D : f = SelfOf(P) /\ g = SelfOf(Q) /\ D = DOMAIN P.eps
    OBVIOUS
  <2>2. \A e \in D : f[e] \in Int /\ f[e] = P.eps[e].self /\ g[e] \in Int /\ g[e] = Q.eps[e].self
    BY <1>3, <2>1, SelfTotalIs
  <2>3. \A e \in D : Q.eps[e].self = P.eps[e].self + (IF e = x THEN own ELSE 0)
    BY <1>1, <2>1, PopEps
  <2>4. x \in D /\ IsFiniteSet(D)
    BY <1>1, <2>1 DEF Sound
  <2>5. \A e \in D : f[e] \in Int /\ g[e] \in Int /\ (e # x => g[e] = f[e])
    BY <2>2, <2>3
  <2>6. g[x] = f[x] + own /\ f[x] \in Int
    BY <2>2, <2>3, <2>4
  <2>7. SumFunctionOnSet(g, D) = SumFunctionOnSet(f, D) + (g[x] - f[x])
    BY <2>4, <2>5, SumChange
  <2>8. g[x] - f[x] = own
    BY <2>6
  <2>9. QED BY <2>1, <2>7, <2>8
<1>5. SumFunctionOnSet(LiveOf(P), Frames(P)) = own + SumFunctionOnSet(LiveOf(Q), Frames(Q))
  <2>1. PICK f, g, S, R : /\ f = LiveOf(P) /\ g = LiveOf(Q) /\ S = Frames(P) /\ R = Frames(Q)
    OBVIOUS
  <2>2. IsFiniteSet(S) /\ IsFiniteSet(R) /\ t \in S /\ R = S \ {t}
    BY <1>2, <1>3, <2>1, FramesFinite
  <2>3. \A i \in S : f[i] \in Int /\ f[i] = LiveSelf(P, i)
    BY <2>1, SelfTotalIs
  <2>4. \A i \in R : g[i] \in Int /\ g[i] = LiveSelf(Q, i)
    BY <1>3, <2>1, SelfTotalIs
  <2>5. f[t] = own
    BY <1>1, <2>2, <2>3, SelfTotalIs
  <2>6. ASSUME NEW i \in R PROVE f[i] \in Int /\ f[i] = g[i]
    <3>1. i \in Frames(P) /\ i \in Int /\ i < t /\ i \in DOMAIN P.stack
      BY <1>2, <1>3, <2>1, PopSound
    <3>2. /\ Q.stack[i].self = P.stack[i].self
          /\ i = t - 1 => Q.stack[i].beginSelf = P.icount
      BY <1>1, <1>2, <3>1, PopStack
    <3>3. P.stack[i].self \in Int /\ P.icount \in Int
      BY <3>1, SoundTyped
    <3>4. LiveSelf(P, i) = P.stack[i].self
      BY <1>2, <3>1, <3>3 DEF LiveSelf
    <3>5. LiveSelf(Q, i) = P.stack[i].self
      BY <1>2, <3>1, <3>2, <3>3 DEF LiveSelf
    <3>6. QED BY <2>2, <2>3, <2>4, <3>3, <3>4, <3>5
  <2>7. SumFunctionOnSet(f, S) = f[t] + SumFunctionOnSet(f, S \ {t})
    BY <2>2, <2>3, SumRemove
  <2>8. SumFunctionOnSet(f, R) = SumFunctionOnSet(g, R)
    BY <2>2, <2>6, SumSame
  <2>9. QED BY <2>1, <2>2, <2>5, <2>7, <2>8
<1>6. PICK a \in Int, b \in Int, c \in Int, d \in Int :
         /\ a = SumFunctionOnSet(SelfOf(P), DOMAIN P.eps)
         /\ b = SumFunctionOnSet(LiveOf(P), Frames(P))
         /\ c = SumFunctionOnSet(SelfOf(Q), DOMAIN P.eps)
         /\ d = SumFunctionOnSet(LiveOf(Q), Frames(Q))
  BY <1>3, SelfTotalIs
<1>7. SelfTotal(P) = a + b /\ SelfTotal(Q) = c + d
  BY <1>3, <1>6, SelfTotalIs
<1>8. c = a + own /\ b = own + d
  BY <1>4, <1>5, <1>6
<1>9. QED BY <1>7, <1>8

LEMMA EnterSelf ==
    ASSUME NEW P, Sound(P), ~P.frozen, NEW key \in Points, NEW len \in BOOLEAN,
           NEW inv \in BOOLEAN, NEW athrow \in BOOLEAN,
           NEW Q, Q = mark_block_enter(P, key, len, inv, athrow)
    PROVE  SelfTotal(Q) = SelfTotal(P)
<1>1. PICK t \in Nat, own \in Int, sp \in Nat :
         t = Top(P) /\ own = OwnTime(P) /\ sp = P.sp /\ sp = t + 1
  BY TopTyped
<1>2. Entered(P, Q, key, len, inv, athrow)
  BY EnterFields
<1>3. /\ Sound(Q) /\ DOMAIN Q.eps = DOMAIN P.eps \cup {key}
      /\ Frames(Q) = Frames(P) \cup {P.sp} /\ P.sp \notin Frames(P)
  BY EnterSound
<1>4. PICK r, s : r = Q.eps /\ s = Q.stack
  OBVIOUS
<1>5. EpsOf(P, key, r)
  <2>1. r = Registered(P, key, len)
    BY <1>2, <1>4 DEF Entered
  <2>2. QED BY <2>1, EnterEps
<1>6. StackOf(P, key, s)
  <2>1. s = Pushed(P, key, inv, athrow)
    BY <1>2, <1>4 DEF Entered
  <2>2. QED BY <2>1, EnterStack
<1>7. SumFunctionOnSet(SelfOf(Q), DOMAIN Q.eps) = SumFunctionOnSet(SelfOf(P), DOMAIN P.eps)
  <2>1. PICK f, g, D : f = SelfOf(P) /\ g = SelfOf(Q) /\ D = DOMAIN P.eps
    OBVIOUS
  <2>2. \A e \in D \cup {key} : g[e] \in Int /\ g[e] = r[e].self
    BY <1>3, <1>4, <2>1, SelfTotalIs
  <2>3. \A e \in D : f[e] \in Int /\ f[e] = g[e] /\ g[e] = f[e]
    BY <1>5, <2>1, <2>2, SelfTotalIs DEF EpsOf
  <2>4. IsFiniteSet(D)
    BY <2>1 DEF Sound
  <2>5. CASE key \in D
    <3>1. D \cup {key} = D
      BY <2>5
    <3>2. SumFunctionOnSet(f, D) = SumFunctionOnSet(g, D)
      BY <2>3, <2>4, SumSame
    <3>3. QED BY <1>3, <2>1, <3>1, <3>2
  <2>6. CASE key \notin D
    <3>1. g[key] = 0
      BY <1>5, <2>1, <2>2, <2>6 DEF EpsOf
    <3>2. g[key] \in Int
      BY <3>1
    <3>3. SumFunctionOnSet(g, D \cup {key}) = SumFunctionOnSet(f, D) + g[key]
      BY <2>3, <2>4, <2>6, <3>2, SumAdd
    <3>4. SumFunctionOnSet(f, D) \in Int
      BY <2>1, SelfTotalIs
    <3>5. QED BY <1>3, <2>1, <3>1, <3>3, <3>4
  <2>7. QED BY <2>5, <2>6
<1>8. SumFunctionOnSet(LiveOf(Q), Frames(Q)) = SumFunctionOnSet(LiveOf(P), Frames(P))
  <2>1. PICK f, g, S : f = LiveOf(P) /\ g = LiveOf(Q) /\ S = Frames(P)
    OBVIOUS
  <2>2. IsFiniteSet(S) /\ sp \notin S /\ Frames(Q) = S \cup {sp}
    BY <1>1, <1>3, <2>1, FramesFinite
  <2>3. \A i \in S : f[i] \in Int /\ f[i] = LiveSelf(P, i)
    BY <2>1, SelfTotalIs
  <2>4. \A i \in S \cup {sp} : g[i] \in Int /\ g[i] = LiveSelf(Q, i)
    BY <1>3, <2>1, <2>2, SelfTotalIs
  <2>5. Q.sp = sp + 1 /\ Q.icount = P.icount /\ P.icount \in Int
    BY <1>1, <1>2, SoundTyped DEF Entered
  <2>6. g[sp] = 0
    <3>1. s[sp].self = 0 /\ s[sp].beginSelf = P.icount
      BY <1>1, <1>6 DEF StackOf
    <3>2. LiveSelf(Q, sp) = 0
      BY <1>4, <2>5, <3>1 DEF LiveSelf
    <3>3. QED BY <2>4, <3>2
  <2>7. ASSUME NEW i \in S PROVE f[i] \in Int /\ g[i] = f[i]
    <3>1. i \in Int /\ i < sp /\ i \in Frames(P)
      <4>1. i \in Frames(P)
        BY <2>1
      <4>2. Frames(P) = 0..t
        BY <1>1 DEF Frames
      <4>3. QED BY <1>1, <4>1, <4>2
    <3>2. s[i].self = IF i = t THEN own ELSE P.stack[i].self
      BY <1>1, <1>6, <3>1 DEF StackOf
    <3>3. P.stack[i].self \in Int
      BY <3>1, SoundTyped
    <3>4. LiveSelf(Q, i) = s[i].self
      BY <1>1, <1>4, <2>5, <3>1, <3>2, <3>3 DEF LiveSelf
    <3>5. CASE i = t
      BY <1>1, <2>3, <2>4, <3>2, <3>4, <3>5, SelfTotalIs
    <3>6. CASE i # t
      <4>1. LiveSelf(P, i) = P.stack[i].self
        BY <1>1, <3>3, <3>6 DEF LiveSelf
      <4>2. QED BY <2>3, <2>4, <3>2, <3>4, <3>6, <4>1
    <3>7. QED BY <3>5, <3>6
  <2>8. SumFunctionOnSet(g, S \cup {sp}) = SumFunctionOnSet(f, S) + g[sp]
    <3>1. g[sp] \in Int
      BY <2>6
    <3>2. QED BY <2>2, <2>7, <3>1, SumAdd
  <2>9. SumFunctionOnSet(f, S) \in Int
    BY <2>1, SelfTotalIs
  <2>10. QED BY <2>1, <2>2, <2>6, <2>8, <2>9
<1>9. QED BY <1>3, <1>7, <1>8, SelfTotalIs

-----------------------------------------------------------------------------
(***************************************************************************)
(* Totals.                                                                 *)
(***************************************************************************)
FramesOf(P, e) == {i \in Frames(P) : P.stack[i].ep = e}

\* What frame i will add to the total of its entry point.
Term(P, i) ==
    (IF P.stack[i].next = -1 THEN P.icount - P.stack[i].begin ELSE 0) - P.stack[i].correction

TermsOf(P, e) == [i \in FramesOf(P, e) |-> Term(P, i)]

LEMMA LiveTotalIs ==
    ASSUME NEW P, Sound(P), NEW e
    PROVE  /\ LiveTotal(P, e) = SumFunctionOnSet(TermsOf(P, e), FramesOf(P, e))
           /\ LiveTotal(P, e) \in Int
           /\ IsFiniteSet(FramesOf(P, e))
           /\ \A i \in FramesOf(P, e) :
                /\ TermsOf(P, e)[i] = Term(P, i) /\ TermsOf(P, e)[i] \in Int /\ Term(P, i) \in Int
                /\ i \in Frames(P) /\ P.stack[i].ep = e
<1>1. ASSUME NEW i \in FramesOf(P, e)
      PROVE  /\ TermsOf(P, e)[i] = Term(P, i) /\ TermsOf(P, e)[i] \in Int /\ Term(P, i) \in Int
             /\ i \in Frames(P) /\ P.stack[i].ep = e
  <2>1. i \in Frames(P) /\ P.stack[i].ep = e
    BY DEF FramesOf
  <2>2. P.stack[i].begin \in Int /\ P.stack[i].correction \in Int /\ P.icount \in Int
    BY <2>1, SoundTyped
  <2>3. Term(P, i) \in Int
    BY <2>2 DEF Term
  <2>4. TermsOf(P, e)[i] = Term(P, i)
    BY DEF TermsOf
  <2>5. QED BY <2>1, <2>3, <2>4
<1>2. IsFiniteSet(FramesOf(P, e))
  <2>1. FramesOf(P, e) \in SUBSET Frames(P)
    BY DEF FramesOf
  <2>2. QED BY <2>1, FramesFinite, FS_Subset
<1>3. DOMAIN TermsOf(P, e) = FramesOf(P, e)
  BY DEF TermsOf
<1>4. LiveTotal(P, e) = SumFunction(TermsOf(P, e))
  BY DEF LiveTotal, TermsOf, Term, FramesOf
<1>5. LiveTotal(P, e) = SumFunctionOnSet(TermsOf(P, e), FramesOf(P, e))
  BY <1>3, <1>4 DEF SumFunction
<1>6. SumFunctionOnSet(TermsOf(P, e), FramesOf(P, e)) \in Int
  BY <1>1, <1>2, SumInt
<1>7. QED BY <1>1, <1>2, <1>5, <1>6

\* The total given to an entry point so far.
Given(P, e) == IF e \in DOMAIN P.eps THEN P.eps[e].total ELSE 0

TotalsRight(P) ==
    \A e \in Points \ {P.program} : Given(P, e) + LiveTotal(P, e) = P.inclusive[e]

LEMMA SameLiveTotal ==
    ASSUME NEW P, Sound(P), NEW Q, Sound(Q), NEW e, FramesOf(Q, e) = FramesOf(P, e),
           \A i \in FramesOf(P, e) : Term(Q, i) = Term(P, i)
    PROVE  LiveTotal(Q, e) = LiveTotal(P, e)
<1>1. PICK f, g, S : f = TermsOf(P, e) /\ g = TermsOf(Q, e) /\ S = FramesOf(P, e)
  OBVIOUS
<1>2. IsFiniteSet(S) /\ \A i \in S : f[i] \in Int /\ f[i] = g[i]
  BY <1>1, LiveTotalIs
<1>3. SumFunctionOnSet(f, S) = SumFunctionOnSet(g, S)
  BY <1>2, SumSame
<1>4. QED BY <1>1, <1>3, LiveTotalIs

LEMMA GivenInt == ASSUME NEW P, Sound(P), NEW e PROVE Given(P, e) \in Int
  BY SoundTyped DEF Given

LEMMA PopTotals ==
    ASSUME NEW P, Sound(P), Linked(P), TotalsRight(P), NEW Q, Q = mark_block_exit_raw(P)
    PROVE  TotalsRight(Q)
<1>1. PICK t \in Nat, c \in Int, m \in Int, x \in DOMAIN P.eps, n \in Int, now \in Int :
         /\ t = Top(P) /\ c = Charged(P) /\ m = Mine(P) /\ x = TopFrame(P).ep
         /\ n = TopFrame(P).next /\ now = P.icount
  BY TopTyped, FrameFields
<1>2. /\ Sound(Q) /\ DOMAIN Q.eps = DOMAIN P.eps /\ Frames(P) = 0..t
      /\ Frames(Q) = (IF t = 0 THEN {0} ELSE 0..t - 1)
      /\ \A i \in Frames(Q) : i \in Frames(P) /\ i \in DOMAIN P.stack
  BY <1>1, PopSound
<1>3. Q.inclusive = P.inclusive /\ Q.program = P.program /\ Q.icount = P.icount
  BY PopFields, Zenon
<1>4. /\ t \in Frames(P) /\ P.stack[t].ep = x /\ P.stack[t].next = n
      /\ t = 0 => x = P.program
  BY <1>1, TopTyped DEF TopFrame, Sound
<1>5. \A i \in Frames(Q) :
         /\ Q.stack[i].ep = P.stack[i].ep /\ Q.stack[i].next = P.stack[i].next
         /\ Q.stack[i].begin = IF t = 0 /\ i = 0 THEN now ELSE P.stack[i].begin
         /\ Q.stack[i].correction = P.stack[i].correction + (IF i = n /\ n # -1 THEN m ELSE 0)
  BY <1>1, <1>2, PopStack DEF SameBlock
<1>6. n # -1 => n \in Frames(P) /\ n < t /\ P.stack[n].ep = x
  BY <1>4 DEF Linked
<1>7. \A e \in DOMAIN P.eps : Q.eps[e].total = P.eps[e].total + (IF e = x THEN c ELSE 0)
  BY <1>1, PopEps
<1>8. \A i \in Frames(P) : /\ P.stack[i].begin \in Int /\ P.stack[i].correction \in Int
                           /\ P.stack[i].next \in Int
  BY SoundTyped
<1>9. ASSUME NEW e \in Points \ {P.program}, e # x
      PROVE  Given(Q, e) = Given(P, e) /\ LiveTotal(Q, e) = LiveTotal(P, e)
  <2>1. FramesOf(Q, e) = FramesOf(P, e)
    <3>1. CASE t = 0
      BY <1>2, <1>4, <1>5, <1>9, <3>1 DEF FramesOf
    <3>2. CASE t # 0
      <4>1. \A i \in Frames(P) : i = t \/ i \in Frames(Q)
        BY <1>2, <3>2
      <4>2. QED BY <1>2, <1>4, <1>5, <1>9, <4>1 DEF FramesOf
    <3>3. QED BY <3>1, <3>2
  <2>2. ASSUME NEW i \in FramesOf(P, e) PROVE Term(Q, i) = Term(P, i)
    <3>1. i \in Frames(Q) /\ P.stack[i].ep = e /\ i \in Frames(P)
      BY <2>1, <2>2 DEF FramesOf
    <3>2. i # n \/ n = -1
      BY <1>6, <1>9, <3>1
    <3>3. ~(t = 0 /\ i = 0)
      BY <1>4, <1>9, <3>1
    <3>4. Q.stack[i].begin = P.stack[i].begin /\ Q.stack[i].correction = P.stack[i].correction
          /\ Q.stack[i].next = P.stack[i].next
      BY <1>5, <1>8, <3>1, <3>2, <3>3
    <3>5. QED BY <1>3, <3>4 DEF Term
  <2>3. LiveTotal(Q, e) = LiveTotal(P, e)
    BY <1>2, <2>1, <2>2, SameLiveTotal
  <2>4. Given(Q, e) = Given(P, e)
    <3>1. e \in DOMAIN P.eps => P.eps[e].total \in Int
      BY SoundTyped
    <3>2. QED BY <1>2, <1>7, <1>9, <3>1 DEF Given
  <2>5. QED BY <2>3, <2>4
<1>10. ASSUME x # P.program
       PROVE  /\ Given(Q, x) = Given(P, x) + c
              /\ LiveTotal(P, x) = LiveTotal(Q, x) + c
  <2>1. t > 0 /\ Frames(Q) = 0..t - 1
    BY <1>2, <1>4, <1>10
  <2>2. FramesOf(Q, x) = FramesOf(P, x) \ {t} /\ t \in FramesOf(P, x)
    <3>1. Frames(Q) = Frames(P) \ {t}
      BY <1>2, <2>1
    <3>2. QED BY <1>4, <1>5, <3>1 DEF FramesOf
  <2>3. PICK f, g, S, R : /\ f = TermsOf(P, x) /\ g = TermsOf(Q, x) /\ S = FramesOf(P, x)
                          /\ R = FramesOf(Q, x)
    OBVIOUS
  <2>4. /\ IsFiniteSet(S) /\ IsFiniteSet(R) /\ R = S \ {t} /\ t \in S
        /\ \A i \in S : f[i] \in Int /\ f[i] = Term(P, i) /\ i \in Frames(P)
        /\ \A i \in R : g[i] \in Int /\ g[i] = Term(Q, i) /\ i \in Frames(Q) /\ f[i] \in Int
    <3>1. R = S \ {t} /\ t \in S
      BY <2>2, <2>3
    <3>2. /\ IsFiniteSet(S)
          /\ \A i \in S : f[i] \in Int /\ f[i] = Term(P, i) /\ i \in Frames(P)
      BY <2>3, LiveTotalIs
    <3>3. /\ IsFiniteSet(R)
          /\ \A i \in R : g[i] \in Int /\ g[i] = Term(Q, i) /\ i \in Frames(Q)
      BY <1>2, <2>3, LiveTotalIs
    <3>4. QED BY <3>1, <3>2, <3>3
  <2>5. SumFunctionOnSet(f, S) = f[t] + SumFunctionOnSet(f, R)
    BY <2>4, SumRemove
  <2>6. \A i \in R : g[i] = IF i = n /\ n # -1 THEN f[i] - m ELSE f[i]
    <3>1. ASSUME NEW i \in R PROVE g[i] = IF i = n /\ n # -1 THEN f[i] - m ELSE f[i]
      <4>1. i \in Frames(P) /\ i \in Frames(Q) /\ f[i] = Term(P, i) /\ g[i] = Term(Q, i)
        BY <2>4
      <4>2. Q.stack[i].begin = P.stack[i].begin /\ Q.stack[i].next = P.stack[i].next
            /\ Q.stack[i].correction = P.stack[i].correction + (IF i = n /\ n # -1 THEN m ELSE 0)
        BY <1>5, <2>1, <4>1
      <4>3. P.stack[i].begin \in Int /\ P.stack[i].correction \in Int
            /\ Q.icount = now /\ P.icount = now
        BY <1>1, <1>3, <1>8, <4>1
      <4>4. QED BY <4>1, <4>2, <4>3 DEF Term
    <3>2. QED BY <3>1
  <2>7. /\ f[t] = (IF n = -1 THEN m ELSE 0) - P.stack[t].correction
        /\ c = m - P.stack[t].correction /\ P.stack[t].correction \in Int
    <3>1. f[t] = Term(P, t)
      BY <2>4
    <3>2. m = P.icount - P.stack[t].begin /\ c = m - P.stack[t].correction
      BY <1>1 DEF Mine, Charged, TopFrame
    <3>3. QED BY <1>4, <1>8, <3>1, <3>2 DEF Term
  <2>8. PICK a \in Int, b \in Int : a = SumFunctionOnSet(f, R) /\ b = SumFunctionOnSet(g, R)
    BY <2>4, SumInt
  <2>9. a = b + (IF n = -1 THEN 0 ELSE m)
    <3>1. CASE n = -1
      <4>1. \A i \in R : f[i] \in Int /\ f[i] = g[i]
        BY <2>4, <2>6, <3>1
      <4>2. a = b
        BY <2>4, <2>8, <4>1, SumSame
      <4>3. QED BY <2>8, <3>1, <4>2
    <3>2. CASE n # -1
      <4>1. n \in R
        BY <1>6, <2>3, <2>4, <3>2 DEF FramesOf
      <4>2. \A i \in R : f[i] \in Int /\ g[i] \in Int /\ (i # n => g[i] = f[i])
        BY <2>4, <2>6
      <4>3. SumFunctionOnSet(g, R) = SumFunctionOnSet(f, R) + (g[n] - f[n])
        <5>1. IsFiniteSet(R)
          BY <2>4
        <5>2. PICK k \in R : k = n
          BY <4>1
        <5>3. \A i \in R : f[i] \in Int /\ g[i] \in Int /\ (i # k => g[i] = f[i])
          BY <4>2, <5>2
        <5>4. SumFunctionOnSet(g, R) = SumFunctionOnSet(f, R) + (g[k] - f[k])
          BY <5>1, <5>3, SumChange
        <5>5. QED BY <5>2, <5>4
      <4>4. g[n] = f[n] - m /\ f[n] \in Int
        BY <2>4, <2>6, <3>2, <4>1
      <4>5. QED BY <1>1, <2>8, <3>2, <4>3, <4>4
    <3>3. QED BY <3>1, <3>2
  <2>10. LiveTotal(P, x) = f[t] + a /\ LiveTotal(Q, x) = b
    BY <1>2, <2>3, <2>5, <2>8, LiveTotalIs
  <2>11. LiveTotal(P, x) = LiveTotal(Q, x) + c
    BY <1>1, <2>7, <2>8, <2>9, <2>10
  <2>12. Given(Q, x) = Given(P, x) + c
    BY <1>1, <1>2, <1>7 DEF Given
  <2>13. QED BY <2>11, <2>12
<1>11. ASSUME NEW e \in Points \ {Q.program}
       PROVE  Given(Q, e) + LiveTotal(Q, e) = Q.inclusive[e]
  <2>1. e # P.program /\ Given(P, e) + LiveTotal(P, e) = P.inclusive[e]
    BY <1>3 DEF TotalsRight
  <2>2. /\ Given(P, e) \in Int /\ Given(Q, e) \in Int
        /\ LiveTotal(P, e) \in Int /\ LiveTotal(Q, e) \in Int
    BY <1>2, GivenInt, LiveTotalIs
  <2>3. Q.inclusive[e] = P.inclusive[e]
    BY <1>3
  <2>4. CASE e = x
    BY <1>1, <1>10, <2>1, <2>2, <2>3, <2>4
  <2>5. CASE e # x
    BY <1>3, <1>9, <2>1, <2>2, <2>3, <2>5
  <2>6. QED BY <2>4, <2>5
<1>12. QED BY <1>11 DEF TotalsRight

LEMMA EnterTotals ==
    ASSUME NEW P, Sound(P), TotalsRight(P), ~P.frozen, NEW key \in Points, NEW len \in BOOLEAN,
           NEW inv \in BOOLEAN, NEW athrow \in BOOLEAN,
           NEW Q, Q = mark_block_enter(P, key, len, inv, athrow)
    PROVE  TotalsRight(Q)
<1>1. PICK t \in Nat, sp \in Nat, now \in Int :
         t = Top(P) /\ sp = P.sp /\ sp = t + 1 /\ now = P.icount
  BY TopTyped
<1>2. Entered(P, Q, key, len, inv, athrow)
  BY EnterFields
<1>3. /\ Sound(Q) /\ DOMAIN Q.eps = DOMAIN P.eps \cup {key}
      /\ Frames(Q) = Frames(P) \cup {P.sp} /\ P.sp \notin Frames(P)
  BY EnterSound
<1>4. PICK r, s : r = Q.eps /\ s = Q.stack
  OBVIOUS
<1>5. EpsOf(P, key, r)
  <2>1. r = Registered(P, key, len)
    BY <1>2, <1>4 DEF Entered
  <2>2. QED BY <2>1, EnterEps
<1>6. StackOf(P, key, s)
  <2>1. s = Pushed(P, key, inv, athrow)
    BY <1>2, <1>4 DEF Entered
  <2>2. QED BY <2>1, EnterStack
<1>7. Q.icount = now /\ Q.inclusive = P.inclusive /\ Q.program = P.program
  BY <1>1, <1>2 DEF Entered
<1>8. \A i \in Frames(P) :
        /\ i \in DOMAIN P.stack
        /\ P.stack[i].begin \in Int /\ P.stack[i].correction \in Int
  BY SoundTyped
<1>9. /\ \A i \in Frames(P) : Q.stack[i].ep = P.stack[i].ep /\ Term(Q, i) = Term(P, i)
      /\ Q.stack[sp].ep = key /\ Term(Q, sp) = 0
  <2>1. ASSUME NEW i \in Frames(P)
        PROVE  Q.stack[i].ep = P.stack[i].ep /\ Term(Q, i) = Term(P, i)
    <3>1. SameBlock(P.stack[i], s[i]) /\ s[i].begin = P.stack[i].begin
          /\ s[i].correction = P.stack[i].correction
      BY <1>6, <1>8 DEF StackOf
    <3>2. QED BY <1>1, <1>4, <1>7, <3>1 DEF SameBlock, Term
  <2>2. /\ s[sp].ep = key /\ s[sp].begin = now /\ s[sp].correction = 0
    BY <1>1, <1>6 DEF StackOf
  <2>3. Term(Q, sp) = 0
    BY <1>4, <1>7, <2>2 DEF Term
  <2>4. QED BY <1>4, <2>1, <2>2, <2>3
<1>10. \A e : Given(Q, e) = Given(P, e)
  <2>1. \A e \in DOMAIN P.eps : Q.eps[e].total = P.eps[e].total
    BY <1>4, <1>5 DEF EpsOf
  <2>2. key \notin DOMAIN P.eps => Q.eps[key].total = 0
    BY <1>4, <1>5 DEF EpsOf
  <2>3. QED BY <1>3, <2>1, <2>2 DEF Given
<1>11. ASSUME NEW e PROVE LiveTotal(Q, e) = LiveTotal(P, e)
  <2>1. CASE e # key
    <3>1. FramesOf(Q, e) = FramesOf(P, e)
      BY <1>1, <1>3, <1>9, <2>1 DEF FramesOf
    <3>2. \A i \in FramesOf(P, e) : Term(Q, i) = Term(P, i)
      BY <1>9 DEF FramesOf
    <3>3. QED BY <1>3, <3>1, <3>2, SameLiveTotal
  <2>2. CASE e = key
    <3>1. FramesOf(Q, key) = FramesOf(P, key) \cup {sp} /\ sp \notin FramesOf(P, key)
      BY <1>1, <1>3, <1>9 DEF FramesOf
    <3>2. PICK f, g, S : f = TermsOf(P, key) /\ g = TermsOf(Q, key) /\ S = FramesOf(P, key)
      OBVIOUS
    <3>3. IsFiniteSet(S) /\ \A i \in S : f[i] \in Int /\ f[i] = Term(P, i) /\ i \in Frames(P)
      BY <3>2, LiveTotalIs
    <3>4. \A i \in S \cup {sp} : g[i] = Term(Q, i)
      BY <1>3, <3>1, <3>2, LiveTotalIs
    <3>5. g[sp] = 0 /\ g[sp] \in Int
      BY <1>9, <3>4
    <3>6. \A i \in S : f[i] \in Int /\ g[i] = f[i]
      BY <1>9, <3>3, <3>4
    <3>7. SumFunctionOnSet(g, S \cup {sp}) = SumFunctionOnSet(f, S) + g[sp]
      <4>1. IsFiniteSet(S) /\ sp \notin S
        BY <3>1, <3>2, <3>3
      <4>2. g[sp] \in Int
        BY <3>5
      <4>3. QED BY <3>6, <4>1, <4>2, SumAdd
    <3>8. LiveTotal(P, key) = SumFunctionOnSet(f, S) /\ LiveTotal(P, key) \in Int
      BY <3>2, LiveTotalIs
    <3>9. LiveTotal(Q, key) = SumFunctionOnSet(g, S \cup {sp})
      <4>1. LiveTotal(Q, key) = SumFunctionOnSet(TermsOf(Q, key), FramesOf(Q, key))
        BY <1>3, LiveTotalIs
      <4>2. QED BY <3>1, <3>2, <4>1
    <3>10. QED BY <2>2, <3>5, <3>7, <3>8, <3>9
  <2>3. QED BY <2>1, <2>2
<1>12. QED BY <1>7, <1>10, <1>11 DEF TotalsRight

-----------------------------------------------------------------------------
(***************************************************************************)
(* The calls between entry points.                                         *)
(***************************************************************************)
Into(P, e) == {a \in DOMAIN P.arcs : a[2] = e}

ArcsRight(P) ==
    \A e \in Points \ {P.program} : SumFunctionOnSet(P.arcs, Into(P, e)) = Given(P, e)

LEMMA IntoTyped ==
    ASSUME NEW P, Sound(P), NEW e
    PROVE  IsFiniteSet(Into(P, e)) /\ \A a \in Into(P, e) : a \in DOMAIN P.arcs /\ P.arcs[a] \in Int
<1>1. P.arcs \in [DOMAIN P.arcs -> Int] /\ IsFiniteSet(DOMAIN P.arcs)
  BY ProfileTyped DEF Sound
<1>2. Into(P, e) \in SUBSET DOMAIN P.arcs
  BY DEF Into
<1>3. IsFiniteSet(Into(P, e))
  BY <1>1, <1>2, FS_Subset
<1>4. QED BY <1>1, <1>2, <1>3

(* One more call from y to x, of v instructions.                           *)
Called(g, a, x, v, h) ==
    /\ DOMAIN h = DOMAIN g \cup {a} /\ a[2] = x
    /\ \A b \in DOMAIN g : b # a => h[b] = g[b]
    /\ h[a] = IF a \in DOMAIN g THEN g[a] + v ELSE v

LEMMA ArcEffect ==
    ASSUME NEW g, NEW y, NEW x, NEW v PROVE Called(g, <<y, x>>, x, v, Arc(g, y, x, v))
  BY DEF Called, Arc, Put

LEMMA SameArcs ==
    ASSUME NEW P, Sound(P), NEW Q, NEW e, Into(Q, e) = Into(P, e),
           \A a \in Into(P, e) : Q.arcs[a] = P.arcs[a]
    PROVE  SumFunctionOnSet(Q.arcs, Into(Q, e)) = SumFunctionOnSet(P.arcs, Into(P, e))
<1>1. PICK f, g, S : f = P.arcs /\ g = Q.arcs /\ S = Into(P, e)
  OBVIOUS
<1>2. IsFiniteSet(S) /\ \A a \in S : f[a] \in Int /\ f[a] = g[a]
  BY <1>1, IntoTyped
<1>3. SumFunctionOnSet(f, S) = SumFunctionOnSet(g, S)
  BY <1>2, SumSame
<1>4. QED BY <1>1, <1>3

LEMMA PopArcs ==
    ASSUME NEW P, Sound(P), ArcsRight(P), NEW Q, Q = mark_block_exit_raw(P)
    PROVE  ArcsRight(Q)
<1>1. PICK t \in Nat, c \in Int, x \in DOMAIN P.eps :
         t = Top(P) /\ c = Charged(P) /\ x = TopFrame(P).ep
  BY TopTyped
<1>2. DOMAIN Q.eps = DOMAIN P.eps
  BY PopSound
<1>3. Q.program = P.program
        /\ Q.arcs = IF Top(P) = 0 THEN P.arcs
                    ELSE Arc(P.arcs, P.stack[Top(P) - 1].ep, TopFrame(P).ep, Charged(P))
  BY PopFields, Zenon
<1>4. t = 0 => x = P.program
  BY <1>1 DEF TopFrame, Sound
<1>5. \A e \in DOMAIN P.eps : Q.eps[e].total = P.eps[e].total + (IF e = x THEN c ELSE 0)
  BY <1>1, PopEps
<1>6. ASSUME NEW e, e # x PROVE Given(Q, e) = Given(P, e)
  <2>1. e \in DOMAIN P.eps => P.eps[e].total \in Int
    BY SoundTyped
  <2>2. QED BY <1>2, <1>5, <1>6, <2>1 DEF Given
<1>7. Given(Q, x) = Given(P, x) + c
  BY <1>1, <1>2, <1>5 DEF Given
<1>8. CASE t = 0
  <2>1. Q.arcs = P.arcs
    BY <1>1, <1>3, <1>8
  <2>2. \A e : Into(Q, e) = Into(P, e)
    BY <2>1 DEF Into
  <2>3. QED BY <1>3, <1>4, <1>6, <1>8, <2>1, <2>2 DEF ArcsRight
<1>9. CASE t # 0
  <2>1. PICK a, f, g, y : /\ a = <<y, x>> /\ f = P.arcs /\ g = Q.arcs
                          /\ y = P.stack[Top(P) - 1].ep
    OBVIOUS
  <2>2. g = Arc(f, y, x, c)
    BY <1>1, <1>3, <1>9, <2>1
  <2>3. /\ DOMAIN g = DOMAIN f \cup {a} /\ a[2] = x
        /\ \A b \in DOMAIN f : b # a => g[b] = f[b]
        /\ g[a] = IF a \in DOMAIN f THEN f[a] + c ELSE c
    <3>1. Called(f, <<y, x>>, x, c, Arc(f, y, x, c))
      BY ArcEffect
    <3>2. Called(f, a, x, c, g)
      BY <2>1, <2>2, <3>1
    <3>3. QED BY <3>2 DEF Called
  <2>4. ASSUME NEW e, e # x
        PROVE  SumFunctionOnSet(Q.arcs, Into(Q, e)) = SumFunctionOnSet(P.arcs, Into(P, e))
    <3>1. Into(Q, e) = Into(P, e)
      BY <2>1, <2>3, <2>4 DEF Into
    <3>2. \A b \in Into(P, e) : Q.arcs[b] = P.arcs[b]
      BY <2>1, <2>3, <2>4 DEF Into
    <3>3. QED BY <3>1, <3>2, SameArcs
  <2>5. SumFunctionOnSet(Q.arcs, Into(Q, x)) = SumFunctionOnSet(P.arcs, Into(P, x)) + c
    <3>1. PICK S, R : S = Into(P, x) /\ R = Into(Q, x)
      OBVIOUS
    <3>2. R = S \cup {a} /\ (a \in S <=> a \in DOMAIN f)
      BY <2>1, <2>3, <3>1 DEF Into
    <3>3. IsFiniteSet(S) /\ \A b \in S : b \in DOMAIN f /\ f[b] \in Int
      BY <2>1, <3>1, IntoTyped
    <3>4. CASE a \in S
      <4>1. R = S
        BY <3>2, <3>4
      <4>2. g[a] = f[a] + c /\ f[a] \in Int
        BY <2>3, <3>2, <3>3, <3>4
      <4>3. \A b \in S : f[b] \in Int /\ g[b] \in Int /\ (b # a => g[b] = f[b])
        BY <1>1, <2>3, <3>3, <4>2
      <4>4. SumFunctionOnSet(g, S) = SumFunctionOnSet(f, S) + (g[a] - f[a])
        <5>1. IsFiniteSet(S)
          BY <3>3
        <5>2. QED BY <3>4, <4>3, <5>1, SumChange
      <4>5. g[a] - f[a] = c
        BY <1>1, <4>2
      <4>6. QED BY <2>1, <3>1, <4>1, <4>4, <4>5
    <3>5. CASE a \notin S
      <4>1. g[a] = c /\ g[a] \in Int
        BY <1>1, <2>3, <3>2, <3>5
      <4>2. \A b \in S : f[b] \in Int /\ g[b] = f[b]
        BY <2>3, <3>3, <3>5
      <4>3. SumFunctionOnSet(g, S \cup {a}) = SumFunctionOnSet(f, S) + g[a]
        <5>1. IsFiniteSet(S) /\ g[a] \in Int
          BY <3>3, <4>1
        <5>2. QED BY <3>5, <4>2, <5>1, SumAdd
      <4>4. QED BY <2>1, <3>1, <3>2, <4>1, <4>3
    <3>6. QED BY <3>4, <3>5
  <2>6. QED BY <1>3, <1>6, <1>7, <2>4, <2>5 DEF ArcsRight
<1>10. QED BY <1>8, <1>9

LEMMA EnterArcs ==
    ASSUME NEW P, Sound(P), ArcsRight(P), ~P.frozen, NEW key \in Points, NEW len \in BOOLEAN,
           NEW inv \in BOOLEAN, NEW athrow \in BOOLEAN,
           NEW Q, Q = mark_block_enter(P, key, len, inv, athrow)
    PROVE  ArcsRight(Q)
<1>1. Entered(P, Q, key, len, inv, athrow)
  BY EnterFields
<1>2. DOMAIN Q.eps = DOMAIN P.eps \cup {key}
  BY EnterSound
<1>3. PICK r : r = Q.eps /\ r = Registered(P, key, len)
  BY <1>1 DEF Entered
<1>4. EpsOf(P, key, r)
  BY <1>3, EnterEps
<1>5. Q.arcs = P.arcs /\ Q.program = P.program
  BY <1>1 DEF Entered
<1>6. \A e : Into(Q, e) = Into(P, e)
  BY <1>5 DEF Into
<1>7. \A e : Given(Q, e) = Given(P, e)
  BY <1>2, <1>3, <1>4 DEF EpsOf, Given
<1>8. QED BY <1>5, <1>6, <1>7 DEF ArcsRight

-----------------------------------------------------------------------------
(***************************************************************************)
(* What a profile keeps, whatever is done to it.                           *)
(***************************************************************************)
SelfRight(P) == P.under = 0 => SelfTotal(P) = P.icount

Profiled(P) ==
    /\ Sound(P) /\ P.sp <= P.calls + 1
    /\ Linked(P) /\ SelfRight(P) /\ TotalsRight(P) /\ ArcsRight(P)

\* An instruction is counted.
Counted(P) ==
    [P EXCEPT !.icount = @ + 1,
              !.inclusive = [e \in Points |->
                  P.inclusive[e] + (IF e \in OnStack(P) THEN 1 ELSE 0)]]

\* Q differs from P in its counters and flags only.
SameTables(P, Q) ==
    /\ Q.eps = P.eps /\ Q.arcs = P.arcs /\ Q.stack = P.stack /\ Q.sp = P.sp
    /\ Q.under = P.under /\ Q.calls = P.calls /\ Q.program = P.program

LEMMA SameTablesKept ==
    ASSUME NEW P, Sound(P), NEW Q \in Profile, SameTables(P, Q)
    PROVE  /\ Sound(Q) /\ Frames(Q) = Frames(P)
           /\ Linked(P) => Linked(Q)
           /\ ArcsRight(P) => ArcsRight(Q)
           /\ \A e : Given(Q, e) = Given(P, e) /\ FramesOf(Q, e) = FramesOf(P, e)
<1>1. Frames(Q) = Frames(P)
  BY DEF SameTables, Frames
<1>2. Sound(Q)
  BY <1>1 DEF Sound, SameTables
<1>3. Linked(P) => Linked(Q)
  BY <1>1 DEF Linked, SameTables
<1>4. \A e : Given(Q, e) = Given(P, e) /\ FramesOf(Q, e) = FramesOf(P, e)
  BY <1>1 DEF Given, FramesOf, SameTables
<1>5. ArcsRight(P) => ArcsRight(Q)
  <2>1. \A e : Into(Q, e) = Into(P, e)
    BY DEF Into, SameTables
  <2>2. QED BY <1>4, <2>1 DEF ArcsRight, SameTables
<1>6. QED BY <1>1, <1>2, <1>3, <1>4, <1>5

LEMMA CountFields ==
    ASSUME NEW P, Sound(P), NEW Q, Q = Counted(P)
    PROVE  /\ Q \in Profile /\ SameTables(P, Q) /\ Q.icount = P.icount + 1
           /\ \A e \in Points :
                Q.inclusive[e] = P.inclusive[e] + (IF e \in OnStack(P) THEN 1 ELSE 0)
<1>1. P \in Profile /\ P.icount \in Nat /\ P.inclusive \in [Points -> Int]
  BY ProfileTyped DEF Sound
<1>2. PICK f : f = [e \in Points |-> P.inclusive[e] + (IF e \in OnStack(P) THEN 1 ELSE 0)]
  OBVIOUS
<1>3. f \in [Points -> Int]
  BY <1>1, <1>2
<1>4. Q = [P EXCEPT !.icount = @ + 1, !.inclusive = f]
  BY <1>2 DEF Counted
<1>5. P.icount + 1 \in Nat
  BY <1>1
<1>6. Q \in Profile
  BY <1>1, <1>3, <1>4, <1>5 DEF Profile
<1>7. SameTables(P, Q) /\ Q.icount = P.icount + 1 /\ Q.inclusive = f
  BY <1>1, <1>4 DEF Profile, SameTables
<1>8. QED BY <1>2, <1>6, <1>7

LEMMA CountSelf ==
    ASSUME NEW P, Sound(P), NEW Q, Q = Counted(P)
    PROVE  SelfTotal(Q) = SelfTotal(P) + 1
<1>1. PICK t \in Nat : t = Top(P) /\ t \in Frames(P) /\ P.sp = t + 1
  BY TopTyped
<1>2. /\ Q \in Profile /\ SameTables(P, Q) /\ Q.icount = P.icount + 1
  BY CountFields
<1>3. Sound(Q) /\ Frames(Q) = Frames(P)
  BY <1>2, SameTablesKept
<1>4. SelfOf(Q) = SelfOf(P) /\ DOMAIN Q.eps = DOMAIN P.eps
  BY <1>2 DEF SelfOf, SameTables
<1>5. SumFunctionOnSet(LiveOf(Q), Frames(Q)) = SumFunctionOnSet(LiveOf(P), Frames(P)) + 1
  <2>1. PICK f, g, S : f = LiveOf(P) /\ g = LiveOf(Q) /\ S = Frames(P)
    OBVIOUS
  <2>2. IsFiniteSet(S) /\ t \in S
    BY <1>1, <2>1, FramesFinite
  <2>3. \A i \in S : f[i] \in Int /\ f[i] = LiveSelf(P, i)
    BY <2>1, SelfTotalIs
  <2>4. \A i \in S : g[i] \in Int /\ g[i] = LiveSelf(Q, i)
    BY <1>3, <2>1, SelfTotalIs
  <2>5. ASSUME NEW i \in S PROVE LiveSelf(Q, i) = LiveSelf(P, i) + (IF i = t THEN 1 ELSE 0)
    <3>1. P.stack[i].self \in Int /\ P.stack[i].beginSelf \in Int /\ P.icount \in Int
      BY <2>1, SoundTyped
    <3>2. Q.stack[i] = P.stack[i] /\ Q.sp = P.sp
      BY <1>2 DEF SameTables
    <3>3. QED BY <1>1, <1>2, <3>1, <3>2 DEF LiveSelf
  <2>6. \A i \in S : f[i] \in Int /\ g[i] \in Int /\ (i # t => g[i] = f[i])
    BY <2>3, <2>4, <2>5
  <2>7. g[t] - f[t] = 1
    BY <2>2, <2>3, <2>4, <2>5
  <2>8. SumFunctionOnSet(g, S) = SumFunctionOnSet(f, S) + (g[t] - f[t])
    <3>1. PICK k \in S : k = t
      BY <2>2
    <3>2. IsFiniteSet(S)
      BY <2>2
    <3>3. \A i \in S : f[i] \in Int /\ g[i] \in Int /\ (i # k => g[i] = f[i])
      BY <2>6, <3>1
    <3>4. SumFunctionOnSet(g, S) = SumFunctionOnSet(f, S) + (g[k] - f[k])
      BY <3>2, <3>3, SumChange
    <3>5. QED BY <3>1, <3>4
  <2>9. QED BY <1>3, <2>1, <2>7, <2>8
<1>6. PICK a \in Int, b \in Int : /\ a = SumFunctionOnSet(SelfOf(P), DOMAIN P.eps)
                                  /\ b = SumFunctionOnSet(LiveOf(P), Frames(P))
  BY SelfTotalIs
<1>7. SelfTotal(P) = a + b
  BY <1>6, SelfTotalIs
<1>8. SelfTotal(Q) = a + (b + 1)
  <2>1. SelfTotal(Q) = SumFunctionOnSet(SelfOf(Q), DOMAIN Q.eps)
                         + SumFunctionOnSet(LiveOf(Q), Frames(Q))
    BY <1>3, SelfTotalIs
  <2>2. QED BY <1>4, <1>5, <1>6, <2>1
<1>9. QED BY <1>6, <1>7, <1>8

(* Of the frames of an entry point, the lowest alone has no next frame.    *)
LEMMA OneOutermost ==
    ASSUME NEW P, Sound(P), Linked(P), NEW e \in Points \ {P.program}, FramesOf(P, e) # {}
    PROVE  \E i \in FramesOf(P, e) : \A j \in FramesOf(P, e) : P.stack[j].next = -1 <=> j = i
<1>1. \A j \in FramesOf(P, e) : /\ j \in Frames(P) /\ P.stack[j].ep = e /\ e \in DOMAIN P.eps
                                /\ j \in Int /\ P.stack[j].next \in Int
  BY SoundTyped DEF FramesOf
<1>2. PICK i : i = P.eps[e].first
  OBVIOUS
<1>3. e \in DOMAIN P.eps /\ i # -1 /\ \A j \in FramesOf(P, e) : i <= j
  BY <1>1, <1>2 DEF Linked
<1>4. i \in FramesOf(P, e)
  BY <1>2, <1>3 DEF Linked, FramesOf
<1>5. P.stack[i].next = -1
  <2>1. SUFFICES ASSUME P.stack[i].next # -1 PROVE FALSE
    OBVIOUS
  <2>2. /\ P.stack[i].next \in Frames(P) /\ P.stack[i].next < i
        /\ P.stack[P.stack[i].next].ep = e
    BY <1>1, <1>4, <2>1 DEF Linked
  <2>3. i <= P.stack[i].next
    BY <1>3, <2>2 DEF FramesOf
  <2>4. QED BY <1>1, <1>4, <2>2, <2>3
<1>6. ASSUME NEW j \in FramesOf(P, e), j # i PROVE P.stack[j].next # -1
  <2>1. i < j /\ i \in Frames(P) /\ j \in Frames(P) /\ P.stack[i].ep = P.stack[j].ep
        /\ P.stack[j].ep # P.program
    BY <1>1, <1>3, <1>4, <1>6
  <2>2. QED BY <2>1 DEF Linked
<1>7. QED BY <1>4, <1>5, <1>6

LEMMA CountTotals ==
    ASSUME NEW P, Sound(P), Linked(P), TotalsRight(P), NEW Q, Q = Counted(P)
    PROVE  TotalsRight(Q)
<1>1. /\ Q \in Profile /\ SameTables(P, Q) /\ Q.icount = P.icount + 1
      /\ \A e \in Points :
            Q.inclusive[e] = P.inclusive[e] + (IF e \in OnStack(P) THEN 1 ELSE 0)
  BY CountFields
<1>2. /\ Sound(Q) /\ Frames(Q) = Frames(P)
      /\ \A e : Given(Q, e) = Given(P, e) /\ FramesOf(Q, e) = FramesOf(P, e)
  BY <1>1, SameTablesKept
<1>3. \A e : e \in OnStack(P) <=> FramesOf(P, e) # {}
  BY DEF OnStack, FramesOf, Frames
<1>4. ASSUME NEW i \in Frames(P)
      PROVE  Term(Q, i) = Term(P, i) + (IF P.stack[i].next = -1 THEN 1 ELSE 0)
  <2>1. P.stack[i].begin \in Int /\ P.stack[i].correction \in Int /\ P.icount \in Int
    BY SoundTyped
  <2>2. Q.stack[i] = P.stack[i]
    BY <1>1 DEF SameTables
  <2>3. QED BY <1>1, <2>1, <2>2 DEF Term
<1>5. ASSUME NEW e \in Points \ {P.program}
      PROVE  LiveTotal(Q, e) = LiveTotal(P, e) + (IF e \in OnStack(P) THEN 1 ELSE 0)
  <2>1. LiveTotal(P, e) \in Int
    BY LiveTotalIs
  <2>2. CASE FramesOf(P, e) = {}
    <3>1. \A i \in FramesOf(P, e) : Term(Q, i) = Term(P, i)
      BY <2>2
    <3>2. LiveTotal(Q, e) = LiveTotal(P, e)
      <4>1. FramesOf(Q, e) = FramesOf(P, e)
        BY <1>2
      <4>2. QED BY <1>2, <3>1, <4>1, SameLiveTotal
    <3>3. QED BY <1>3, <2>1, <2>2, <3>2
  <2>3. CASE FramesOf(P, e) # {}
    <3>1. PICK k \in FramesOf(P, e) : \A j \in FramesOf(P, e) : P.stack[j].next = -1 <=> j = k
      BY <2>3, OneOutermost
    <3>2. PICK f, g, S : f = TermsOf(P, e) /\ g = TermsOf(Q, e) /\ S = FramesOf(P, e)
      OBVIOUS
    <3>3. /\ IsFiniteSet(S) /\ k \in S
          /\ \A i \in S : f[i] \in Int /\ f[i] = Term(P, i) /\ i \in Frames(P)
      BY <3>1, <3>2, LiveTotalIs
    <3>4. \A i \in S : g[i] \in Int /\ g[i] = Term(Q, i)
      <4>1. \A i \in FramesOf(Q, e) : TermsOf(Q, e)[i] \in Int /\ TermsOf(Q, e)[i] = Term(Q, i)
        BY <1>2, LiveTotalIs
      <4>2. QED BY <1>2, <3>2, <4>1
    <3>5. \A i \in S : f[i] \in Int /\ g[i] \in Int /\ (i # k => g[i] = f[i])
      BY <1>4, <3>1, <3>2, <3>3, <3>4
    <3>6. g[k] - f[k] = 1
      BY <1>4, <3>1, <3>2, <3>3, <3>4
    <3>7. SumFunctionOnSet(g, S) = SumFunctionOnSet(f, S) + (g[k] - f[k])
      BY <3>3, <3>5, SumChange
    <3>8. LiveTotal(P, e) = SumFunctionOnSet(f, S)
      BY <3>2, LiveTotalIs
    <3>9. LiveTotal(Q, e) = SumFunctionOnSet(g, S)
      <4>1. LiveTotal(Q, e) = SumFunctionOnSet(TermsOf(Q, e), FramesOf(Q, e))
        BY <1>2, LiveTotalIs
      <4>2. QED BY <1>2, <3>2, <4>1
    <3>10. QED BY <1>3, <2>1, <2>3, <3>6, <3>7, <3>8, <3>9
  <2>4. QED BY <2>2, <2>3
<1>6. ASSUME NEW e \in Points \ {Q.program}
      PROVE  Given(Q, e) + LiveTotal(Q, e) = Q.inclusive[e]
  <2>1. e \in Points \ {P.program} /\ e \in Points
    BY <1>1, <1>6 DEF SameTables
  <2>2. Given(P, e) + LiveTotal(P, e) = P.inclusive[e]
    BY <2>1 DEF TotalsRight
  <2>3. Given(P, e) \in Int /\ LiveTotal(P, e) \in Int
    BY GivenInt, LiveTotalIs
  <2>4. Given(Q, e) = Given(P, e)
    BY <1>2
  <2>5. QED BY <1>1, <1>5, <2>1, <2>2, <2>3, <2>4
<1>7. QED BY <1>6 DEF TotalsRight

LEMMA CountKeeps == ASSUME NEW P, Profiled(P), NEW Q, Q = Counted(P) PROVE Profiled(Q)
<1>1. Sound(P) /\ P.sp <= P.calls + 1
      /\ Linked(P) /\ SelfRight(P) /\ TotalsRight(P) /\ ArcsRight(P)
  BY DEF Profiled
<1>2. Q \in Profile /\ SameTables(P, Q) /\ Q.icount = P.icount + 1
  BY <1>1, CountFields
<1>3. Sound(Q) /\ Linked(Q) /\ ArcsRight(Q)
  BY <1>1, <1>2, SameTablesKept
<1>4. TotalsRight(Q)
  BY <1>1, CountTotals
<1>5. SelfTotal(Q) = SelfTotal(P) + 1
  BY <1>1, CountSelf
<1>6. SelfRight(Q)
  BY <1>1, <1>2, <1>5 DEF SelfRight, SameTables
<1>7. Q.sp <= Q.calls + 1
  BY <1>1, <1>2 DEF SameTables
<1>8. QED BY <1>3, <1>4, <1>6, <1>7 DEF Profiled

LEMMA FlagsKeep ==
    ASSUME NEW P, Profiled(P), NEW b \in BOOLEAN,
           NEW Q, Q = [P EXCEPT !.frozen = b] \/ Q = [P EXCEPT !.enabled = b]
    PROVE  Profiled(Q)
<1>1. Sound(P) /\ P.sp <= P.calls + 1
      /\ Linked(P) /\ SelfRight(P) /\ TotalsRight(P) /\ ArcsRight(P) /\ P \in Profile
  BY DEF Profiled, Sound
<1>2. Q \in Profile /\ SameTables(P, Q) /\ Q.icount = P.icount /\ Q.inclusive = P.inclusive
  BY <1>1 DEF Profile, SameTables
<1>3. /\ Sound(Q) /\ Linked(Q) /\ ArcsRight(Q) /\ Frames(Q) = Frames(P)
      /\ \A e : Given(Q, e) = Given(P, e) /\ FramesOf(Q, e) = FramesOf(P, e)
  BY <1>1, <1>2, SameTablesKept
<1>4. \A e : LiveTotal(Q, e) = LiveTotal(P, e)
  <2>1. \A i : Term(Q, i) = Term(P, i)
    BY <1>2 DEF Term, SameTables
  <2>2. TAKE e
  <2>3. FramesOf(Q, e) = FramesOf(P, e)
    BY <1>3
  <2>4. QED BY <1>1, <1>3, <2>1, <2>3, SameLiveTotal
<1>5. TotalsRight(Q)
  BY <1>1, <1>2, <1>3, <1>4 DEF TotalsRight, SameTables
<1>6. SelfTotal(Q) = SelfTotal(P)
  <2>1. SelfOf(Q) = SelfOf(P) /\ DOMAIN Q.eps = DOMAIN P.eps
    BY <1>2 DEF SelfOf, SameTables
  <2>2. LiveOf(Q) = LiveOf(P)
    BY <1>2, <1>3 DEF LiveOf, LiveSelf, SameTables
  <2>3. QED BY <1>1, <1>3, <2>1, <2>2, SelfTotalIs
<1>7. SelfRight(Q)
  BY <1>1, <1>2, <1>6 DEF SelfRight, SameTables
<1>8. Q.sp <= Q.calls + 1
  BY <1>1, <1>2 DEF SameTables
<1>9. QED BY <1>3, <1>5, <1>7, <1>8 DEF Profiled

LEMMA PopKeeps ==
    ASSUME NEW P, Profiled(P), NEW Q, Q = mark_block_exit_raw(P)
    PROVE  Profiled(Q)
<1>1. Sound(P) /\ P.sp <= P.calls + 1
      /\ Linked(P) /\ SelfRight(P) /\ TotalsRight(P) /\ ArcsRight(P) /\ P \in Profile
  BY DEF Profiled, Sound
<1>2. Sound(Q) /\ Linked(Q) /\ TotalsRight(Q) /\ ArcsRight(Q)
  <2>1. Sound(Q)
    BY <1>1, PopSound
  <2>2. Linked(Q)
    BY <1>1, PopLinked
  <2>3. TotalsRight(Q)
    BY <1>1, PopTotals
  <2>4. QED BY <1>1, <2>1, <2>2, <2>3, PopArcs
<1>3. Q.icount = P.icount /\ Q.calls = P.calls
      /\ Q.under = P.under + (IF Top(P) = 0 THEN 1 ELSE 0)
  BY <1>1, PopFields, Zenon
<1>4. P.under \in Nat /\ P.calls \in Nat
  BY <1>1, ProfileTyped
<1>5. PICK t \in Nat : t = Top(P) /\ P.sp = t + 1 /\ Q.sp = (IF t = 0 THEN 1 ELSE t)
  BY <1>1, TopTyped, PopSound
<1>6. Q.sp <= Q.calls + 1
  BY <1>1, <1>3, <1>4, <1>5
<1>7. SelfRight(Q)
  <2>1. SUFFICES ASSUME Q.under = 0 PROVE SelfTotal(Q) = Q.icount
    BY DEF SelfRight
  <2>2. P.under = 0 /\ Top(P) # 0
    BY <1>3, <1>4, <2>1
  <2>3. SelfTotal(Q) = SelfTotal(P)
    BY <1>1, <2>2, PopSelf
  <2>4. QED BY <1>1, <1>3, <2>2, <2>3 DEF SelfRight
<1>8. QED BY <1>2, <1>6, <1>7 DEF Profiled

LEMMA EnterKeeps ==
    ASSUME NEW P, Profiled(P), NEW key \in Points, NEW len \in BOOLEAN,
           NEW inv \in BOOLEAN, NEW athrow \in BOOLEAN,
           NEW Q, Q = mark_block_enter(P, key, len, inv, athrow)
    PROVE  Profiled(Q)
<1>1. Sound(P) /\ P.sp <= P.calls + 1
      /\ Linked(P) /\ SelfRight(P) /\ TotalsRight(P) /\ ArcsRight(P) /\ P \in Profile
  BY DEF Profiled, Sound
<1>2. CASE P.frozen
  BY <1>2 DEF mark_block_enter
<1>3. CASE ~P.frozen
  <2>1. Entered(P, Q, key, len, inv, athrow)
    BY <1>1, <1>3, EnterFields
  <2>2. Sound(Q)
    BY <1>1, <1>3, EnterSound
  <2>3. Linked(Q)
    BY <1>1, <1>3, EnterLinked
  <2>4. TotalsRight(Q)
    BY <1>1, <1>3, EnterTotals
  <2>5. ArcsRight(Q)
    BY <1>1, <1>3, EnterArcs
  <2>6. SelfTotal(Q) = SelfTotal(P)
    BY <1>1, <1>3, EnterSelf
  <2>7. SelfRight(Q)
    BY <1>1, <2>1, <2>6 DEF SelfRight, Entered
  <2>8. Q.sp <= Q.calls + 1
    <3>1. P.sp \in Nat /\ P.calls \in Nat
      BY <1>1, ProfileTyped
    <3>2. Q.sp = P.sp + 1 /\ Q.calls = P.calls + 1
      BY <2>1 DEF Entered
    <3>3. QED BY <1>1, <3>1, <3>2
  <2>9. QED BY <2>2, <2>3, <2>4, <2>5, <2>7, <2>8 DEF Profiled
<1>4. QED BY <1>2, <1>3

LEMMA SumOfNothing ==
    ASSUME NEW x, NEW f, f[x] = 0 PROVE SumFunctionOnSet(f, {x}) = 0
<1>1. PICK S, R : S = {x} /\ R = {}
  OBVIOUS
<1>2. IsFiniteSet(S) /\ x \in S /\ S \ {x} = R
  BY <1>1, FS_Singleton
<1>3. \A y \in S : f[y] \in Int
  BY <1>1
<1>4. SumFunctionOnSet(f, S) = f[x] + SumFunctionOnSet(f, S \ {x})
  BY <1>2, <1>3, SumRemove
<1>5. SumFunctionOnSet(f, R) = 0
  BY <1>1, SumEmpty
<1>6. QED BY <1>1, <1>2, <1>4, <1>5

LEMMA ResetFields ==
    ASSUME NEW key \in Points, NEW Q, Q = ResetProfile(key)
    PROVE  /\ Sound(Q) /\ Frames(Q) = {0} /\ Q.sp = 1 /\ Q.calls = 0 /\ Q.under = 0
           /\ Q.icount = 0 /\ Q.program = key /\ DOMAIN Q.eps = {key} /\ DOMAIN Q.arcs = {}
           /\ Q.eps[key].self = 0 /\ Q.eps[key].first = -1
           /\ Q.stack[0].ep = key /\ Q.stack[0].self = 0 /\ Q.stack[0].beginSelf = 0
           /\ Q.stack[0].next = -1 /\ \A e \in Points : Q.inclusive[e] = 0
<1> DEFINE f == FALSE
<1>1. f \in BOOLEAN /\ f = FALSE
  OBVIOUS
<1> HIDE DEF f
<1>2. PICK w : w = Frame(key, 0, f, f, -1)
  OBVIOUS
<1>3. w \in FrameType /\ w.ep = key /\ w.self = 0 /\ w.beginSelf = 0 /\ w.next = -1
  BY <1>1, <1>2 DEF Frame, FrameType
<1>4. PICK v : v = EntryPoint(f)
  OBVIOUS
<1>5. v \in Entry /\ v.self = 0 /\ v.first = -1
  BY <1>1, <1>4 DEF EntryPoint, Entry
<1>6. PICK eps, arcs, stack, inclusive :
        /\ eps = [e \in {key} |-> v] /\ arcs = [a \in {} |-> 0] /\ stack = [i \in {0} |-> w]
        /\ inclusive = [e \in Points |-> 0]
  OBVIOUS
<1>7. eps \in UNION {[D -> Entry] : D \in SUBSET Points}
  <2>1. eps \in [{key} -> Entry] /\ {key} \in SUBSET Points
    BY <1>5, <1>6
  <2>2. QED BY <2>1
<1>8. arcs \in UNION {[D -> Int] : D \in SUBSET (Points \X Points)}
  <2>1. arcs \in [{} -> Int]
    BY <1>6
  <2>2. QED BY <2>1
<1>9. stack \in UNION {[D -> FrameType] : D \in SUBSET Nat}
  <2>1. stack \in [{0} -> FrameType] /\ {0} \in SUBSET Nat
    BY <1>3, <1>6
  <2>2. QED BY <2>1
<1>10. inclusive \in [Points -> Int]
  BY <1>6
<1>11. Q = [eps |-> eps, arcs |-> arcs, stack |-> stack, sp |-> 1, icount |-> 0,
            frozen |-> TRUE, enabled |-> f, inclusive |-> inclusive, under |-> 0, calls |-> 0,
            program |-> key]
  BY <1>1, <1>2, <1>4, <1>6 DEF ResetProfile
<1>12. Q \in Profile
  BY <1>1, <1>7, <1>8, <1>9, <1>10, <1>11 DEF Profile
<1>13. /\ Q.sp = 1 /\ Q.calls = 0 /\ Q.under = 0 /\ Q.icount = 0 /\ Q.program = key
       /\ Q.eps = eps /\ Q.arcs = arcs /\ Q.stack = stack /\ Q.inclusive = inclusive
  BY <1>11
<1>14. Frames(Q) = {0}
  BY <1>13 DEF Frames
<1>15. /\ DOMAIN eps = {key} /\ DOMAIN arcs = {} /\ DOMAIN stack = {0} /\ stack[0] = w
       /\ eps[key] = v
  BY <1>6
<1>16. IsFiniteSet(DOMAIN eps) /\ IsFiniteSet(DOMAIN arcs)
  BY <1>15, FS_Singleton, FS_EmptySet
<1>17. Sound(Q)
  BY <1>3, <1>12, <1>13, <1>14, <1>15, <1>16 DEF Sound
<1>18. QED BY <1>3, <1>5, <1>6, <1>13, <1>14, <1>15, <1>17

LEMMA ResetKeeps ==
    ASSUME NEW key \in Points, NEW Q, Q = ResetProfile(key)
    PROVE  Profiled(Q)
<1>1. /\ Sound(Q) /\ Frames(Q) = {0} /\ Q.sp = 1 /\ Q.calls = 0 /\ Q.under = 0
      /\ Q.icount = 0 /\ Q.program = key /\ DOMAIN Q.eps = {key} /\ DOMAIN Q.arcs = {}
      /\ Q.eps[key].self = 0 /\ Q.eps[key].first = -1
      /\ Q.stack[0].ep = key /\ Q.stack[0].self = 0 /\ Q.stack[0].beginSelf = 0
      /\ Q.stack[0].next = -1 /\ \A e \in Points : Q.inclusive[e] = 0
  BY ResetFields
<1>2. Linked(Q)
  BY <1>1 DEF Linked
<1>3. SelfRight(Q)
  <2>1. PICK f, g : f = SelfOf(Q) /\ g = LiveOf(Q)
    OBVIOUS
  <2>2. f[key] = 0
    BY <1>1, <2>1 DEF SelfOf
  <2>3. LiveSelf(Q, 0) = 0
    BY <1>1 DEF LiveSelf
  <2>4. g[0] = 0
    BY <1>1, <2>1, <2>3 DEF LiveOf
  <2>5. SumFunctionOnSet(f, {key}) = 0
    BY <2>2, SumOfNothing
  <2>6. SumFunctionOnSet(g, {0}) = 0
    BY <2>4, SumOfNothing
  <2>7. SelfTotal(Q) = SumFunctionOnSet(f, DOMAIN Q.eps) + SumFunctionOnSet(g, Frames(Q))
    BY <1>1, <2>1, SelfTotalIs
  <2>8. QED BY <1>1, <2>5, <2>6, <2>7 DEF SelfRight
<1>4. ASSUME NEW e \in Points \ {Q.program}
      PROVE  /\ Given(Q, e) = 0 /\ Q.inclusive[e] = 0 /\ LiveTotal(Q, e) = 0
             /\ SumFunctionOnSet(Q.arcs, Into(Q, e)) = 0
  <2>1. Given(Q, e) = 0 /\ Q.inclusive[e] = 0 /\ FramesOf(Q, e) = {} /\ Into(Q, e) = {}
    BY <1>1 DEF Given, FramesOf, Into
  <2>2. PICK f, S : f = TermsOf(Q, e) /\ S = FramesOf(Q, e)
    OBVIOUS
  <2>3. LiveTotal(Q, e) = SumFunctionOnSet(f, S)
    BY <1>1, <2>2, LiveTotalIs
  <2>4. SumFunctionOnSet(f, {}) = 0
    BY SumEmpty
  <2>5. SumFunctionOnSet(Q.arcs, {}) = 0
    BY SumEmpty
  <2>6. QED BY <2>1, <2>2, <2>3, <2>4, <2>5
<1>5. TotalsRight(Q) /\ ArcsRight(Q)
  BY <1>4 DEF TotalsRight, ArcsRight
<1>6. QED BY <1>1, <1>2, <1>3, <1>5 DEF Profiled

(* The recursive function of PopFrames exists.                             *)
LEMMA PoppedExists ==
    ASSUME NEW P, NEW n \in Nat
    PROVE  \E g : /\ g = [i \in 0..n |-> IF i = 0 THEN P ELSE mark_block_exit_raw(g[i - 1])]
                  /\ PopFrames(P, n) = g[n]
<1> DEFINE S == {k \in Nat : \E g : g = [i \in 0..k |-> IF i = 0 THEN P
                                                        ELSE mark_block_exit_raw(g[i - 1])]}
<1>1. 0 \in S
  <2> DEFINE g == [i \in 0..0 |-> P]
  <2>1. g = [i \in 0..0 |-> IF i = 0 THEN P ELSE mark_block_exit_raw(g[i - 1])]
    OBVIOUS
  <2> HIDE DEF g
  <2>2. QED BY <2>1
<1>2. ASSUME NEW k \in Nat, k \in S PROVE k + 1 \in S
  <2>1. PICK g : g = [i \in 0..k |-> IF i = 0 THEN P ELSE mark_block_exit_raw(g[i - 1])]
    BY <1>2
  <2> DEFINE h == [i \in 0..k + 1 |-> IF i = k + 1 THEN mark_block_exit_raw(g[k]) ELSE g[i]]
  <2>2. ASSUME NEW i \in 0..k + 1
        PROVE  h[i] = IF i = 0 THEN P ELSE mark_block_exit_raw(h[i - 1])
    <3>1. CASE i = 0
      <4>1. i # k + 1 /\ i \in 0..k
        BY <3>1
      <4>2. QED BY <2>1, <3>1, <4>1
    <3>2. CASE i # 0 /\ i # k + 1
      <4>1. i \in 0..k /\ i - 1 \in 0..k + 1 /\ i - 1 # k + 1
        BY <3>2
      <4>2. h[i] = g[i] /\ h[i - 1] = g[i - 1]
        BY <3>2, <4>1
      <4>3. g[i] = mark_block_exit_raw(g[i - 1])
        BY <2>1, <3>2, <4>1
      <4>4. QED BY <3>2, <4>2, <4>3
    <3>3. CASE i = k + 1
      <4>1. i # 0 /\ i - 1 = k /\ k \in 0..k + 1 /\ k # k + 1
        BY <3>3
      <4>2. h[i] = mark_block_exit_raw(g[k]) /\ h[i - 1] = g[k]
        BY <3>3, <4>1
      <4>3. QED BY <4>1, <4>2
    <3>4. QED BY <3>1, <3>2, <3>3
  <2>3. h = [i \in 0..k + 1 |-> h[i]]
    OBVIOUS
  <2> HIDE DEF h
  <2>4. h = [i \in 0..k + 1 |-> IF i = 0 THEN P ELSE mark_block_exit_raw(h[i - 1])]
    BY <2>2, <2>3
  <2>5. QED BY <2>4
<1>3. n \in S
  <2> HIDE DEF S
  <2>1. \A k \in 0..n - 1 : k \in S => k + 1 \in S
    BY <1>2
  <2>2. QED BY <1>1, <2>1, Induction
<1>4. \E g : g = [i \in 0..n |-> IF i = 0 THEN P ELSE mark_block_exit_raw(g[i - 1])]
  BY <1>3
<1> DEFINE popped[i \in 0..n] == IF i = 0 THEN P ELSE mark_block_exit_raw(popped[i - 1])
<1>5. popped = [i \in 0..n |-> IF i = 0 THEN P ELSE mark_block_exit_raw(popped[i - 1])]
  BY <1>4
<1>6. PopFrames(P, n) = popped[n]
  BY DEF PopFrames
<1> HIDE DEF popped
<1>7. QED BY <1>5, <1>6

LEMMA PopFramesKeep ==
    ASSUME NEW P, Profiled(P), NEW n \in Nat, NEW Q, Q = PopFrames(P, n)
    PROVE  Profiled(Q)
<1>1. PICK g : /\ g = [i \in 0..n |-> IF i = 0 THEN P ELSE mark_block_exit_raw(g[i - 1])]
               /\ Q = g[n]
  BY PoppedExists
<1> DEFINE T == {k \in 0..n : Profiled(g[k])}
<1>2. 0 \in T
  <2>1. g[0] = P
    BY <1>1
  <2>2. QED BY <2>1
<1>3. ASSUME NEW k \in 0..n - 1, k \in T PROVE k + 1 \in T
  <2>1. k + 1 \in 0..n /\ k + 1 # 0 /\ (k + 1) - 1 = k
    OBVIOUS
  <2>2. PICK x, y : x = g[k] /\ y = g[k + 1]
    OBVIOUS
  <2>3. y = mark_block_exit_raw(x)
    BY <1>1, <2>1, <2>2
  <2>4. Profiled(x)
    BY <1>3, <2>2
  <2>5. Profiled(y)
    BY <2>3, <2>4, PopKeeps
  <2>6. QED BY <2>1, <2>2, <2>5
<1>4. n \in T
  <2> HIDE DEF T
  <2>1. \A k \in 0..n - 1 : k \in T => k + 1 \in T
    BY <1>3
  <2>2. QED BY <1>2, <2>1, Induction
<1>5. QED BY <1>1, <1>4

LEMMA UnwindKeeps ==
    ASSUME NEW P, Profiled(P), NEW at, NEW Q, Q = UnwindTo(P, at)
    PROVE  Profiled(Q)
<1>1. PICK t \in Nat : t = P.sp - 1
  <2>1. Sound(P)
    BY DEF Profiled
  <2>2. P.sp \in Nat /\ P.sp >= 1
    BY <2>1, SoundTyped
  <2>3. P.sp - 1 \in Nat
    BY <2>2
  <2>4. QED BY <2>3
<1>2. PICK found : found = {i \in 1..(P.sp - 1) : is_in_range(P, i, at)}
  OBVIOUS
<1>3. found \subseteq 0..t
  BY <1>1, <1>2
<1>4. PICK m : m = IF found = {} THEN 0 ELSE Max(found)
  OBVIOUS
<1>5. m \in 0..t
  <2>1. CASE found = {}
    BY <1>4, <2>1
  <2>2. CASE found # {}
    <3>1. Max(found) \in found
      BY <1>3, <2>2, MaxOf
    <3>2. QED BY <1>3, <1>4, <2>2, <3>1
  <2>3. QED BY <2>1, <2>2
<1>6. Q = PopFrames(P, P.sp - 1 - m)
  BY <1>2, <1>4 DEF UnwindTo
<1>7. PICK n \in Nat : n = P.sp - 1 - m
  <2>1. t - m \in Nat
    BY <1>5
  <2>2. QED BY <1>1, <2>1
<1>8. Q = PopFrames(P, n)
  BY <1>6, <1>7
<1>9. QED BY <1>8, PopFramesKeep

LEMMA ExitKeeps ==
    ASSUME NEW P, Profiled(P), NEW at \in Points, NEW Q, Q = mark_block_exit(P, at)
    PROVE  Profiled(Q)
<1>1. CASE P.frozen
  BY <1>1 DEF mark_block_exit
<1>2. CASE ~P.frozen
  <2>1. PICK R : R = mark_block_exit_raw(P)
    OBVIOUS
  <2>2. Profiled(R)
    BY <2>1, PopKeeps
  <2> DEFINE f == FALSE
             m == at \in Methods
  <2>3. f \in BOOLEAN /\ m \in BOOLEAN
    OBVIOUS
  <2>4. \/ Q = mark_block_enter(R, at, m, f, f)
        \/ Q = UnwindTo(R, at)
        \/ Q = R
    <3>1. Q = CASE Above(R, "inv") -> mark_block_enter(R, at, at \in Methods, FALSE, FALSE)
                [] ~Above(R, "inv") /\ Above(R, "athrow") -> UnwindTo(R, at)
                [] OTHER -> R
      BY <1>2, <2>1 DEF mark_block_exit
    <3>2. CASE Above(R, "inv")
      BY <3>1, <3>2
    <3>3. CASE ~Above(R, "inv") /\ Above(R, "athrow")
      BY <3>1, <3>3
    <3>4. CASE ~Above(R, "inv") /\ ~Above(R, "athrow")
      BY <3>1, <3>4
    <3>5. QED BY <3>2, <3>3, <3>4
  <2> HIDE DEF f, m
  <2>5. CASE Q = mark_block_enter(R, at, m, f, f)
    BY <2>2, <2>3, <2>5, EnterKeeps
  <2>6. CASE Q = UnwindTo(R, at)
    BY <2>2, <2>6, UnwindKeeps
  <2>7. QED BY <2>2, <2>4, <2>5, <2>6
<1>3. QED BY <1>1, <1>2

-----------------------------------------------------------------------------
(***************************************************************************)
(* The theorems.                                                           *)
(***************************************************************************)
Inv ==
    /\ DOMAIN profiles \subseteq Profiles /\ current \in Profiles \cup {NoProfile}
    /\ profiles = [p \in DOMAIN profiles |-> profiles[p]]
    /\ \A p \in DOMAIN profiles : Profiled(profiles[p])

LEMMA SetKeeps ==
    ASSUME Inv, NEW p, Exists(p), NEW P, Profiled(P), Set(p, P)
    PROVE  Inv'
<1>1. profiles' = [profiles EXCEPT ![p] = P] /\ current' = current
  BY DEF Set
<1>2. /\ DOMAIN profiles' = DOMAIN profiles
      /\ \A q \in DOMAIN profiles : profiles'[q] = IF q = p THEN P ELSE profiles[q]
  BY <1>1 DEF Inv
<1>3. \A q \in DOMAIN profiles' : Profiled(profiles'[q])
  BY <1>2 DEF Inv
<1>4. profiles' = [q \in DOMAIN profiles' |-> profiles'[q]]
  BY <1>1 DEF Inv
<1>5. DOMAIN profiles' \subseteq Profiles /\ current' \in Profiles \cup {NoProfile}
  BY <1>1, <1>2 DEF Inv
<1>6. QED BY <1>3, <1>4, <1>5 DEF Inv

LEMMA CommandKeeps ==
    ASSUME Inv, NEW p \in Profiles, profileCmd(p)
    PROVE  Inv'
<1>1. ASSUME Exists(p) PROVE Profiled(profiles[p])
  BY <1>1 DEF Inv, Exists
<1>2. ASSUME NEW key \in Points, profile_create(p, key) PROVE Inv'
  <2>1. PICK P : P = ResetProfile(key)
    OBVIOUS
  <2>2. Profiled(P)
    BY <2>1, ResetKeeps
  <2>3. profiles' = [z \in DOMAIN profiles \cup {p} |-> IF z = p THEN P ELSE profiles[z]]
        /\ current' = current
    BY <1>2, <2>1 DEF profile_create, Put
  <2>4. DOMAIN profiles' = DOMAIN profiles \cup {p}
    BY <2>3
  <2>5. \A q \in DOMAIN profiles' : Profiled(profiles'[q])
    BY <2>2, <2>3 DEF Inv
  <2>6. profiles' = [q \in DOMAIN profiles' |-> profiles'[q]]
    BY <2>3
  <2>7. DOMAIN profiles' \subseteq Profiles /\ current' \in Profiles \cup {NoProfile}
    BY <2>3, <2>4 DEF Inv
  <2>8. QED BY <2>5, <2>6, <2>7 DEF Inv
<1>3. ASSUME NEW key \in Points, profile_reset(p, key) PROVE Inv'
  <2>1. PICK P : P = ResetProfile(key)
    OBVIOUS
  <2>2. Profiled(P)
    BY <2>1, ResetKeeps
  <2>3. Exists(p) /\ Set(p, P)
    BY <1>3, <2>1 DEF profile_reset
  <2>4. QED BY <2>2, <2>3, SetKeeps
<1>4. ASSUME NEW key \in Points, MarkEnter(p, key) PROVE Inv'
  <2> DEFINE f == FALSE
  <2>1. PICK P : P = mark_block_enter(profiles[p], key, f, f, f)
    OBVIOUS
  <2>2. Exists(p) /\ Set(p, P)
    BY <1>4, <2>1 DEF MarkEnter
  <2>3. f \in BOOLEAN
    OBVIOUS
  <2> HIDE DEF f
  <2>4. PICK R : R = profiles[p] /\ Profiled(R)
    BY <1>1, <2>2
  <2>5. P = mark_block_enter(R, key, f, f, f)
    BY <2>1, <2>4
  <2>6. Profiled(P)
    BY <2>3, <2>4, <2>5, EnterKeeps
  <2>7. QED BY <2>2, <2>6, SetKeeps
<1>5. ASSUME NEW key \in Points, LeaveBlock(p, key) PROVE Inv'
  <2>1. PICK P : P = mark_block_exit(profiles[p], key)
    OBVIOUS
  <2>2. Exists(p) /\ Set(p, P)
    BY <1>5, <2>1 DEF LeaveBlock
  <2>3. Profiled(P)
    BY <1>1, <2>1, <2>2, ExitKeeps
  <2>4. QED BY <2>2, <2>3, SetKeeps
<1>6. ASSUME NEW b \in BOOLEAN, profile_freeze(p, b) PROVE Inv'
  <2>1. PICK P : P = [profiles[p] EXCEPT !.frozen = b]
    OBVIOUS
  <2>2. Exists(p) /\ Set(p, P)
    BY <1>6, <2>1 DEF profile_freeze
  <2>3. Profiled(P)
    BY <1>1, <2>1, <2>2, FlagsKeep
  <2>4. QED BY <2>2, <2>3, SetKeeps
<1>7. ASSUME NEW b \in BOOLEAN, profile_enable(p, b) PROVE Inv'
  <2>1. PICK P : P = [profiles[p] EXCEPT !.enabled = b]
    OBVIOUS
  <2>2. Exists(p) /\ Set(p, P)
    BY <1>7, <2>1 DEF profile_enable
  <2>3. Profiled(P)
    BY <1>1, <2>1, <2>2, FlagsKeep
  <2>4. QED BY <2>2, <2>3, SetKeeps
<1>8. CASE profile_switch(p)
  BY <1>8 DEF profile_switch, Inv
<1>9. CASE profile_close(p)
  <2>1. PICK P, R : P = ClosedProfile(profiles[p]) /\ R = profiles[p]
    OBVIOUS
  <2>2. Exists(p) /\ Set(p, P)
    BY <1>9, <2>1 DEF profile_close
  <2>3. Profiled(R)
    BY <1>1, <2>1, <2>2
  <2>4. PICK n \in Nat : n = R.sp
    BY <2>3, SoundTyped DEF Profiled
  <2>5. P = PopFrames(R, n)
    BY <2>1, <2>4 DEF ClosedProfile
  <2>6. Profiled(P)
    BY <2>3, <2>5, PopFramesKeep
  <2>7. QED BY <2>2, <2>6, SetKeeps
<1>10. QED BY <1>2, <1>3, <1>4, <1>5, <1>6, <1>7, <1>8, <1>9 DEF profileCmd

LEMMA ProgramKeeps ==
    ASSUME Inv, \/ CountInstruction
                \/ \E m \in Methods : CallMethod(m)
                \/ \E b \in Blocks, inv, athrow \in BOOLEAN : EnterTrap(b, inv, athrow)
    PROVE  Inv'
<1>1. Exists(current)
  BY DEF CountInstruction, CallMethod, EnterTrap
<1>2. PICK P : P = profiles[current] /\ Profiled(P)
  BY <1>1 DEF Inv, Exists
<1>3. PICK p : p = current
  OBVIOUS
<1>4. CASE CountInstruction
  <2>1. PICK Q : Q = Counted(P)
    OBVIOUS
  <2>2. Set(p, Q)
    BY <1>2, <1>3, <1>4, <2>1 DEF CountInstruction, Counted
  <2>3. Profiled(Q)
    BY <1>2, <2>1, CountKeeps
  <2>4. QED BY <1>1, <1>3, <2>2, <2>3, SetKeeps
<1>5. ASSUME NEW m \in Methods, CallMethod(m) PROVE Inv'
  <2> DEFINE f == FALSE
             t == TRUE
  <2>1. PICK Q : Q = mark_block_enter(P, m, t, f, f)
    OBVIOUS
  <2>2. Set(p, Q)
    BY <1>2, <1>3, <1>5, <2>1 DEF CallMethod
  <2>3. f \in BOOLEAN /\ t \in BOOLEAN /\ m \in Points
    BY DEF Points
  <2> HIDE DEF f, t
  <2>4. Profiled(Q)
    BY <1>2, <2>1, <2>3, EnterKeeps
  <2>5. QED BY <1>1, <1>3, <2>2, <2>4, SetKeeps
<1>6. ASSUME NEW b \in Blocks, NEW inv \in BOOLEAN, NEW athrow \in BOOLEAN,
             EnterTrap(b, inv, athrow)
      PROVE  Inv'
  <2> DEFINE f == FALSE
  <2>1. PICK Q : Q = mark_block_enter(P, b, f, inv, athrow)
    OBVIOUS
  <2>2. Set(p, Q)
    BY <1>2, <1>3, <1>6, <2>1 DEF EnterTrap
  <2>3. f \in BOOLEAN /\ b \in Points
    BY DEF Points
  <2> HIDE DEF f
  <2>4. Profiled(Q)
    BY <1>2, <2>1, <2>3, EnterKeeps
  <2>5. QED BY <1>1, <1>3, <2>2, <2>4, SetKeeps
<1>7. QED BY <1>4, <1>5, <1>6

(* Inv holds in every state a program and its user can bring the profiler  *)
(* to: every profile is Profiled, whatever order it is created, reset,     *)
(* frozen, switched, closed and fed in.                                    *)
THEOREM InvHolds == Spec => []Inv
<1>1. Init => Inv
  BY DEF Init, Inv
<1>2. Inv /\ [Next]_vars => Inv'
  <2>1. SUFFICES ASSUME Inv, [Next]_vars PROVE Inv'
    OBVIOUS
  <2>2. CASE UNCHANGED vars
    BY <2>1, <2>2 DEF vars, Inv
  <2>3. CASE Next
    <3>1. ASSUME NEW p \in Profiles, profileCmd(p) PROVE Inv'
      BY <2>1, <3>1, CommandKeeps
    <3>2. CASE \/ CountInstruction
               \/ \E m \in Methods : CallMethod(m)
               \/ \E b \in Blocks, inv, athrow \in BOOLEAN : EnterTrap(b, inv, athrow)
      BY <2>1, <3>2, ProgramKeeps
    <3>3. QED BY <2>3, <3>1, <3>2 DEF Next
  <2>4. QED BY <2>1, <2>2, <2>3
<1>3. QED BY <1>1, <1>2, PTL DEF Spec

(* Every counted instruction is in exactly one self count, as long as the  *)
(* lowest block was never left: a call hands the counting over to the new  *)
(* frame, a return gives it back, and what is frozen counts nothing.       *)
THEOREM SelfCounts == Spec => []SelfCountsAddUp
<1>1. Inv => SelfCountsAddUp
  BY DEF Inv, Profiled, SelfRight, SelfCountsAddUp
<1>2. QED BY <1>1, InvHolds, PTL

(* A recursive function is counted once: what a popped frame spent is      *)
(* taken off the next frame of its entry point, so total is the number of  *)
(* instructions executed while the entry point was on the stack.           *)
THEOREM TotalsCorrect == Spec => []TotalsCountOnce
<1>1. ASSUME Inv PROVE TotalsCountOnce
  <2>1. ASSUME NEW p \in DOMAIN profiles, NEW P, P = profiles[p],
               NEW e \in DOMAIN P.eps \ {P.program}
        PROVE  P.eps[e].total + LiveTotal(P, e) = P.inclusive[e]
    <3>1. TotalsRight(P) /\ Sound(P)
      BY <1>1, <2>1 DEF Inv, Profiled
    <3>2. e \in Points /\ Given(P, e) = P.eps[e].total
      BY <3>1, SoundTyped DEF Given
    <3>3. QED BY <3>1, <3>2 DEF TotalsRight
  <2>2. QED BY <2>1 DEF TotalsCountOnce
<1>2. QED BY <1>1, InvHolds, PTL

(* first_stack_frame_index and next are the lowest frame of an entry point *)
(* and the nearest one below, in every stack the profiler can build.       *)
THEOREM LinksCorrect == Spec => []RecursionLinks
<1>1. ASSUME Inv PROVE RecursionLinks
  <2>1. ASSUME NEW p \in DOMAIN profiles, NEW e \in DOMAIN profiles[p].eps \ {profiles[p].program}
        PROVE  LinksOf(profiles[p], e, {i \in Frames(profiles[p]) : profiles[p].stack[i].ep = e})
    <3>1. PICK P : P = profiles[p]
      OBVIOUS
    <3>2. Sound(P) /\ Linked(P)
      BY <1>1, <3>1 DEF Inv, Profiled
    <3>3. PICK of : of = {i \in Frames(P) : P.stack[i].ep = e}
      OBVIOUS
    <3>4. e \in DOMAIN P.eps \ {P.program}
      BY <3>1
    <3>5. LinksOf(P, e, of)
      BY <3>2, <3>3, <3>4, LinkedMeans
    <3>6. QED BY <3>1, <3>3, <3>5
  <2>2. QED BY <2>1 DEF RecursionLinks, LinksOf
<1>2. QED BY <1>1, InvHolds, PTL

(* The caller lists of an entry point add up to its total.                 *)
THEOREM ArcsCorrect == Spec => []CallersShareTotal
<1>1. ASSUME Inv PROVE CallersShareTotal
  <2>1. ASSUME NEW p \in DOMAIN profiles, NEW P, P = profiles[p],
               NEW e \in DOMAIN P.eps \ {P.program}
        PROVE  SumFunctionOnSet(P.arcs, {a \in DOMAIN P.arcs : a[2] = e}) = P.eps[e].total
    <3>1. ArcsRight(P) /\ Sound(P)
      BY <1>1, <2>1 DEF Inv, Profiled
    <3>2. e \in Points /\ Given(P, e) = P.eps[e].total
      BY <3>1, SoundTyped DEF Given
    <3>3. QED BY <3>1, <3>2 DEF ArcsRight, Into
  <2>2. QED BY <2>1 DEF CallersShareTotal
<1>2. QED BY <1>1, InvHolds, PTL

(* The tables and stacks have their types: the stack is never empty, every *)
(* frame is of a registered entry point and links to frames below it.      *)
THEOREM TypeCorrect == Spec => []TypeOK
<1>1. ASSUME Inv PROVE TypeOK
  <2>1. ASSUME NEW p \in DOMAIN profiles, NEW P, P = profiles[p]
        PROVE  /\ P.sp \in 1..(P.calls + 1)
               /\ DOMAIN P.eps \subseteq Points
               /\ \A i \in Frames(P) : /\ P.stack[i].ep \in DOMAIN P.eps
                                       /\ P.stack[i].next \in -1..(i - 1)
               /\ \A e \in DOMAIN P.eps : P.eps[e].first \in -1..(P.sp - 1)
    <3>1. Sound(P) /\ Linked(P) /\ P.sp <= P.calls + 1 /\ P \in Profile
      BY <1>1, <2>1 DEF Inv, Profiled, Sound
    <3>2. /\ P.sp \in Nat /\ P.sp >= 1 /\ P.calls \in Nat /\ DOMAIN P.eps \subseteq Points
      BY <3>1, SoundTyped, ProfileTyped
    <3>3. P.sp \in 1..(P.calls + 1)
      BY <3>1, <3>2
    <3>4. ASSUME NEW i \in Frames(P)
          PROVE  P.stack[i].ep \in DOMAIN P.eps /\ P.stack[i].next \in -1..(i - 1)
      <4>1. P.stack[i].ep \in DOMAIN P.eps /\ P.stack[i].next \in Int /\ i \in Nat
        BY <3>1, SoundTyped
      <4>2. P.stack[i].next # -1 => P.stack[i].next \in Nat /\ P.stack[i].next < i
        BY <3>1, SoundTyped DEF Linked
      <4>3. QED BY <4>1, <4>2
    <3>5. ASSUME NEW e \in DOMAIN P.eps PROVE P.eps[e].first \in -1..(P.sp - 1)
      <4>1. P.eps[e].first # -1 => P.eps[e].first \in 0..(P.sp - 1)
        BY <3>1 DEF Linked, Frames
      <4>2. P.eps[e].first \in Int
        BY <3>1, SoundTyped
      <4>3. QED BY <3>2, <4>1, <4>2
    <3>6. QED BY <3>2, <3>3, <3>4, <3>5
  <2>2. QED BY <1>1, <2>1 DEF TypeOK, Inv
<1>2. QED BY <1>1, InvHolds, PTL
=============================================================================
