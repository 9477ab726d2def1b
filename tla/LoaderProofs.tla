---------------------------- MODULE LoaderProofs ----------------------------
(***************************************************************************)
(* Proofs about the loader: the layout of objects and method vectors, the  *)
(* headers in simulated memory and the class tables are right whatever     *)
(* files are missing and whatever order classes are loaded in, for any     *)
(* class files.                                                            *)
(***************************************************************************)
EXTENDS Loader, FiniteSetTheorems, TLAPS

(***************************************************************************)
(* Induction on a number.                                                  *)
(***************************************************************************)
LEMMA LeastSubset ==
    ASSUME NEW S, IsFiniteSet(S), NEW T, T \subseteq SUBSET S, T # {}
    PROVE  \E x \in T : \A y \in T : ~(y \subseteq x /\ y # x)
<1> DEFINE R == StrictSubsetOrdering(S)
           F == FiniteSubsetsOf(S)
<1>1. IsWellFoundedOn(R, F)
  BY FS_StrictSubsetOrderingWellFounded
<1>2. T \subseteq F
  BY FS_FiniteSubsetsOfFinite
<1>3. PICK x \in T : \A y \in T : <<y, x>> \notin R
  <2> HIDE DEF R, F
  <2>1. QED BY <1>1, <1>2, WFMin
<1>4. ASSUME NEW y \in T, y \subseteq x, y # x PROVE FALSE
  <2>1. <<y, x>> \in R
    BY <1>4 DEF StrictSubsetOrdering
  <2>2. QED BY <1>3, <2>1
<1>5. QED BY <1>4

LEMMA Induction ==
    ASSUME NEW n \in Nat, NEW T, 0 \in T, \A k \in 0..n - 1 : k \in T => k + 1 \in T
    PROVE  n \in T
<1> SUFFICES ASSUME n \notin T PROVE FALSE
  OBVIOUS
<1> DEFINE B == {0..k : k \in (0..n) \ T}
<1>1. B \subseteq SUBSET (0..n) /\ B # {}
  OBVIOUS
<1>2. IsFiniteSet(0..n)
  BY FS_Interval
<1>3. PICK x \in B : \A y \in B : ~(y \subseteq x /\ y # x)
  <2>1. PICK N : N = 0..n
    OBVIOUS
  <2>2. B \subseteq SUBSET N /\ B # {} /\ IsFiniteSet(N)
    BY <1>1, <1>2, <2>1
  <2> HIDE DEF B
  <2>3. QED BY <2>2, LeastSubset
<1>4. PICK k \in (0..n) \ T : x = 0..k
  BY <1>3
<1>5. k # 0 /\ k - 1 \in 0..n - 1 /\ k = (k - 1) + 1
  BY <1>4
<1>6. k - 1 \notin T
  BY <1>4, <1>5
<1>7. 0..k - 1 \in B
  BY <1>5, <1>6
<1>8. 0..k - 1 \subseteq 0..k /\ k \in 0..k /\ k \notin 0..k - 1
  BY <1>5
<1>9. QED BY <1>3, <1>4, <1>7, <1>8


(***************************************************************************)
(* The constants.                                                          *)
(***************************************************************************)
LEMMA Files ==
    /\ Kinds \subseteq Classes /\ Null \notin Classes /\ Super \in [Classes -> Classes]
    /\ \A c \in Classes :
          /\ FieldsOf[c] \in Seq([size : {1, 2}, static : BOOLEAN])
          /\ MethodsOf[c] \in Seq(Range(MethodsOf[c]))
          /\ VirtualMethods(c) \subseteq DOMAIN MethodsOf[c]
          /\ Bucket[c] \in Range(Bucket)
          /\ FileSize[c] \in Nat /\ Footprint[c] \in Nat
    /\ CM_SIZE \in Nat /\ Boot \in Seq(Classes)
    /\ IsInjective(TrapOf)
    /\ FilesAtBoot \subseteq [Classes -> {"missing", "bad", "good"}]
  BY LoaderAssumption DEF VirtualMethods, Range

LEMMA FieldFacts ==
    ASSUME NEW c \in Classes
    PROVE  /\ Len(FieldsOf[c]) \in Nat /\ DOMAIN FieldsOf[c] = 1..Len(FieldsOf[c])
           /\ \A k \in 1..Len(FieldsOf[c]) :
                 /\ FieldsOf[c][k].size \in {1, 2} /\ FieldsOf[c][k].static \in BOOLEAN
<1> DEFINE F == [size : {1, 2}, static : BOOLEAN]
<1>1. FieldsOf[c] \in Seq(F)
  BY Files
<1>2. \A f \in F : f.size \in {1, 2} /\ f.static \in BOOLEAN
  OBVIOUS
<1> HIDE DEF F
<1>3. QED BY <1>1, <1>2

LEMMA MethodFacts ==
    ASSUME NEW c \in Classes
    PROVE  /\ Len(MethodsOf[c]) \in Nat /\ DOMAIN MethodsOf[c] = 1..Len(MethodsOf[c])
           /\ VirtualMethods(c) \subseteq 1..Len(MethodsOf[c])
<1>1. PICK M : M = Range(MethodsOf[c])
  OBVIOUS
<1>2. MethodsOf[c] \in Seq(M) /\ VirtualMethods(c) \subseteq DOMAIN MethodsOf[c]
  BY Files, <1>1
<1>3. QED BY <1>2

(* No class is its own superclass at a distance: what holds of a class     *)
(* when it holds of its superclass holds of all.                           *)
LEMMA ClassInduction ==
    ASSUME NEW T, \A c \in Classes : (Super[c] = c \/ Super[c] \in T) => c \in T
    PROVE  Classes \subseteq T
<1>1. PICK order \in [Classes -> 0..Cardinality(Classes)] :
            \A c \in Classes : Super[c] # c => order[Super[c]] < order[c]
  BY LoaderAssumption
<1>2. PICK N \in Nat : N = Cardinality(Classes)
  BY LoaderAssumption, FS_CardinalityType
<1>3. order \in [Classes -> 0..N]
  BY <1>1, <1>2
<1> DEFINE S == {n \in Nat : \A c \in Classes : order[c] < n => c \in T}
<1>4. 0 \in S
  BY <1>3
<1>5. ASSUME NEW k \in 0..N, k \in S PROVE k + 1 \in S
  <2>1. ASSUME NEW c \in Classes, order[c] < k + 1 PROVE c \in T
    <3>1. CASE Super[c] = c
      BY <3>1
    <3>2. CASE Super[c] # c
      <4>1. order[Super[c]] < order[c] /\ Super[c] \in Classes
        BY <1>1, <3>2, Files
      <4>2. order[Super[c]] < k
        BY <1>3, <2>1, <4>1
      <4>3. QED BY <1>5, <4>1, <4>2
    <3>3. QED BY <3>1, <3>2
  <2>2. QED BY <2>1
<1>6. N + 1 \in S
  <2>1. \A k \in 0..(N + 1) - 1 : k \in S => k + 1 \in S
    BY <1>5
  <2>2. PICK n \in Nat : n = N + 1
    OBVIOUS
  <2> HIDE DEF S
  <2>3. \A k \in 0..n - 1 : k \in S => k + 1 \in S
    BY <2>1, <2>2
  <2>4. QED BY <1>4, <2>2, <2>3, Induction
<1>7. QED BY <1>3, <1>6

(***************************************************************************)
(* The slots of a class's own fields.                                      *)
(***************************************************************************)
SlotsStep(c, k, s) == IF k = 0 THEN <<>> ELSE s \o FieldSlots(c, k)

LEMMA FieldSlotsFacts ==
    ASSUME NEW c \in Classes, NEW k \in 1..Len(FieldsOf[c])
    PROVE  /\ FieldSlots(c, k) \in Seq(Names \cup {<<>>})
           /\ Len(FieldSlots(c, k)) = IF FieldsOf[c][k].static THEN 0 ELSE FieldsOf[c][k].size
           /\ ~FieldsOf[c][k].static => FieldSlots(c, k)[1] = <<c, k>>
<1>1. FieldsOf[c][k].size \in {1, 2} /\ FieldsOf[c][k].static \in BOOLEAN
  BY FieldFacts
<1>2. Len(FieldsOf[c]) \in Nat
  BY FieldFacts
<1>3. <<c, k>> \in Names
  BY <1>2 DEF Names
<1>4. PICK x : x = <<c, k>>
  OBVIOUS
<1>5. CASE FieldsOf[c][k].static
  <2>1. FieldSlots(c, k) = <<>>
    BY <1>5 DEF FieldSlots
  <2>2. QED BY <2>1, <1>5
<1>6. CASE ~FieldsOf[c][k].static /\ FieldsOf[c][k].size = 1
  <2>1. FieldSlots(c, k) = <<x>>
    BY <1>4, <1>6 DEF FieldSlots
  <2>2. QED BY <2>1, <1>3, <1>4, <1>6
<1>7. CASE ~FieldsOf[c][k].static /\ FieldsOf[c][k].size = 2
  <2>1. FieldSlots(c, k) = <<x, <<>>>>
    BY <1>4, <1>7 DEF FieldSlots
  <2>2. QED BY <2>1, <1>3, <1>4, <1>7
<1>8. QED BY <1>1, <1>5, <1>6, <1>7

LEMMA OwnSlotsExists ==
    ASSUME NEW c \in Classes
    PROVE  \E f : f = [k \in 0..Len(FieldsOf[c]) |-> SlotsStep(c, k, f[k - 1])]
<1> DEFINE N == Len(FieldsOf[c])
           Solves(f, n) == f = [k \in 0..n |-> SlotsStep(c, k, f[k - 1])]
           T == {n \in Nat : \E f : Solves(f, n)}
<1>1. N \in Nat
  BY FieldFacts
<1>2. 0 \in T
  <2> DEFINE f == [k \in 0..0 |-> <<>>]
  <2>1. Solves(f, 0)
    BY DEF SlotsStep
  <2>2. QED BY <2>1
<1>3. ASSUME NEW n \in 0..N - 1, n \in T PROVE n + 1 \in T
  <2>1. PICK f : Solves(f, n)
    BY <1>3
  <2> DEFINE g == [k \in 0..n + 1 |-> IF k = n + 1 THEN SlotsStep(c, k, f[n]) ELSE f[k]]
  <2>2. ASSUME NEW k \in 0..n + 1 PROVE g[k] = SlotsStep(c, k, g[k - 1])
    <3>1. CASE k = n + 1
      BY <3>1, <1>1
    <3>2. CASE k # n + 1 /\ k # 0
      <4>1. k \in 0..n /\ k - 1 \in 0..n /\ k - 1 # n + 1 /\ k - 1 \in 0..n + 1
        BY <3>2, <1>1
      <4>2. QED BY <4>1, <3>2, <2>1
    <3>3. CASE k = 0
      <4>1. k \in 0..n /\ k # n + 1
        BY <3>3, <1>1
      <4>2. g[k] = f[k] /\ f[k] = <<>>
        BY <4>1, <3>3, <2>1 DEF SlotsStep
      <4>3. QED BY <4>2, <3>3 DEF SlotsStep
    <3>4. QED BY <3>1, <3>2, <3>3
  <2>3. DOMAIN g = 0..n + 1 /\ g = [k \in 0..n + 1 |-> g[k]]
    OBVIOUS
  <2> HIDE DEF g
  <2>4. Solves(g, n + 1)
    BY <2>2, <2>3
  <2> HIDE DEF Solves
  <2>5. n + 1 \in Nat
    BY <1>1
  <2>6. QED BY <2>4, <2>5
<1>4. N \in T
  <2> HIDE DEF T, N
  <2>1. QED BY <1>1, <1>2, <1>3, Induction
<1>5. QED BY <1>4

LEMMA OwnSlotsStep ==
    ASSUME NEW c \in Classes
    PROVE  \A k \in 0..Len(FieldsOf[c]) :
              OwnSlots(c)[k] = IF k = 0 THEN <<>> ELSE OwnSlots(c)[k - 1] \o FieldSlots(c, k)
<1> DEFINE slots[k \in 0..Len(FieldsOf[c])] ==
               IF k = 0 THEN <<>> ELSE slots[k - 1] \o FieldSlots(c, k)
<1>1. OwnSlots(c) = slots
  BY DEF OwnSlots
<1>2. PICK f : f = [k \in 0..Len(FieldsOf[c]) |-> SlotsStep(c, k, f[k - 1])]
  BY OwnSlotsExists
<1>3. f = [k \in 0..Len(FieldsOf[c]) |-> IF k = 0 THEN <<>> ELSE f[k - 1] \o FieldSlots(c, k)]
  BY <1>2 DEF SlotsStep
<1>4. slots = [k \in 0..Len(FieldsOf[c]) |->
                  IF k = 0 THEN <<>> ELSE slots[k - 1] \o FieldSlots(c, k)]
  BY <1>3
<1> HIDE DEF slots
<1>5. QED BY <1>1, <1>4

(* A sequence that goes on where another one ends.                         *)
Extends(s, t) ==
    /\ Len(t) =< Len(s)
    /\ \A i \in 1..Len(t) : s[i] = t[i]

LEMMA ConcatExtends ==
    ASSUME NEW S, NEW t \in Seq(S), NEW u \in Seq(S)
    PROVE  /\ t \o u \in Seq(S) /\ Extends(t \o u, t)
           /\ Len(t \o u) = Len(t) + Len(u)
           /\ \A i \in 1..Len(u) : (t \o u)[Len(t) + i] = u[i]
  BY DEF Extends

LEMMA ExtendsTransitive ==
    ASSUME NEW S, NEW s \in Seq(S), NEW t \in Seq(S), NEW u \in Seq(S),
           Extends(s, t), Extends(t, u)
    PROVE  Extends(s, u)
  BY DEF Extends

LEMMA OwnSlotsAre ==
    ASSUME NEW c \in Classes
    PROVE  \A k \in 0..Len(FieldsOf[c]) :
              /\ OwnSlots(c)[k] \in Seq(Names \cup {<<>>})
              /\ \A j \in 0..k : Extends(OwnSlots(c)[k], OwnSlots(c)[j])
<1> DEFINE N == Len(FieldsOf[c])
           Ok(k) == /\ OwnSlots(c)[k] \in Seq(Names \cup {<<>>})
                    /\ \A j \in 0..k : Extends(OwnSlots(c)[k], OwnSlots(c)[j])
<1>1. PICK S : S = Names \cup {<<>>}
  OBVIOUS
<1>2. PICK own : own = OwnSlots(c)
  OBVIOUS
<1>3. N \in Nat
  BY FieldFacts
<1>4. own[0] = <<>> /\ \A k \in 1..N : own[k] = own[k - 1] \o FieldSlots(c, k)
  <2>1. \A k \in 0..N : own[k] = IF k = 0 THEN <<>> ELSE own[k - 1] \o FieldSlots(c, k)
    BY <1>2, OwnSlotsStep
  <2> HIDE DEF N
  <2>2. 0 \in 0..N /\ \A k \in 1..N : k \in 0..N /\ k # 0
    BY <1>3
  <2>3. QED BY <2>1, <2>2
<1> SUFFICES ASSUME NEW n \in 0..N PROVE Ok(n)
  OBVIOUS
<1> DEFINE T == {k \in Nat : k =< n => Ok(k)}
<1>5. 0 \in T
  <2>1. own[0] \in Seq(S) /\ Extends(own[0], own[0])
    BY <1>4 DEF Extends
  <2>2. \A j \in 0..0 : j = 0
    OBVIOUS
  <2>3. QED BY <2>1, <2>2, <1>1, <1>2
<1>6. ASSUME NEW k \in 0..n - 1, k \in T PROVE k + 1 \in T
  <2>1. k \in 0..N /\ k + 1 \in 1..N /\ k \in Nat /\ (k + 1) - 1 = k
    BY <1>3
  <2>2. own[k] \in Seq(S) /\ \A j \in 0..k : Extends(own[k], own[j])
    BY <1>1, <1>2, <1>6
  <2>3. PICK f : f = FieldSlots(c, k + 1)
    OBVIOUS
  <2>4. f \in Seq(S)
    BY <2>1, <2>3, <1>1, FieldSlotsFacts
  <2>5. own[k + 1] = own[k] \o f
    BY <2>1, <2>3, <1>4
  <2>6. own[k + 1] \in Seq(S) /\ Extends(own[k + 1], own[k])
    BY <2>2, <2>4, <2>5, ConcatExtends
  <2>7. ASSUME NEW j \in 0..k + 1 PROVE Extends(own[k + 1], own[j])
    <3>1. CASE j = k + 1
      BY <3>1, <2>6 DEF Extends
    <3>2. CASE j # k + 1
      <4>1. j \in 0..k
        BY <3>2, <2>1
      <4>2. Extends(own[k], own[j])
        BY <4>1, <2>2
      <4>3. QED BY <4>2, <2>6, <2>2 DEF Extends
    <3>3. QED BY <3>1, <3>2
  <2>8. QED BY <2>1, <2>6, <2>7, <1>1, <1>2
<1>7. n \in T
  <2> HIDE DEF T
  <2>1. QED BY <1>3, <1>5, <1>6, Induction
<1>8. QED BY <1>7

(* Where the slots of field k of class c are, among those of the class.    *)
LEMMA OwnSlotsOf ==
    ASSUME NEW c \in Classes, NEW k \in 1..Len(FieldsOf[c]), ~FieldsOf[c][k].static
    PROVE  /\ Len(OwnSlots(c)[k]) = Len(OwnSlots(c)[k - 1]) + FieldsOf[c][k].size
           /\ OwnSlots(c)[k][Len(OwnSlots(c)[k - 1]) + 1] = <<c, k>>
<1>1. PICK S : S = Names \cup {<<>>}
  OBVIOUS
<1>2. PICK own : own = OwnSlots(c)
  OBVIOUS
<1>3. PICK f : f = FieldSlots(c, k)
  OBVIOUS
<1>4. k \in 0..Len(FieldsOf[c]) /\ k - 1 \in 0..Len(FieldsOf[c]) /\ k # 0
  BY FieldFacts
<1>5. own[k] = own[k - 1] \o f /\ own[k - 1] \in Seq(S)
  BY <1>1, <1>2, <1>3, <1>4, OwnSlotsStep, OwnSlotsAre
<1>6. f \in Seq(S) /\ Len(f) = FieldsOf[c][k].size /\ f[1] = <<c, k>>
  BY <1>1, <1>3, FieldSlotsFacts
<1>7. FieldsOf[c][k].size \in {1, 2}
  BY FieldFacts
<1>8. Len(own[k]) = Len(own[k - 1]) + Len(f) /\ own[k][Len(own[k - 1]) + 1] = f[1]
  BY <1>5, <1>6, <1>7, ConcatExtends
<1>9. QED BY <1>2, <1>6, <1>8

(***************************************************************************)
(* Walks: along superclasses, or along a chain of the hash table.          *)
(***************************************************************************)
Walk(f, C, R, up) == f = [c \in C |-> IF c \in R THEN <<c>> ELSE <<c>> \o f[up[c]]]

LEMMA WalkExists ==
    ASSUME NEW C, NEW R, NEW up, NEW N \in Nat, NEW order \in [C -> 0..N],
           \A c \in C \ R : up[c] \in C /\ order[up[c]] < order[c]
    PROVE  \E f : Walk(f, C, R, up)
<1> DEFINE B(n) == {c \in C : order[c] < n}
           T == {n \in Nat : \E f : Walk(f, B(n), R, up)}
<1>1. 0 \in T
  <2> DEFINE f == [c \in {} |-> <<>>]
  <2>1. B(0) = {}
    OBVIOUS
  <2>2. Walk(f, {}, R, up)
    BY DEF Walk
  <2>3. QED BY <2>1, <2>2
<1>2. ASSUME NEW n \in 0..(N + 1) - 1, n \in T PROVE n + 1 \in T
  <2>1. PICK f : Walk(f, B(n), R, up)
    BY <1>2
  <2> DEFINE g == [c \in B(n + 1) |-> IF c \in R THEN <<c>> ELSE <<c>> \o f[up[c]]]
  <2>2. ASSUME NEW c \in B(n) PROVE f[c] = g[c]
    <3>1. c \in B(n + 1)
      OBVIOUS
    <3>2. f[c] = IF c \in R THEN <<c>> ELSE <<c>> \o f[up[c]]
      <4> HIDE DEF B
      <4>1. QED BY <2>1 DEF Walk
    <3>3. QED BY <3>1, <3>2
  <2>3. ASSUME NEW c \in B(n + 1) PROVE g[c] = IF c \in R THEN <<c>> ELSE <<c>> \o g[up[c]]
    <3>1. CASE c \in R
      BY <3>1
    <3>2. CASE c \notin R
      <4>1. up[c] \in B(n)
        BY <3>2
      <4>2. f[up[c]] = g[up[c]]
        BY <4>1, <2>2
      <4>3. QED BY <3>2, <4>2
    <3>3. QED BY <3>1, <3>2
  <2>4. DOMAIN g = B(n + 1) /\ g = [c \in B(n + 1) |-> g[c]]
    OBVIOUS
  <2> HIDE DEF g, B
  <2>5. Walk(g, B(n + 1), R, up)
    BY <2>3, <2>4 DEF Walk
  <2>6. n + 1 \in Nat
    OBVIOUS
  <2>7. QED BY <2>5, <2>6
<1>3. N + 1 \in T
  <2>1. PICK m \in Nat : m = N + 1
    OBVIOUS
  <2> HIDE DEF T
  <2>2. \A n \in 0..m - 1 : n \in T => n + 1 \in T
    BY <1>2, <2>1
  <2>3. QED BY <1>1, <2>1, <2>2, Induction
<1>4. B(N + 1) = C
  OBVIOUS
<1>5. QED BY <1>3, <1>4

LEMMA ChainIs ==
    \A c \in Classes : Chain[c] = IF Super[c] = c THEN <<c>> ELSE <<c>> \o Chain[Super[c]]
<1> DEFINE R == {c \in Classes : Super[c] = c}
<1>1. PICK order \in [Classes -> 0..Cardinality(Classes)] :
            \A c \in Classes : Super[c] # c => order[Super[c]] < order[c]
  BY LoaderAssumption
<1>2. PICK N \in Nat : N = Cardinality(Classes)
  BY LoaderAssumption, FS_CardinalityType
<1>3. order \in [Classes -> 0..N]
  BY <1>1, <1>2
<1>4. \A c \in Classes \ R : Super[c] \in Classes /\ order[Super[c]] < order[c]
  BY <1>1, Files
<1>5. PICK f : Walk(f, Classes, R, Super)
  <2> HIDE DEF R
  <2>1. QED BY <1>3, <1>4, WalkExists
<1>6. f = [c \in Classes |-> IF Super[c] = c THEN <<c>> ELSE <<c>> \o f[Super[c]]]
  BY <1>5 DEF Walk
<1>7. Chain = [c \in Classes |-> IF Super[c] = c THEN <<c>> ELSE <<c>> \o Chain[Super[c]]]
  BY <1>6 DEF Chain
<1>8. QED BY <1>7

LEMMA ChainType == \A c \in Classes : Chain[c] \in Seq(Classes) /\ Len(Chain[c]) >= 1 /\ Chain[c][1] = c
<1> DEFINE T == {c \in Classes : Chain[c] \in Seq(Classes) /\ Len(Chain[c]) >= 1 /\ Chain[c][1] = c}
<1>1. ASSUME NEW c \in Classes, Super[c] = c \/ Super[c] \in T PROVE c \in T
  <2>1. PICK x : x = Chain[Super[c]]
    OBVIOUS
  <2>2. Chain[c] = IF Super[c] = c THEN <<c>> ELSE <<c>> \o x
    BY ChainIs, <2>1
  <2>3. CASE Super[c] = c
    <3>1. PICK y : y = <<c>>
      OBVIOUS
    <3>2. y \in Seq(Classes) /\ Len(y) >= 1 /\ y[1] = c
      BY <3>1
    <3>3. QED BY <3>1, <3>2, <2>2, <2>3
  <2>4. CASE Super[c] # c
    <3>1. PICK y : y = <<c>> \o x
      OBVIOUS
    <3>2. x \in Seq(Classes)
      BY <1>1, <2>1, <2>4
    <3>3. y \in Seq(Classes) /\ Len(y) >= 1 /\ y[1] = c
      BY <3>1, <3>2
    <3>4. QED BY <3>1, <3>3, <2>2, <2>4
  <2>5. QED BY <2>3, <2>4
<1>2. Classes \subseteq T
  <2> HIDE DEF T
  <2>1. QED BY <1>1, ClassInduction
<1>3. QED BY <1>2

(* The chain of a class is the class before the chain of its superclass.   *)
LEMMA ChainGoesUp ==
    ASSUME NEW c \in Classes
    PROVE  /\ Super[c] = c => Chain[c] = <<c>> /\ Range(Chain[c]) = {c}
           /\ Super[c] # c =>
                 /\ Len(Chain[c]) = Len(Chain[Super[c]]) + 1
                 /\ \A n \in 1..Len(Chain[Super[c]]) : Chain[c][n + 1] = Chain[Super[c]][n]
                 /\ Range(Chain[c]) = {c} \cup Range(Chain[Super[c]])
<1>1. PICK x : x = Chain[Super[c]]
  OBVIOUS
<1>2. Chain[c] = IF Super[c] = c THEN <<c>> ELSE <<c>> \o x
  BY ChainIs, <1>1
<1>3. CASE Super[c] = c
  <2>1. Chain[c] = <<c>>
    BY <1>2, <1>3
  <2>2. Range(<<c>>) = {c}
    BY DEF Range
  <2>3. QED BY <2>1, <2>2, <1>3
<1>4. CASE Super[c] # c
  <2>1. PICK y : y = Chain[c]
    OBVIOUS
  <2>2. y = <<c>> \o x /\ x \in Seq(Classes)
    BY <1>1, <1>2, <1>4, <2>1, ChainType, Files
  <2>3. Len(y) = Len(x) + 1 /\ y[1] = c /\ \A n \in 1..Len(x) : y[n + 1] = x[n]
    BY <2>2
  <2>4. DOMAIN y = 1..Len(x) + 1 /\ DOMAIN x = 1..Len(x) /\ Len(x) \in Nat
    BY <2>2
  <2>5. Range(y) = {c} \cup Range(x)
    <3>1. ASSUME NEW n \in 1..Len(x) + 1 PROVE y[n] \in {c} \cup Range(x)
      <4>1. n = 1 \/ (n - 1 \in 1..Len(x) /\ n = (n - 1) + 1)
        BY <2>4
      <4>2. QED BY <4>1, <2>3, <2>4 DEF Range
    <3>2. ASSUME NEW n \in 1..Len(x) PROVE x[n] \in Range(y)
      <4>1. n + 1 \in DOMAIN y /\ y[n + 1] = x[n]
        BY <2>3, <2>4
      <4>2. QED BY <4>1 DEF Range
    <3>3. c \in Range(y)
      BY <2>3, <2>4 DEF Range
    <3>4. QED BY <3>1, <3>2, <3>3, <2>4 DEF Range
  <2>6. QED BY <1>1, <1>4, <2>1, <2>3, <2>5
<1>5. QED BY <1>3, <1>4

(***************************************************************************)
(* Slots.  b gives the layouts, L are the classes laid out.                *)
(***************************************************************************)
InstanceFields(c) == {k \in 1..Len(FieldsOf[c]) : ~FieldsOf[c][k].static}

Slots == Seq(Names \cup {<<>>})

LEMMA SlotTableFacts ==
    ASSUME NEW c \in Classes, NEW inherited \in Slots
    PROVE  /\ SlotTable(c, inherited) \in Slots
           /\ Extends(SlotTable(c, inherited), inherited)
           /\ DOMAIN FieldOffsets(c, inherited) = 1..Len(FieldsOf[c])
           /\ \A k \in 1..Len(FieldsOf[c]) :
                 FieldOffsets(c, inherited)[k] \in Len(inherited)..Len(SlotTable(c, inherited))
           /\ \A k \in InstanceFields(c) :
                 /\ FieldOffsets(c, inherited)[k] + FieldsOf[c][k].size
                      =< Len(SlotTable(c, inherited))
                 /\ SlotTable(c, inherited)[FieldOffsets(c, inherited)[k] + 1] = <<c, k>>
                 /\ \A l \in 1..Len(FieldsOf[c]) : k < l =>
                       FieldOffsets(c, inherited)[k] + FieldsOf[c][k].size
                         =< FieldOffsets(c, inherited)[l]
<1> DEFINE S == Names \cup {<<>>}
<1>1. PICK N \in Nat : N = Len(FieldsOf[c])
  BY FieldFacts
<1>2. PICK own : own = OwnSlots(c)
  OBVIOUS
<1>3. \A k \in 0..N : own[k] \in Seq(S) /\ \A j \in 0..k : Extends(own[k], own[j])
  BY <1>1, <1>2, OwnSlotsAre
<1> HIDE DEF S
<1>4. inherited \in Seq(S)
  BY DEF Slots, S
<1>5. PICK t : t = inherited \o own[N]
  OBVIOUS
<1>6. t = SlotTable(c, inherited)
  BY <1>1, <1>2, <1>5 DEF SlotTable
<1>7. /\ t \in Seq(S) /\ Extends(t, inherited) /\ Len(t) = Len(inherited) + Len(own[N])
      /\ \A i \in 1..Len(own[N]) : t[Len(inherited) + i] = own[N][i]
  <2>1. own[N] \in Seq(S)
    BY <1>3
  <2>2. QED BY <2>1, <1>4, <1>5, ConcatExtends
<1>8. PICK o : o = FieldOffsets(c, inherited)
  OBVIOUS
<1>9. DOMAIN o = 1..N
  BY <1>8, <1>1, FieldFacts DEF FieldOffsets
<1>10. ASSUME NEW k \in 1..N
       PROVE  /\ o[k] = Len(inherited) + Len(own[k - 1]) /\ Len(own[k - 1]) \in Nat
              /\ k - 1 \in 0..N /\ k \in 0..N /\ Len(own[k]) \in Nat
  <2>1. k - 1 \in 0..N /\ k \in 0..N
    OBVIOUS
  <2>2. o[k] = Len(inherited) + Len(own[k - 1])
    BY <1>8, <1>1, <1>2, FieldFacts DEF FieldOffsets
  <2>3. own[k - 1] \in Seq(S) /\ own[k] \in Seq(S)
    BY <2>1, <1>3
  <2>4. QED BY <2>1, <2>2, <2>3
<1>11. ASSUME NEW k \in 0..N, NEW j \in 0..k PROVE Len(own[j]) =< Len(own[k])
  BY <1>3 DEF Extends
<1>12. Len(inherited) \in Nat /\ Len(own[N]) \in Nat /\ N \in 0..N
  BY <1>3, <1>4
<1>13. ASSUME NEW k \in 1..N PROVE o[k] \in Len(inherited)..Len(t)
  <2>1. Len(own[k - 1]) =< Len(own[N])
    BY <1>11, <1>12
  <2>2. QED BY <2>1, <1>7, <1>10, <1>12
<1>14. ASSUME NEW k \in InstanceFields(c)
       PROVE  /\ o[k] + FieldsOf[c][k].size =< Len(t) /\ t[o[k] + 1] = <<c, k>>
              /\ \A l \in 1..N : k < l => o[k] + FieldsOf[c][k].size =< o[l]
  <2>1. k \in 1..N /\ ~FieldsOf[c][k].static
    BY <1>1 DEF InstanceFields
  <2>2. /\ Len(own[k]) = Len(own[k - 1]) + FieldsOf[c][k].size
        /\ own[k][Len(own[k - 1]) + 1] = <<c, k>>
    BY <2>1, <1>1, <1>2, OwnSlotsOf
  <2>3. FieldsOf[c][k].size \in Nat /\ FieldsOf[c][k].size >= 1
    <3>1. FieldsOf[c][k].size \in {1, 2}
      BY <2>1, <1>1, FieldFacts
    <3>2. QED BY <3>1
  <2>4. Len(own[k - 1]) \in Nat /\ Len(own[k]) \in Nat /\ Len(own[N]) \in Nat /\ Len(inherited) \in Nat
    BY <2>1, <1>10, <1>12
  <2>5. o[k] = Len(inherited) + Len(own[k - 1])
    BY <2>1, <1>10
  <2>6. Len(own[k]) =< Len(own[N]) /\ own[N][Len(own[k - 1]) + 1] = own[k][Len(own[k - 1]) + 1]
    <3>1. Extends(own[N], own[k])
      BY <2>1, <1>3, <1>12
    <3>2. Len(own[k - 1]) + 1 \in 1..Len(own[k])
      BY <2>1, <2>2, <2>3, <1>10
    <3>3. QED BY <3>1, <3>2 DEF Extends
  <2>7. t[Len(inherited) + (Len(own[k - 1]) + 1)] = own[N][Len(own[k - 1]) + 1]
    <3>1. PICK p \in Nat : p = Len(own[k - 1])
      BY <2>4
    <3>2. PICK r \in Nat : r = Len(own[N])
      BY <2>4
    <3>3. PICK z \in Nat : z = FieldsOf[c][k].size /\ z >= 1
      BY <2>3
    <3>4. p + z =< r
      BY <3>1, <3>2, <3>3, <2>2, <2>6
    <3>5. Len(own[k - 1]) + 1 \in 1..Len(own[N])
      BY <3>1, <3>2, <3>3, <3>4
    <3>6. QED BY <3>5, <1>7
  <2>8. Len(inherited) + (Len(own[k - 1]) + 1) = o[k] + 1
    BY <2>1, <1>10, <1>12
  <2>9. o[k] + FieldsOf[c][k].size =< Len(t)
    <3>1. PICK p \in Nat : p = Len(own[k - 1])
      BY <2>4
    <3>2. PICK r \in Nat : r = Len(own[N])
      BY <2>4
    <3>3. PICK z \in Nat : z = FieldsOf[c][k].size
      BY <2>3
    <3>4. PICK m \in Nat : m = Len(inherited)
      BY <2>4
    <3>5. p + z =< r
      BY <3>1, <3>2, <3>3, <2>2, <2>6
    <3>6. o[k] = m + p /\ Len(t) = m + r
      BY <3>1, <3>2, <3>4, <2>5, <1>7
    <3>7. QED BY <3>3, <3>5, <3>6
  <2>10. ASSUME NEW l \in 1..N, k < l PROVE o[k] + FieldsOf[c][k].size =< o[l]
    <3>1. Len(own[k]) =< Len(own[l - 1])
      <4>1. l - 1 \in 0..N /\ k \in 0..(l - 1)
        BY <2>1, <2>10
      <4>2. QED BY <4>1, <1>11
    <3>2. o[l] = Len(inherited) + Len(own[l - 1]) /\ Len(own[l - 1]) \in Nat
      BY <1>10
    <3>3. PICK p \in Nat : p = Len(own[k - 1])
      BY <2>4
    <3>4. PICK r \in Nat : r = Len(own[l - 1])
      BY <3>2
    <3>5. PICK z \in Nat : z = FieldsOf[c][k].size
      BY <2>3
    <3>6. PICK m \in Nat : m = Len(inherited)
      BY <2>4
    <3>7. p + z =< r
      BY <3>1, <3>3, <3>4, <3>5, <2>2
    <3>8. o[k] = m + p /\ o[l] = m + r
      BY <3>2, <3>3, <3>4, <3>6, <2>5
    <3>9. QED BY <3>5, <3>7, <3>8
  <2>11. QED BY <2>2, <2>6, <2>7, <2>8, <2>9, <2>10
<1>15. t \in Slots
  BY <1>7 DEF Slots, S
<1>16. QED BY <1>1, <1>6, <1>7, <1>8, <1>9, <1>13, <1>14, <1>15

Base(b, c) == IF Super[c] = c THEN Unresolved ELSE b[Super[c]]

(* The classes of L are laid out, each over its superclass.                *)
WellLaid(b, L) ==
    /\ L \subseteq Classes
    /\ \A c \in L : Super[c] \in L /\ b[c] = Resolve(c, Base(b, c))

LEMMA ResolveFields ==
    \A c, s : /\ Resolve(c, s).slots = SlotTable(c, s.slots)
              /\ Resolve(c, s).offset = FieldOffsets(c, s.slots)
              /\ Resolve(c, s).vector = MethodVector(c, s.vector)
              /\ Resolve(c, s).index = [k \in VirtualMethods(c) |-> MethodIndex(c, k, s.vector)]
              /\ Resolve(c, s).resolved
              /\ DOMAIN Resolve(c, s) = DOMAIN Unresolved
  BY DEF Resolve, Unresolved

(* The slots of field k of class d, in an object of class c.               *)
Placed(b, c, d, k) ==
    /\ b[d].offset[k] \in Nat
    /\ b[d].offset[k] + FieldsOf[d][k].size =< Len(b[c].slots)
    /\ b[c].slots[b[d].offset[k] + 1] = <<d, k>>

Apart(b, d, k, e, l) ==
    \/ b[d].offset[k] + FieldsOf[d][k].size =< b[e].offset[l]
    \/ b[e].offset[l] + FieldsOf[e][l].size =< b[d].offset[k]

AllPlaced(b, c, C) == \A d \in C : \A k \in InstanceFields(d) : Placed(b, c, d, k)

AllApart(b, C) ==
    \A d \in C, e \in C : \A k \in InstanceFields(d), l \in InstanceFields(e) :
        d # e \/ k # l => Apart(b, d, k, e, l)

SlotsGood(b, c) ==
    /\ b[c].slots \in Slots
    /\ AllPlaced(b, c, Range(Chain[c]))
    /\ AllApart(b, Range(Chain[c]))

(* A class's own fields come behind those it inherits.                     *)
LEMMA OwnPlaced ==
    ASSUME NEW b, NEW c \in Classes, NEW inherited \in Slots,
           b[c].slots = SlotTable(c, inherited), b[c].offset = FieldOffsets(c, inherited)
    PROVE  /\ b[c].slots \in Slots /\ Extends(b[c].slots, inherited)
           /\ AllPlaced(b, c, {c}) /\ AllApart(b, {c})
           /\ \A k \in InstanceFields(c) : b[c].offset[k] >= Len(inherited)
<1>1. PICK t : t = SlotTable(c, inherited)
  OBVIOUS
<1>2. PICK o : o = FieldOffsets(c, inherited)
  OBVIOUS
<1>3. t \in Slots /\ Extends(t, inherited)
  BY <1>1, SlotTableFacts
<1>4. \A k \in 1..Len(FieldsOf[c]) : o[k] \in Len(inherited)..Len(t)
  BY <1>1, <1>2, SlotTableFacts
<1>5. \A k \in InstanceFields(c) :
         /\ o[k] + FieldsOf[c][k].size =< Len(t)
         /\ t[o[k] + 1] = <<c, k>>
         /\ \A l \in 1..Len(FieldsOf[c]) : k < l => o[k] + FieldsOf[c][k].size =< o[l]
  BY <1>1, <1>2, SlotTableFacts
<1>6. Len(inherited) \in Nat
  BY DEF Slots
<1>7. \A k \in InstanceFields(c) : k \in 1..Len(FieldsOf[c]) /\ Len(FieldsOf[c]) \in Nat
  BY FieldFacts DEF InstanceFields
<1>8. \A k \in InstanceFields(c) : o[k] \in Nat /\ o[k] >= Len(inherited)
  BY <1>4, <1>6, <1>7
<1>9. b[c].slots = t /\ b[c].offset = o
  BY <1>1, <1>2
<1>10. AllPlaced(b, c, {c})
  BY <1>5, <1>8, <1>9 DEF AllPlaced, Placed
<1>11. ASSUME NEW k \in InstanceFields(c), NEW l \in InstanceFields(c), k # l
       PROVE  Apart(b, c, k, c, l)
  <2>1. k < l \/ l < k
    BY <1>7, <1>11
  <2>2. QED BY <2>1, <1>5, <1>7, <1>9 DEF Apart
<1>12. AllApart(b, {c})
  BY <1>11 DEF AllApart
<1>13. QED BY <1>3, <1>8, <1>9, <1>10, <1>12

LEMMA SlotsAreGood ==
    ASSUME NEW b, NEW L, WellLaid(b, L)
    PROVE  \A c \in L : /\ Range(Chain[c]) \subseteq L /\ SlotsGood(b, c)
                        /\ Super[c] # c => Extends(b[c].slots, b[Super[c]].slots)
<1> DEFINE Good(c) == /\ Range(Chain[c]) \subseteq L /\ SlotsGood(b, c)
                      /\ Super[c] # c => Extends(b[c].slots, b[Super[c]].slots)
           T == {c \in Classes : c \in L => Good(c)}
<1>1. ASSUME NEW c \in Classes, c \in L, Super[c] = c \/ Super[c] \in T PROVE Good(c)
  <2>1. PICK s : s = Base(b, c)
    OBVIOUS
  <2>2. b[c].slots = SlotTable(c, s.slots) /\ b[c].offset = FieldOffsets(c, s.slots)
    BY <1>1, <2>1, ResolveFields DEF WellLaid
  <2>3. CASE Super[c] = c
    <3>1. s.slots = <<>>
      BY <2>1, <2>3 DEF Base, Unresolved
    <3>2. s.slots \in Slots
      BY <3>1 DEF Slots
    <3>3. /\ b[c].slots \in Slots /\ AllPlaced(b, c, {c}) /\ AllApart(b, {c})
      BY <2>2, <3>2, OwnPlaced
    <3>4. Range(Chain[c]) = {c}
      BY <2>3, ChainGoesUp
    <3>5. QED BY <3>3, <3>4, <1>1, <2>3 DEF SlotsGood
  <2>4. CASE Super[c] # c
    <3>1. PICK p : p = Super[c]
      OBVIOUS
    <3>2. p \in L /\ Good(p) /\ p \in Classes /\ s = b[p]
      BY <1>1, <2>1, <2>4, <3>1, Files DEF WellLaid, Base
    <3>3. PICK C : C = Range(Chain[p])
      OBVIOUS
    <3>4. b[p].slots \in Slots /\ AllPlaced(b, p, C) /\ AllApart(b, C) /\ C \subseteq L
      BY <3>2, <3>3 DEF SlotsGood
    <3>5. /\ b[c].slots \in Slots /\ Extends(b[c].slots, b[p].slots)
          /\ AllPlaced(b, c, {c}) /\ AllApart(b, {c})
          /\ \A k \in InstanceFields(c) : b[c].offset[k] >= Len(b[p].slots)
      <4>1. PICK i \in Slots : i = b[p].slots
        BY <3>4
      <4>2. b[c].slots = SlotTable(c, i) /\ b[c].offset = FieldOffsets(c, i)
        BY <2>2, <3>2, <4>1
      <4>3. QED BY <4>1, <4>2, OwnPlaced
    <3>6. Range(Chain[c]) = {c} \cup C
      BY <2>4, <3>1, <3>3, ChainGoesUp
    <3>7. C \subseteq Classes
      BY <3>4 DEF WellLaid
    <3>8. Len(b[p].slots) \in Nat /\ Len(b[c].slots) \in Nat
      BY <3>4, <3>5 DEF Slots
    <3>9. \A d \in Classes : \A k \in InstanceFields(d) : FieldsOf[d][k].size \in {1, 2}
      BY FieldFacts DEF InstanceFields
    <3>10. ASSUME NEW d \in C, NEW k \in InstanceFields(d)
           PROVE  Placed(b, c, d, k) /\ b[d].offset[k] + FieldsOf[d][k].size =< Len(b[p].slots)
      <4>1. Placed(b, p, d, k)
        BY <3>4 DEF AllPlaced
      <4>2. FieldsOf[d][k].size \in {1, 2}
        BY <3>7, <3>9
      <4>3. b[d].offset[k] + 1 \in 1..Len(b[p].slots)
        <5>1. PICK n \in Nat : n = Len(b[p].slots)
          BY <3>8
        <5>2. PICK z \in Nat : z = FieldsOf[d][k].size /\ z >= 1
          BY <4>2
        <5>3. PICK o \in Nat : o = b[d].offset[k] /\ o + z =< n
          BY <5>1, <5>2, <4>1 DEF Placed
        <5>4. QED BY <5>1, <5>2, <5>3
      <4>4. b[c].slots[b[d].offset[k] + 1] = b[p].slots[b[d].offset[k] + 1]
        BY <4>3, <3>5 DEF Extends
      <4>5. b[d].offset[k] + FieldsOf[d][k].size =< Len(b[c].slots)
        <5>1. PICK z \in Nat : z = FieldsOf[d][k].size
          BY <4>2
        <5>2. b[d].offset[k] \in Nat /\ b[d].offset[k] + z =< Len(b[p].slots)
          BY <5>1, <4>1 DEF Placed
        <5>3. Len(b[p].slots) =< Len(b[c].slots)
          BY <3>5 DEF Extends
        <5>4. PICK x \in Nat : x = b[d].offset[k]
          BY <5>2
        <5>5. PICK u \in Nat : u = Len(b[p].slots)
          BY <3>8
        <5>6. PICK v \in Nat : v = Len(b[c].slots)
          BY <3>8
        <5>7. x + z =< u /\ u =< v
          BY <5>2, <5>3, <5>4, <5>5, <5>6
        <5>8. x + z =< v
          BY <5>7
        <5>9. QED BY <5>1, <5>4, <5>6, <5>8
      <4>6. QED BY <4>1, <4>4, <4>5 DEF Placed
    <3>11. AllPlaced(b, c, {c} \cup C)
      BY <3>5, <3>10 DEF AllPlaced
    <3>12. ASSUME NEW d \in C, NEW k \in InstanceFields(d), NEW l \in InstanceFields(c)
           PROVE  b[d].offset[k] + FieldsOf[d][k].size =< b[c].offset[l]
      <4>1. PICK z \in Nat : z = FieldsOf[d][k].size
        BY <3>7, <3>9
      <4>2. b[d].offset[k] \in Nat /\ b[d].offset[k] + z =< Len(b[p].slots)
        BY <3>10, <4>1 DEF Placed
      <4>3. b[c].offset[l] >= Len(b[p].slots) /\ b[c].offset[l] \in Nat
        BY <3>5 DEF AllPlaced, Placed
      <4>4. QED BY <4>1, <4>2, <4>3, <3>8
    <3>13. AllApart(b, {c} \cup C)
      BY <3>4, <3>5, <3>12 DEF AllApart, Apart
    <3>14. {c} \cup C \subseteq L
      BY <1>1, <3>4
    <3>15. QED BY <3>1, <3>5, <3>6, <3>11, <3>13, <3>14 DEF SlotsGood
  <2>5. QED BY <2>3, <2>4
<1>2. Classes \subseteq T
  <2> HIDE DEF Good
  <2>1. ASSUME NEW c \in Classes, Super[c] = c \/ Super[c] \in T PROVE c \in T
    BY <1>1, <2>1
  <2> HIDE DEF T
  <2>2. QED BY <2>1, ClassInduction
<1>3. QED BY <1>2 DEF WellLaid

(***************************************************************************)
(* Method vectors.                                                         *)
(***************************************************************************)
VirtualNames == UNION {{c} \X VirtualMethods(c) : c \in Classes}

MethodStep(c, inherited, k, s) ==
    IF k = 0 THEN <<>>
    ELSE IF k \in VirtualMethods(c) /\ Overridden(c, k, inherited) = {} THEN Append(s, k) ELSE s

LEMMA NewMethodsExist ==
    ASSUME NEW c \in Classes, NEW inherited
    PROVE  \E f : f = [k \in 0..Len(MethodsOf[c]) |-> MethodStep(c, inherited, k, f[k - 1])]
<1> DEFINE N == Len(MethodsOf[c])
           Solves(f, n) == f = [k \in 0..n |-> MethodStep(c, inherited, k, f[k - 1])]
           T == {n \in Nat : \E f : Solves(f, n)}
<1>1. N \in Nat
  BY MethodFacts
<1>2. 0 \in T
  <2> DEFINE f == [k \in 0..0 |-> <<>>]
  <2>1. Solves(f, 0)
    BY DEF MethodStep
  <2>2. QED BY <2>1
<1>3. ASSUME NEW n \in 0..N - 1, n \in T PROVE n + 1 \in T
  <2>1. PICK f : Solves(f, n)
    BY <1>3
  <2> DEFINE g == [k \in 0..n + 1 |-> IF k = n + 1 THEN MethodStep(c, inherited, k, f[n]) ELSE f[k]]
  <2>2. ASSUME NEW k \in 0..n + 1 PROVE g[k] = MethodStep(c, inherited, k, g[k - 1])
    <3>1. CASE k = n + 1
      BY <3>1, <1>1
    <3>2. CASE k # n + 1 /\ k # 0
      <4>1. k \in 0..n /\ k - 1 \in 0..n /\ k - 1 # n + 1 /\ k - 1 \in 0..n + 1
        BY <3>2, <1>1
      <4>2. QED BY <4>1, <3>2, <2>1
    <3>3. CASE k = 0
      <4>1. k \in 0..n /\ k # n + 1
        BY <3>3, <1>1
      <4>2. g[k] = f[k] /\ f[k] = <<>>
        BY <4>1, <3>3, <2>1 DEF MethodStep
      <4>3. QED BY <4>2, <3>3 DEF MethodStep
    <3>4. QED BY <3>1, <3>2, <3>3
  <2>3. DOMAIN g = 0..n + 1 /\ g = [k \in 0..n + 1 |-> g[k]]
    OBVIOUS
  <2> HIDE DEF g
  <2>4. Solves(g, n + 1)
    BY <2>2, <2>3
  <2> HIDE DEF Solves
  <2>5. n + 1 \in Nat
    BY <1>1
  <2>6. QED BY <2>4, <2>5
<1>4. N \in T
  <2> HIDE DEF T, N
  <2>1. QED BY <1>1, <1>2, <1>3, Induction
<1>5. QED BY <1>4

LEMMA NewMethodsStep ==
    ASSUME NEW c \in Classes, NEW inherited
    PROVE  \A k \in 0..Len(MethodsOf[c]) :
              NewMethods(c, inherited)[k]
                = MethodStep(c, inherited, k, NewMethods(c, inherited)[k - 1])
<1> DEFINE fresh[k \in 0..Len(MethodsOf[c])] ==
               IF k = 0 THEN <<>>
               ELSE IF k \in VirtualMethods(c) /\ Overridden(c, k, inherited) = {}
               THEN Append(fresh[k - 1], k) ELSE fresh[k - 1]
<1>1. NewMethods(c, inherited) = fresh
  BY DEF NewMethods
<1>2. PICK f : f = [k \in 0..Len(MethodsOf[c]) |-> MethodStep(c, inherited, k, f[k - 1])]
  BY NewMethodsExist
<1>3. f = [k \in 0..Len(MethodsOf[c]) |->
              IF k = 0 THEN <<>>
              ELSE IF k \in VirtualMethods(c) /\ Overridden(c, k, inherited) = {}
              THEN Append(f[k - 1], k) ELSE f[k - 1]]
  BY <1>2 DEF MethodStep
<1>4. fresh = [k \in 0..Len(MethodsOf[c]) |->
              IF k = 0 THEN <<>>
              ELSE IF k \in VirtualMethods(c) /\ Overridden(c, k, inherited) = {}
              THEN Append(fresh[k - 1], k) ELSE fresh[k - 1]]
  BY <1>3
<1> HIDE DEF fresh
<1>5. QED BY <1>1, <1>4 DEF MethodStep

LEMMA NewMethodsAre ==
    ASSUME NEW c \in Classes, NEW inherited
    PROVE  \A k \in 0..Len(MethodsOf[c]) :
              /\ NewMethods(c, inherited)[k] \in Seq(VirtualMethods(c))
              /\ \A j \in 0..k : Extends(NewMethods(c, inherited)[k], NewMethods(c, inherited)[j])
              /\ k \in VirtualMethods(c) /\ Overridden(c, k, inherited) = {}
                   => /\ Len(NewMethods(c, inherited)[k]) >= 1
                      /\ NewMethods(c, inherited)[k][Len(NewMethods(c, inherited)[k])] = k
<1>1. PICK V : V = VirtualMethods(c)
  OBVIOUS
<1>2. PICK s : s = NewMethods(c, inherited)
  OBVIOUS
<1>3. PICK N \in Nat : N = Len(MethodsOf[c])
  BY MethodFacts
<1> DEFINE New(k) == k \in V /\ Overridden(c, k, inherited) = {}
           Ok(k) == /\ s[k] \in Seq(V) /\ \A j \in 0..k : Extends(s[k], s[j])
                    /\ New(k) => Len(s[k]) >= 1 /\ s[k][Len(s[k])] = k
<1>4. s[0] = <<>>
  BY <1>2, <1>3, NewMethodsStep DEF MethodStep
<1>5. \A k \in 1..N : s[k] = IF New(k) THEN Append(s[k - 1], k) ELSE s[k - 1]
  BY <1>1, <1>2, <1>3, NewMethodsStep DEF MethodStep
<1>6. \A k \in V : k \in 1..N
  BY <1>1, <1>3, MethodFacts
<1> SUFFICES ASSUME NEW n \in 0..N PROVE Ok(n)
  BY <1>1, <1>2, <1>3
<1> DEFINE T == {k \in Nat : k =< n => Ok(k)}
<1>7. 0 \in T
  <2>1. s[0] \in Seq(V) /\ Extends(s[0], s[0])
    BY <1>4 DEF Extends
  <2>2. \A j \in 0..0 : j = 0
    OBVIOUS
  <2>3. ~New(0)
    BY <1>6
  <2>4. QED BY <2>1, <2>2, <2>3
<1>8. ASSUME NEW k \in 0..n - 1, k \in T PROVE k + 1 \in T
  <2>1. k + 1 \in 1..N /\ k \in Nat /\ (k + 1) - 1 = k /\ k =< n
    OBVIOUS
  <2>2. s[k] \in Seq(V) /\ \A j \in 0..k : Extends(s[k], s[j])
    BY <1>8, <2>1
  <2>3. s[k + 1] = IF New(k + 1) THEN Append(s[k], k + 1) ELSE s[k]
    BY <2>1, <1>5
  <2>4. /\ s[k + 1] \in Seq(V) /\ Extends(s[k + 1], s[k])
        /\ New(k + 1) => Len(s[k + 1]) >= 1 /\ s[k + 1][Len(s[k + 1])] = k + 1
    <3>1. CASE New(k + 1)
      <4>1. s[k + 1] = Append(s[k], k + 1) /\ k + 1 \in V
        BY <2>3, <3>1
      <4>2. QED BY <4>1, <2>2 DEF Extends
    <3>2. CASE ~New(k + 1)
      <4>1. s[k + 1] = s[k]
        BY <2>3, <3>2
      <4>2. QED BY <4>1, <2>2, <3>2 DEF Extends
    <3>3. QED BY <3>1, <3>2
  <2> HIDE DEF New
  <2>5. ASSUME NEW j \in 0..k + 1 PROVE Extends(s[k + 1], s[j])
    <3>1. CASE j = k + 1
      BY <3>1, <2>4 DEF Extends
    <3>2. CASE j # k + 1
      <4>1. j \in 0..k
        BY <3>2, <2>1
      <4>2. Extends(s[k], s[j])
        BY <4>1, <2>2
      <4>3. QED BY <4>2, <2>4, <2>2 DEF Extends
    <3>3. QED BY <3>1, <3>2
  <2>6. QED BY <2>1, <2>4, <2>5
<1>9. n \in T
  <2> HIDE DEF T
  <2>1. QED BY <1>7, <1>8, Induction
<1>10. QED BY <1>9

(* Class c declares a virtual method with the key.                         *)
Declares(c, key) == \E k \in VirtualMethods(c) : MethodsOf[c][k].key = key

LEMMA VectorFacts ==
    ASSUME NEW c \in Classes, NEW inherited \in Seq(VirtualNames)
    PROVE  /\ MethodVector(c, inherited) \in Seq(VirtualNames)
           /\ Len(inherited) =< Len(MethodVector(c, inherited))
           /\ \A i \in 1..Len(inherited) :
                 /\ Key(MethodVector(c, inherited)[i]) = Key(inherited[i])
                 /\ \/ MethodVector(c, inherited)[i][1] = c
                    \/ /\ ~Declares(c, Key(inherited[i]))
                       /\ MethodVector(c, inherited)[i] = inherited[i]
           /\ \A i \in 1..Len(MethodVector(c, inherited)) : i > Len(inherited) =>
                 MethodVector(c, inherited)[i][1] = c
           /\ \A k \in VirtualMethods(c) :
                 /\ MethodIndex(c, k, inherited) \in 1..Len(MethodVector(c, inherited))
                 /\ Key(MethodVector(c, inherited)[MethodIndex(c, k, inherited)])
                      = MethodsOf[c][k].key
<1>1. PICK m \in Nat : m = Len(inherited)
  OBVIOUS
<1>2. PICK N \in Nat : N = Len(MethodsOf[c]) /\ VirtualMethods(c) \subseteq 1..N
  BY MethodFacts
<1>3. PICK s : s = NewMethods(c, inherited)
  OBVIOUS
<1>4. PICK V : V = VirtualMethods(c)
  OBVIOUS
<1>5. PICK W : W = VirtualNames
  OBVIOUS
<1>6. \A k \in V : <<c, k>> \in W
  BY <1>4, <1>5 DEF VirtualNames
<1>7. \A k \in 0..N : /\ s[k] \in Seq(V) /\ \A j \in 0..k : Extends(s[k], s[j])
                      /\ k \in V /\ Overridden(c, k, inherited) = {}
                            => Len(s[k]) >= 1 /\ s[k][Len(s[k])] = k
  BY <1>2, <1>3, <1>4, NewMethodsAre
<1>8. PICK fresh : fresh = s[N]
  OBVIOUS
<1>9. fresh \in Seq(V)
  BY <1>7, <1>8
<1> DEFINE Over(i) == Overriding(c, i, inherited)
<1>10. PICK A : A = [i \in DOMAIN inherited |->
            IF Over(i) = {} THEN inherited[i] ELSE <<c, CHOOSE k \in Over(i) : TRUE>>]
  OBVIOUS
<1>11. PICK B : B = [n \in DOMAIN fresh |-> <<c, fresh[n]>>]
  OBVIOUS
<1>12. PICK M : M = MethodVector(c, inherited)
  OBVIOUS
<1>13. M = A \o B
  BY <1>2, <1>3, <1>8, <1>10, <1>11, <1>12 DEF MethodVector
<1>14. DOMAIN inherited = 1..m /\ inherited \in Seq(W)
  BY <1>1, <1>5
<1>15. \A i \in 1..m : Over(i) = {k \in V : Key(inherited[i]) = MethodsOf[c][k].key}
  BY <1>4, <1>14 DEF Overriding, Overridden
<1> HIDE DEF Over
<1>16. ASSUME NEW i \in 1..m
       PROVE  /\ A[i] \in W /\ Key(A[i]) = Key(inherited[i])
              /\ A[i][1] = c \/ (~Declares(c, Key(inherited[i])) /\ A[i] = inherited[i])
  <2>1. CASE Over(i) = {}
    <3>1. A[i] = inherited[i] /\ inherited[i] \in W
      BY <2>1, <1>10, <1>14
    <3>2. ~Declares(c, Key(inherited[i]))
      BY <2>1, <1>15, <1>4 DEF Declares
    <3>3. QED BY <3>1, <3>2
  <2>2. CASE Over(i) # {}
    <3>1. PICK k : k = CHOOSE x \in Over(i) : TRUE
      OBVIOUS
    <3>2. k \in Over(i) /\ A[i] = <<c, k>>
      BY <2>2, <3>1, <1>10, <1>14
    <3>3. k \in V /\ Key(inherited[i]) = MethodsOf[c][k].key
      BY <3>2, <1>15
    <3>4. QED BY <3>2, <3>3, <1>6 DEF Key
  <2>3. QED BY <2>1, <2>2
<1>17. A \in Seq(W) /\ Len(A) = m
  <2>1. A \in [1..m -> W]
    BY <1>10, <1>14, <1>16
  <2>2. QED BY <2>1
<1>18. PICK r \in Nat : r = Len(fresh) /\ DOMAIN fresh = 1..r
  BY <1>9
<1>19. B \in Seq(W) /\ Len(B) = r /\ \A n \in 1..r : B[n] = <<c, fresh[n]>>
  <2>1. \A n \in 1..r : fresh[n] \in V
    BY <1>9, <1>18
  <2>2. B \in [1..r -> W]
    BY <2>1, <1>6, <1>11, <1>18
  <2>3. QED BY <2>2, <1>11, <1>18
<1>20. /\ M \in Seq(W) /\ Len(M) = m + r
       /\ \A i \in 1..m : M[i] = A[i]
       /\ \A n \in 1..r : M[m + n] = B[n]
  <2>1. /\ A \o B \in Seq(W) /\ Extends(A \o B, A) /\ Len(A \o B) = Len(A) + Len(B)
        /\ \A n \in 1..Len(B) : (A \o B)[Len(A) + n] = B[n]
    BY <1>17, <1>19, ConcatExtends
  <2>2. \A i \in 1..m : (A \o B)[i] = A[i]
    BY <2>1, <1>17 DEF Extends
  <2>3. QED BY <2>1, <2>2, <1>13, <1>17, <1>19
<1>21. ASSUME NEW i \in 1..Len(M), i > m PROVE M[i][1] = c
  <2>1. i - m \in 1..r /\ m + (i - m) = i
    BY <1>20, <1>21
  <2>2. M[i] = <<c, fresh[i - m]>>
    BY <2>1, <1>19, <1>20
  <2>3. QED BY <2>2
<1>22. ASSUME NEW k \in V
       PROVE  /\ MethodIndex(c, k, inherited) \in 1..Len(M)
              /\ Key(M[MethodIndex(c, k, inherited)]) = MethodsOf[c][k].key
  <2>1. PICK O : O = Overridden(c, k, inherited)
    OBVIOUS
  <2>2. PICK i : i = MethodIndex(c, k, inherited)
    OBVIOUS
  <2>3. CASE O # {}
    <3>1. i \in O
      BY <2>1, <2>2, <2>3 DEF MethodIndex
    <3>2. i \in 1..m /\ Key(inherited[i]) = MethodsOf[c][k].key
      BY <3>1, <2>1, <1>14 DEF Overridden
    <3>3. Key(M[i]) = Key(inherited[i]) /\ i \in 1..Len(M)
      BY <3>2, <1>16, <1>20
    <3>4. QED BY <3>2, <3>3, <2>2
  <2>4. CASE O = {}
    <3>1. i = m + Len(s[k])
      BY <2>1, <2>2, <2>4, <1>1, <1>3 DEF MethodIndex
    <3>2. k \in 1..N /\ k \in 0..N /\ N \in 0..N
      BY <1>2, <1>4
    <3>3. s[k] \in Seq(V) /\ Len(s[k]) >= 1 /\ s[k][Len(s[k])] = k
      BY <3>2, <2>1, <2>4, <1>7
    <3>4. Extends(fresh, s[k])
      BY <3>2, <1>7, <1>8
    <3>5. Len(s[k]) \in 1..r /\ fresh[Len(s[k])] = k
      <4>1. PICK l \in Nat : l = Len(s[k])
        BY <3>3
      <4>2. l \in 1..l /\ l =< r
        BY <3>3, <3>4, <4>1, <1>18 DEF Extends
      <4>3. fresh[l] = s[k][l]
        BY <4>1, <4>2, <3>4 DEF Extends
      <4>4. QED BY <4>1, <4>2, <4>3, <3>3, <1>18
    <3>6. M[i] = <<c, k>> /\ i \in 1..Len(M)
      BY <3>1, <3>5, <1>19, <1>20
    <3>7. QED BY <3>6, <2>2 DEF Key
  <2>5. QED BY <2>3, <2>4
<1>23. \A i \in 1..m : /\ Key(M[i]) = Key(inherited[i])
                       /\ M[i][1] = c \/ (~Declares(c, Key(inherited[i])) /\ M[i] = inherited[i])
  BY <1>16, <1>20
<1>24. m =< Len(M)
  BY <1>20, <1>18
<1>25. QED BY <1>1, <1>4, <1>5, <1>12, <1>20, <1>21, <1>22, <1>23, <1>24

(* Class d is the nearest to c, among those it inherits from, that declares *)
(* a virtual method with the key.                                          *)
Nearest(d, c, key) ==
    \E n \in 1..Len(Chain[c]) :
        /\ d = Chain[c][n] /\ Declares(d, key)
        /\ \A o \in 1..n - 1 : ~Declares(Chain[c][o], key)

LEMMA NearestSelf ==
    ASSUME NEW c \in Classes, NEW key, Declares(c, key)
    PROVE  Nearest(c, c, key)
<1>1. Len(Chain[c]) >= 1 /\ Chain[c][1] = c /\ Len(Chain[c]) \in Nat
  BY ChainType
<1>2. 1 \in 1..Len(Chain[c]) /\ 1..1 - 1 = {}
  BY <1>1
<1>3. QED BY <1>1, <1>2 DEF Nearest

LEMMA NearestUp ==
    ASSUME NEW c \in Classes, NEW key, NEW d, ~Declares(c, key), Super[c] # c,
           Nearest(d, Super[c], key)
    PROVE  Nearest(d, c, key)
<1>1. PICK p \in Classes : p = Super[c]
  BY Files
<1>2. PICK n \in 1..Len(Chain[p]) :
         /\ d = Chain[p][n] /\ Declares(d, key)
         /\ \A o \in 1..n - 1 : ~Declares(Chain[p][o], key)
  BY <1>1 DEF Nearest
<1>3. PICK l \in Nat : l = Len(Chain[p])
  BY ChainType
<1>4. Len(Chain[c]) = l + 1 /\ \A o \in 1..l : Chain[c][o + 1] = Chain[p][o]
  BY <1>1, <1>3, ChainGoesUp
<1>5. n \in 1..l /\ n + 1 \in 1..Len(Chain[c]) /\ d = Chain[c][n + 1]
  BY <1>2, <1>3, <1>4
<1>6. Chain[c][1] = c
  BY ChainType
<1>7. ASSUME NEW o \in 1..(n + 1) - 1 PROVE ~Declares(Chain[c][o], key)
  <2>1. CASE o = 1
    BY <2>1, <1>6
  <2>2. CASE o # 1
    <3>1. o - 1 \in 1..n - 1 /\ o - 1 \in 1..l /\ (o - 1) + 1 = o
      BY <2>2, <1>5
    <3>2. Chain[c][o] = Chain[p][o - 1]
      BY <3>1, <1>4
    <3>3. QED BY <3>1, <3>2, <1>2
  <2>3. QED BY <2>1, <2>2
<1>8. QED BY <1>2, <1>5, <1>7 DEF Nearest

(* The entry that index k of class d selects in the vector of class c.     *)
Selected(b, c, d, k) ==
    /\ b[d].index[k] \in 1..Len(b[c].vector)
    /\ Key(b[c].vector[b[d].index[k]]) = MethodsOf[d][k].key

AllSelected(b, c, C) == \A d \in C : \A k \in VirtualMethods(d) : Selected(b, c, d, k)

AllNearest(b, c) ==
    \A i \in 1..Len(b[c].vector) : Nearest(b[c].vector[i][1], c, Key(b[c].vector[i]))

VectorGood(b, c) ==
    /\ b[c].vector \in Seq(VirtualNames)
    /\ AllSelected(b, c, Range(Chain[c]))
    /\ AllNearest(b, c)

LEMMA VirtualNameDeclares ==
    ASSUME NEW m \in VirtualNames
    PROVE  m[1] \in Classes /\ m[2] \in VirtualMethods(m[1]) /\ Declares(m[1], Key(m))
  BY DEF VirtualNames, Declares, Key

(* Vector v of class c, over the vector it inherits.                       *)
OverInherited(c, v, inherited) ==
    /\ Len(inherited) =< Len(v)
    /\ \A i \in 1..Len(inherited) :
          /\ Key(v[i]) = Key(inherited[i])
          /\ \/ v[i][1] = c
             \/ ~Declares(c, Key(inherited[i])) /\ v[i] = inherited[i]
    /\ \A i \in 1..Len(v) : i > Len(inherited) => v[i][1] = c

(* A class's own methods in its vector.                                    *)
LEMMA OwnSelected ==
    ASSUME NEW b, NEW c \in Classes, NEW inherited \in Seq(VirtualNames),
           b[c].vector = MethodVector(c, inherited),
           b[c].index = [k \in VirtualMethods(c) |-> MethodIndex(c, k, inherited)]
    PROVE  /\ b[c].vector \in Seq(VirtualNames)
           /\ AllSelected(b, c, {c})
           /\ OverInherited(c, b[c].vector, inherited)
<1>1. PICK v : v = b[c].vector
  OBVIOUS
<1>2. PICK x : x = b[c].index
  OBVIOUS
<1>3. \A k \in VirtualMethods(c) : x[k] \in 1..Len(v) /\ Key(v[x[k]]) = MethodsOf[c][k].key
  <2>1. ASSUME NEW k \in VirtualMethods(c)
        PROVE  x[k] \in 1..Len(v) /\ Key(v[x[k]]) = MethodsOf[c][k].key
    <3>1. x[k] = MethodIndex(c, k, inherited)
      BY <1>2
    <3>2. v = MethodVector(c, inherited)
      BY <1>1
    <3>3. QED BY <3>1, <3>2, VectorFacts
  <2>2. QED BY <2>1
<1>4. AllSelected(b, c, {c})
  BY <1>1, <1>2, <1>3 DEF AllSelected, Selected
<1>5. v = MethodVector(c, inherited)
  BY <1>1
<1>6. v \in Seq(VirtualNames) /\ OverInherited(c, v, inherited)
  BY <1>5, VectorFacts DEF OverInherited
<1>7. QED BY <1>1, <1>4, <1>6

LEMMA OwnNearest ==
    ASSUME NEW c \in Classes, NEW m \in VirtualNames, m[1] = c
    PROVE  Nearest(m[1], c, Key(m))
  BY VirtualNameDeclares, NearestSelf

LEMMA VectorsAreGood ==
    ASSUME NEW b, NEW L, WellLaid(b, L)
    PROVE  \A c \in L : VectorGood(b, c)
<1> DEFINE T == {c \in Classes : c \in L => VectorGood(b, c)}
<1>1. ASSUME NEW c \in Classes, c \in L, Super[c] = c \/ Super[c] \in T PROVE VectorGood(b, c)
  <2>1. PICK s : s = Base(b, c)
    OBVIOUS
  <2>2. /\ b[c].vector = MethodVector(c, s.vector)
        /\ b[c].index = [k \in VirtualMethods(c) |-> MethodIndex(c, k, s.vector)]
    BY <1>1, <2>1, ResolveFields DEF WellLaid
  <2>3. PICK v : v = b[c].vector
    OBVIOUS
  <2>4. PICK inherited : inherited = s.vector
    OBVIOUS
  <2>5. ASSUME inherited \in Seq(VirtualNames)
        PROVE  /\ v \in Seq(VirtualNames)
               /\ AllSelected(b, c, {c})
               /\ OverInherited(c, v, inherited)
    <3>1. /\ b[c].vector = MethodVector(c, inherited)
          /\ b[c].index = [k \in VirtualMethods(c) |-> MethodIndex(c, k, inherited)]
      BY <2>2, <2>4
    <3>2. /\ b[c].vector \in Seq(VirtualNames)
          /\ AllSelected(b, c, {c})
          /\ OverInherited(c, b[c].vector, inherited)
      BY <2>5, <3>1, OwnSelected, Zenon
    <3>3. QED BY <3>2, <2>3
  <2>6. CASE Super[c] = c
    <3>1. inherited = <<>>
      BY <2>1, <2>4, <2>6 DEF Base, Unresolved
    <3>2. inherited \in Seq(VirtualNames) /\ Len(inherited) = 0
      BY <3>1
    <3>3. v \in Seq(VirtualNames) /\ AllSelected(b, c, {c}) /\ \A i \in 1..Len(v) : v[i][1] = c
      BY <3>2, <2>5 DEF OverInherited
    <3>4. ASSUME NEW i \in 1..Len(v) PROVE Nearest(v[i][1], c, Key(v[i]))
      <4>1. v[i] \in VirtualNames /\ v[i][1] = c
        BY <3>3
      <4>2. QED BY <4>1, OwnNearest
    <3>5. Range(Chain[c]) = {c}
      BY <2>6, ChainGoesUp
    <3>6. QED BY <3>3, <3>4, <3>5, <2>3 DEF VectorGood, AllNearest
  <2>7. CASE Super[c] # c
    <3>1. PICK p : p = Super[c]
      OBVIOUS
    <3>2. p \in L /\ VectorGood(b, p) /\ p \in Classes /\ s = b[p]
      BY <1>1, <2>1, <2>7, <3>1, Files DEF WellLaid, Base
    <3>3. PICK C : C = Range(Chain[p])
      OBVIOUS
    <3>4. /\ inherited \in Seq(VirtualNames) /\ AllSelected(b, p, C)
          /\ \A i \in 1..Len(inherited) : Nearest(inherited[i][1], p, Key(inherited[i]))
          /\ inherited = b[p].vector
      BY <3>2, <3>3, <2>4 DEF VectorGood, AllNearest
    <3>5. /\ v \in Seq(VirtualNames)
          /\ AllSelected(b, c, {c})
          /\ OverInherited(c, v, inherited)
      BY <3>4, <2>5
    <3>6. Len(inherited) \in Nat /\ Len(v) \in Nat
      BY <3>4, <3>5
    <3>7. /\ Len(inherited) =< Len(v)
          /\ \A i \in 1..Len(inherited) :
                /\ Key(v[i]) = Key(inherited[i])
                /\ \/ v[i][1] = c
                   \/ ~Declares(c, Key(inherited[i])) /\ v[i] = inherited[i]
          /\ \A i \in 1..Len(v) : i > Len(inherited) => v[i][1] = c
      BY <3>5 DEF OverInherited
    <3>8. ASSUME NEW i \in 1..Len(v) PROVE Nearest(v[i][1], c, Key(v[i]))
      <4>1. CASE v[i][1] = c
        <5>1. v[i] \in VirtualNames
          BY <3>5
        <5>2. QED BY <5>1, <4>1, OwnNearest
      <4>2. CASE v[i][1] # c
        <5>1. i \in 1..Len(inherited)
          <6>1. \A j \in 1..Len(v) : j > Len(inherited) => v[j][1] = c
            BY <3>7
          <6>2. ~(i > Len(inherited))
            BY <6>1, <4>2
          <6>3. PICK m \in Nat : m = Len(inherited)
            BY <3>6
          <6>4. QED BY <6>2, <6>3, <3>6
        <5>2. ~Declares(c, Key(inherited[i])) /\ v[i] = inherited[i]
          BY <5>1, <4>2, <3>7
        <5>3. PICK key : key = Key(inherited[i])
          OBVIOUS
        <5>4. PICK d : d = inherited[i][1]
          OBVIOUS
        <5>5. Nearest(d, p, key) /\ ~Declares(c, key)
          BY <5>1, <5>2, <5>3, <5>4, <3>4
        <5>6. Nearest(d, c, key)
          BY <5>5, <3>1, <2>7, NearestUp
        <5>7. QED BY <5>2, <5>3, <5>4, <5>6
      <4>3. QED BY <4>1, <4>2
    <3>9. ASSUME NEW d \in C, NEW k \in VirtualMethods(d) PROVE Selected(b, c, d, k)
      <4>1. PICK i : i = b[d].index[k]
        OBVIOUS
      <4>2. i \in 1..Len(inherited) /\ Key(inherited[i]) = MethodsOf[d][k].key
        BY <4>1, <3>4 DEF AllSelected, Selected
      <4>3. Key(v[i]) = MethodsOf[d][k].key /\ i \in 1..Len(v)
        BY <4>2, <3>7, <3>6
      <4>4. QED BY <4>1, <4>3, <2>3 DEF Selected
    <3>10. Range(Chain[c]) = {c} \cup C
      BY <2>7, <3>1, <3>3, ChainGoesUp
    <3>11. AllSelected(b, c, {c} \cup C)
      BY <3>5, <3>9 DEF AllSelected
    <3>12. AllNearest(b, c)
      BY <3>8, <2>3 DEF AllNearest
    <3>13. QED BY <2>3, <3>5, <3>10, <3>11, <3>12 DEF VectorGood
  <2>8. QED BY <2>6, <2>7
<1>2. Classes \subseteq T
  <2>1. ASSUME NEW c \in Classes, Super[c] = c \/ Super[c] \in T PROVE c \in T
    BY <1>1, <2>1
  <2> HIDE DEF T
  <2>2. QED BY <2>1, ClassInduction
<1>3. QED BY <1>2 DEF WellLaid

(***************************************************************************)
(* The inductive invariant.                                                *)
(*                                                                         *)
(* BinInv: a class collected is laid out over its superclass, or not at    *)
(* all.  StackInv: only the innermost activation has not come to its       *)
(* superclass yet; the others wait, each for the class inside it, with a   *)
(* class of their own that is collected and not laid out.  HashInv: the    *)
(* entry of a bucket is the latest class of the bucket, and each class is  *)
(* chained to the latest before it.  BootInv: the kinds known are those in *)
(* the class table up to ExceptionBlock, which ends bootstrapping.         *)
(***************************************************************************)
Laid(b) == {c \in DOMAIN b : b[c].resolved}

BinInv(b) ==
    /\ DOMAIN b \subseteq Classes
    /\ \A c \in DOMAIN b : b[c] = Unresolved \/ b[c].resolved
    /\ WellLaid(b, Laid(b))

StackInv(stack, b) ==
    /\ stack \in Seq([class : Classes, super : BOOLEAN])
    /\ \A i \in 1..Len(stack) :
          /\ i > 1 => stack[i].super /\ Super[stack[i].class] = stack[i - 1].class
          /\ stack[i].super => stack[i].class \in DOMAIN b \ Laid(b)
    /\ \A i, j \in 1..Len(stack) :
          stack[i].super /\ stack[j].super /\ stack[i].class = stack[j].class => i = j

(* The superclass asked for was collected.                                 *)
SuperFound ==
    loading # <<>> /\ Head(loading).super /\ result = "success"
    => Super[Head(loading).class] \in DOMAIN binclasses

(* x is the latest class of bucket k among the first n of table t, or Null. *)
Latest(x, k, t, n) ==
    \/ x = Null /\ \A j \in 1..n : Bucket[t[j]] # k
    \/ \E i \in 1..n : /\ x = t[i] /\ Bucket[t[i]] = k
                       /\ \A j \in i + 1..n : Bucket[t[j]] # k

HashInv(t, h, nx) ==
    /\ t \in Seq(Classes) /\ IsInjective(t)
    /\ h \in [Range(Bucket) -> Classes \cup {Null}]
    /\ nx \in [Range(t) -> Classes \cup {Null}]
    /\ \A k \in Range(Bucket) : Latest(h[k], k, t, Len(t))
    /\ \A i \in 1..Len(t) : Latest(nx[t[i]], Bucket[t[i]], t, i - 1)

(* The kinds in table t up to ExceptionBlock.                              *)
KnownIn(t) == {d \in Kinds : \E j \in 1..Len(t) :
                  t[j] = d /\ \A i \in 1..j - 1 : t[i] # "ExceptionBlock"}

BootInv(t, k, done) ==
    /\ k = KnownIn(t)
    /\ done <=> "ExceptionBlock" \in Range(t)

ObjectsTypeOK(objs) ==
    \A c \in DOMAIN objs :
        /\ DOMAIN objs[c].header \subseteq DOMAIN HeaderOf
        /\ DOMAIN objs[c].footer \subseteq DOMAIN FooterOf
        /\ \A p \in DOMAIN objs[c].header : objs[c].header[p] \in {HeaderOf[p], Null}

(* What initialized holds: the name without a path, and a class's.         *)
InitNames == {<<Null, "binit">>} \cup (Classes \X {"init"})

(* The variables no other part is about.                                   *)
PlainTypeOK ==
    /\ files \in [Classes -> {"missing", "bad", "good"}]
    /\ result \in {"none", "success", "fail"}
    /\ boot \in 0..(Len(Boot) + 1)
    /\ initialized \in Seq(InitNames)
    /\ classCount \in Nat /\ bsdone \in BOOLEAN
    /\ currentAddress \in Nat
    /\ trapTable \in [Range(TrapOf) -> Classes \cup {Null}]

(* The program's count of classes, and the trap table.                     *)
CountRight ==
    bsdone /\ "Class" \in Range(classTable) /\ classTable[Len(classTable)] # "ExceptionBlock"
    => classCount = Len(classTable)

TrapsRight == \A c \in DOMAIN TrapOf : trapTable[TrapOf[c]] \in {Null, c}

IInv ==
    /\ PlainTypeOK
    /\ BinInv(binclasses)
    /\ StackInv(loading, binclasses)
    /\ SuperFound
    /\ HashInv(classTable, hashTable, next)
    /\ Range(classTable) = LaidOut
    /\ DOMAIN objects = Range(classTable) /\ ObjectsTypeOK(objects)
    /\ BootInv(classTable, known, bsdone)
    /\ HeadersFilled
    /\ CountRight
    /\ TrapsRight

(***************************************************************************)
(* Classes collected and laid out.                                         *)
(***************************************************************************)
LEMMA UnresolvedIs ==
    ~Unresolved.resolved /\ Unresolved.slots = <<>> /\ Unresolved.vector = <<>>
  BY DEF Unresolved

LEMMA CollectBin ==
    ASSUME NEW b, BinInv(b), NEW c \in Classes, c \notin DOMAIN b
    PROVE  /\ BinInv(Put(b, c, Unresolved))
           /\ Laid(Put(b, c, Unresolved)) = Laid(b)
           /\ DOMAIN Put(b, c, Unresolved) = DOMAIN b \cup {c}
<1>1. PICK u : u = Unresolved
  OBVIOUS
<1>2. PICK d : d = Put(b, c, u)
  OBVIOUS
<1>3. DOMAIN d = DOMAIN b \cup {c} /\ d[c] = u /\ \A x \in DOMAIN b : d[x] = b[x]
  BY <1>2 DEF Put
<1>4. ~u.resolved
  BY <1>1, UnresolvedIs
<1>5. Laid(d) = Laid(b)
  BY <1>3, <1>4 DEF Laid
<1>6. ASSUME NEW x \in Laid(d) PROVE Super[x] \in Laid(d) /\ d[x] = Resolve(x, Base(d, x))
  <2>1. x \in Laid(b) /\ Super[x] \in Laid(b) /\ b[x] = Resolve(x, Base(b, x))
    BY <1>5 DEF BinInv, WellLaid
  <2>2. x \in DOMAIN b /\ Super[x] \in DOMAIN b
    BY <2>1 DEF Laid
  <2>3. Base(d, x) = Base(b, x)
    BY <2>2, <1>3 DEF Base
  <2>4. QED BY <2>1, <2>2, <2>3, <1>3, <1>5
<1>7. BinInv(d)
  <2>1. DOMAIN d \subseteq Classes /\ \A x \in DOMAIN d : d[x] = u \/ d[x].resolved
    BY <1>1, <1>3 DEF BinInv
  <2>2. Laid(d) \subseteq Classes
    BY <2>1 DEF Laid
  <2>3. QED BY <2>1, <2>2, <1>1, <1>6 DEF BinInv, WellLaid
<1>8. QED BY <1>1, <1>2, <1>3, <1>5, <1>7

LEMMA LayBin ==
    ASSUME NEW b, BinInv(b), NEW c \in DOMAIN b, c \notin Laid(b),
           Super[c] = c \/ Super[c] \in Laid(b)
    PROVE  /\ BinInv([b EXCEPT ![c] = Resolve(c, Base(b, c))])
           /\ Laid([b EXCEPT ![c] = Resolve(c, Base(b, c))]) = Laid(b) \cup {c}
<1>1. PICK r : r = Resolve(c, Base(b, c))
  OBVIOUS
<1>2. PICK d : d = [b EXCEPT ![c] = r]
  OBVIOUS
<1>3. DOMAIN d = DOMAIN b /\ d[c] = r /\ \A x \in DOMAIN b : x # c => d[x] = b[x]
  BY <1>2
<1>4. r.resolved
  BY <1>1, ResolveFields
<1>5. Laid(d) = Laid(b) \cup {c}
  BY <1>3, <1>4 DEF Laid
<1>6. ASSUME NEW x \in Laid(d) PROVE Super[x] \in Laid(d) /\ d[x] = Resolve(x, Base(d, x))
  <2>1. CASE x = c
    <3>1. Super[x] \in Laid(d)
      BY <2>1, <1>5
    <3>2. Super[c] = c \/ (Super[c] \in DOMAIN b /\ Super[c] # c)
      BY DEF Laid
    <3>3. Base(d, c) = Base(b, c)
      BY <3>2, <1>3 DEF Base
    <3>4. QED BY <2>1, <3>1, <3>3, <1>1, <1>3
  <2>2. CASE x # c
    <3>1. x \in Laid(b) /\ Super[x] \in Laid(b) /\ b[x] = Resolve(x, Base(b, x))
      BY <2>2, <1>5 DEF BinInv, WellLaid
    <3>2. x \in DOMAIN b /\ Super[x] \in DOMAIN b /\ Super[x] # c
      BY <3>1 DEF Laid
    <3>3. Base(d, x) = Base(b, x)
      BY <3>2, <1>3 DEF Base
    <3>4. QED BY <3>1, <3>2, <3>3, <2>2, <1>3, <1>5
  <2>3. QED BY <2>1, <2>2
<1>7. BinInv(d)
  <2>1. PICK u : u = Unresolved
    OBVIOUS
  <2>2. DOMAIN d \subseteq Classes /\ \A x \in DOMAIN d : d[x] = u \/ d[x].resolved
    BY <2>1, <1>3, <1>4 DEF BinInv
  <2>3. Laid(d) \subseteq Classes
    BY <2>2 DEF Laid
  <2>4. QED BY <2>1, <2>2, <2>3, <1>6 DEF BinInv, WellLaid
<1>8. QED BY <1>1, <1>2, <1>5, <1>7

LEMMA Layouts ==
    ASSUME NEW b, BinInv(b)
    PROVE  \A c \in DOMAIN b : LayoutTypeOK(c, b[c])
<1> SUFFICES ASSUME NEW c \in DOMAIN b PROVE LayoutTypeOK(c, b[c])
  OBVIOUS
<1>1. c \in Classes
  BY DEF BinInv
<1>2. CASE b[c] = Unresolved
  BY <1>2 DEF LayoutTypeOK, Unresolved, Range
<1>3. CASE b[c].resolved
  <2>1. c \in Laid(b) /\ WellLaid(b, Laid(b))
    BY <1>3 DEF Laid, BinInv
  <2>2. PICK s : s = Base(b, c)
    OBVIOUS
  <2>3. b[c] = Resolve(c, s)
    BY <2>1, <2>2 DEF WellLaid
  <2>4. s.slots \in Slots /\ s.vector \in Seq(VirtualNames)
    <3>1. CASE Super[c] = c
      BY <3>1, <2>2 DEF Base, Unresolved, Slots
    <3>2. CASE Super[c] # c
      <4>1. s = b[Super[c]] /\ Super[c] \in Laid(b)
        BY <3>2, <2>1, <2>2 DEF Base, WellLaid
      <4>2. SlotsGood(b, Super[c]) /\ VectorGood(b, Super[c])
        BY <4>1, <2>1, SlotsAreGood, VectorsAreGood
      <4>3. QED BY <4>1, <4>2 DEF SlotsGood, VectorGood
    <3>3. QED BY <3>1, <3>2
  <2>5. PICK slots \in Slots : slots = s.slots
    BY <2>4
  <2>6. PICK vector \in Seq(VirtualNames) : vector = s.vector
    BY <2>4
  <2>7. PICK t : t = SlotTable(c, slots)
    OBVIOUS
  <2>8. PICK o : o = FieldOffsets(c, slots)
    OBVIOUS
  <2>9. PICK v : v = MethodVector(c, vector)
    OBVIOUS
  <2>10. PICK x : x = [k \in VirtualMethods(c) |-> MethodIndex(c, k, vector)]
    OBVIOUS
  <2>11. t \in Slots /\ DOMAIN o = 1..Len(FieldsOf[c])
    BY <2>7, <2>8, <1>1, SlotTableFacts
  <2>12. \A k \in 1..Len(FieldsOf[c]) : o[k] \in Len(slots)..Len(t)
    BY <2>7, <2>8, <1>1, SlotTableFacts
  <2>13. v \in Seq(VirtualNames)
    BY <2>9, <1>1, VectorFacts
  <2>14. \A k \in VirtualMethods(c) : MethodIndex(c, k, vector) \in 1..Len(v)
    BY <2>9, <1>1, VectorFacts
  <2>15. \A k \in DOMAIN o : o[k] \in 0..Len(t)
    <3>1. Len(slots) \in Nat /\ Len(t) \in Nat
      BY <2>11 DEF Slots
    <3>2. QED BY <3>1, <2>11, <2>12
  <2>16. \A k \in DOMAIN x : x[k] \in 1..Len(v)
    BY <2>10, <2>14
  <2>17. Range(t) \subseteq Names \cup {<<>>}
    BY <2>11 DEF Slots, Range
  <2>18. VirtualNames \subseteq Names
    <3>1. \A d \in Classes : VirtualMethods(d) \subseteq Nat
      BY MethodFacts
    <3>2. QED BY <3>1 DEF VirtualNames, Names
  <2>19. Range(v) \subseteq Names
    BY <2>13, <2>18 DEF Range
  <2>20. PICK l : l = b[c]
    OBVIOUS
  <2>21. /\ l.slots = t /\ l.offset = o /\ l.vector = v /\ l.index = x
         /\ l.resolved = TRUE /\ DOMAIN l = DOMAIN Unresolved
    <3>1. l = Resolve(c, s)
      BY <2>3, <2>20
    <3>2. /\ l.slots = SlotTable(c, s.slots) /\ l.offset = FieldOffsets(c, s.slots)
          /\ l.vector = MethodVector(c, s.vector)
          /\ l.index = [k \in VirtualMethods(c) |-> MethodIndex(c, k, s.vector)]
          /\ DOMAIN l = DOMAIN Unresolved
      BY <3>1, ResolveFields
    <3>3. l.resolved = TRUE
      BY <3>1 DEF Resolve
    <3>4. QED BY <3>2, <3>3, <2>5, <2>6, <2>7, <2>8, <2>9, <2>10
  <2>22. LayoutTypeOK(c, l)
    BY <2>15, <2>16, <2>17, <2>19, <2>21 DEF LayoutTypeOK
  <2>23. QED BY <2>20, <2>22
<1>4. QED BY <1>2, <1>3 DEF BinInv

(***************************************************************************)
(* The class table and the chains of the hash table.                       *)
(***************************************************************************)
LEMMA AppendFacts ==
    ASSUME NEW t \in Seq(Classes), NEW c \in Classes
    PROVE  /\ Append(t, c) \in Seq(Classes)
           /\ Len(Append(t, c)) = Len(t) + 1
           /\ \A i \in 1..Len(t) : Append(t, c)[i] = t[i]
           /\ Append(t, c)[Len(t) + 1] = c
           /\ Range(Append(t, c)) = Range(t) \cup {c}
<1>1. PICK s : s = Append(t, c)
  OBVIOUS
<1>2. PICK n \in Nat : n = Len(t) /\ DOMAIN t = 1..n
  OBVIOUS
<1>3. /\ s \in Seq(Classes) /\ Len(s) = n + 1 /\ DOMAIN s = 1..n + 1
      /\ s[n + 1] = c /\ \A i \in 1..n : s[i] = t[i]
  BY <1>1, <1>2
<1>4. Range(s) = Range(t) \cup {c}
  <2>1. \A i \in 1..n + 1 : i = n + 1 \/ i \in 1..n
    BY <1>2
  <2>2. n + 1 \in 1..n + 1 /\ \A i \in 1..n : i \in 1..n + 1
    BY <1>2
  <2>3. QED BY <2>1, <2>2, <1>2, <1>3 DEF Range
<1>5. QED BY <1>1, <1>2, <1>3, <1>4

LEMMA AppendInjective ==
    ASSUME NEW t \in Seq(Classes), NEW c \in Classes, IsInjective(t), c \notin Range(t)
    PROVE  IsInjective(Append(t, c))
<1>1. PICK s : s = Append(t, c)
  OBVIOUS
<1>2. PICK n \in Nat : n = Len(t) /\ DOMAIN t = 1..n
  OBVIOUS
<1>3. DOMAIN s = 1..n + 1 /\ s[n + 1] = c /\ \A i \in 1..n : s[i] = t[i]
  BY <1>1, <1>2
<1>4. \A i \in 1..n : t[i] # c
  BY <1>2 DEF Range
<1>5. \A i, j \in 1..n : t[i] = t[j] => i = j
  BY <1>2 DEF IsInjective
<1>6. \A i, j \in 1..n + 1 : s[i] = s[j] => i = j
  BY <1>3, <1>4, <1>5
<1>7. QED BY <1>1, <1>3, <1>6 DEF IsInjective

(* Longer tables say the same of their beginning.                          *)
LEMMA LatestSame ==
    ASSUME NEW t, NEW s, NEW m \in Nat, NEW n \in 0..m, \A i \in 1..m : s[i] = t[i],
           NEW x, NEW k, Latest(x, k, t, n)
    PROVE  Latest(x, k, s, n)
<1>1. \A i \in 1..n : s[i] = t[i]
  OBVIOUS
<1>2. CASE x = Null /\ \A j \in 1..n : Bucket[t[j]] # k
  BY <1>1, <1>2 DEF Latest
<1>3. CASE \E i \in 1..n : /\ x = t[i] /\ Bucket[t[i]] = k
                           /\ \A j \in i + 1..n : Bucket[t[j]] # k
  <2>1. PICK i \in 1..n : /\ x = t[i] /\ Bucket[t[i]] = k
                          /\ \A j \in i + 1..n : Bucket[t[j]] # k
    BY <1>3
  <2>2. \A j \in i + 1..n : j \in 1..n
    OBVIOUS
  <2>3. x = s[i] /\ Bucket[s[i]] = k /\ \A j \in i + 1..n : Bucket[s[j]] # k
    BY <2>1, <2>2, <1>1
  <2>4. QED BY <2>3 DEF Latest
<1>4. QED BY <1>2, <1>3 DEF Latest

LEMMA LatestOther ==
    ASSUME NEW t, NEW n \in Nat, NEW x, NEW k, Latest(x, k, t, n), Bucket[t[n + 1]] # k
    PROVE  Latest(x, k, t, n + 1)
<1>1. \A j \in 1..n + 1 : j \in 1..n \/ j = n + 1
  OBVIOUS
<1>2. CASE x = Null /\ \A j \in 1..n : Bucket[t[j]] # k
  BY <1>1, <1>2 DEF Latest
<1>3. CASE \E i \in 1..n : /\ x = t[i] /\ Bucket[t[i]] = k
                           /\ \A j \in i + 1..n : Bucket[t[j]] # k
  <2>1. PICK i \in 1..n : /\ x = t[i] /\ Bucket[t[i]] = k
                          /\ \A j \in i + 1..n : Bucket[t[j]] # k
    BY <1>3
  <2>2. i \in 1..n + 1 /\ \A j \in i + 1..n + 1 : j \in i + 1..n \/ j = n + 1
    OBVIOUS
  <2>3. \A j \in i + 1..n + 1 : Bucket[t[j]] # k
    BY <2>1, <2>2
  <2>4. QED BY <2>1, <2>2, <2>3 DEF Latest
<1>4. QED BY <1>2, <1>3 DEF Latest

LEMMA LatestNew ==
    ASSUME NEW t, NEW n \in Nat
    PROVE  Latest(t[n + 1], Bucket[t[n + 1]], t, n + 1)
<1>1. n + 1 \in 1..n + 1 /\ (n + 1) + 1..n + 1 = {}
  OBVIOUS
<1>2. QED BY <1>1 DEF Latest

LEMMA HashAdd ==
    ASSUME NEW t, NEW h, NEW nx, HashInv(t, h, nx), NEW c \in Classes, c \notin Range(t)
    PROVE  HashInv(Append(t, c), [h EXCEPT ![Bucket[c]] = c], Put(nx, c, h[Bucket[c]]))
<1>1. PICK s : s = Append(t, c)
  OBVIOUS
<1>2. PICK q \in Range(Bucket) : q = Bucket[c]
  BY Files
<1>3. PICK x : x = h[q]
  OBVIOUS
<1>4. PICK g : g = [h EXCEPT ![q] = c]
  OBVIOUS
<1>5. PICK y : y = Put(nx, c, x)
  OBVIOUS
<1>6. /\ t \in Seq(Classes) /\ IsInjective(t)
      /\ h \in [Range(Bucket) -> Classes \cup {Null}]
      /\ nx \in [Range(t) -> Classes \cup {Null}]
      /\ \A k \in Range(Bucket) : Latest(h[k], k, t, Len(t))
      /\ \A i \in 1..Len(t) : Latest(nx[t[i]], Bucket[t[i]], t, i - 1)
  BY DEF HashInv
<1>7. PICK n \in Nat : n = Len(t) /\ DOMAIN t = 1..n
  BY <1>6
<1>8. /\ s \in Seq(Classes) /\ Len(s) = n + 1 /\ s[n + 1] = c /\ Range(s) = Range(t) \cup {c}
      /\ \A i \in 1..n : s[i] = t[i]
  BY <1>1, <1>6, <1>7, AppendFacts
<1>9. IsInjective(s)
  BY <1>1, <1>6, AppendInjective
<1>10. x \in Classes \cup {Null}
  BY <1>2, <1>3, <1>6
<1>11. g \in [Range(Bucket) -> Classes \cup {Null}]
  BY <1>2, <1>4, <1>6
<1>12. /\ y \in [Range(s) -> Classes \cup {Null}]
       /\ y[c] = x /\ \A d \in Range(t) : y[d] = nx[d]
  BY <1>5, <1>6, <1>8, <1>10 DEF Put
<1>13. ASSUME NEW k \in Range(Bucket), NEW m \in 0..n, NEW z, Latest(z, k, t, m)
       PROVE  Latest(z, k, s, m)
  BY <1>8, <1>13, LatestSame
<1>14. ASSUME NEW k \in Range(Bucket) PROVE Latest(g[k], k, s, Len(s))
  <2>1. CASE k = q
    <3>1. g[k] = c
      BY <2>1, <1>4, <1>6
    <3>2. Latest(s[n + 1], Bucket[s[n + 1]], s, n + 1)
      BY LatestNew
    <3>3. QED BY <3>1, <3>2, <2>1, <1>2, <1>8
  <2>2. CASE k # q
    <3>1. PICK z : z = h[k]
      OBVIOUS
    <3>2. g[k] = z
      BY <2>2, <3>1, <1>4, <1>6
    <3>3. Latest(z, k, t, n) /\ n \in 0..n
      BY <3>1, <1>6, <1>7
    <3>4. Latest(z, k, s, n)
      BY <3>3, <1>13
    <3>5. Bucket[s[n + 1]] # k
      BY <2>2, <1>2, <1>8
    <3>6. Latest(z, k, s, n + 1)
      BY <3>4, <3>5, LatestOther
    <3>7. QED BY <3>2, <3>6, <1>8
  <2>3. QED BY <2>1, <2>2
<1>15. ASSUME NEW i \in 1..n + 1 PROVE Latest(y[s[i]], Bucket[s[i]], s, i - 1)
  <2>1. CASE i = n + 1
    <3>1. Latest(x, q, t, n) /\ n \in 0..n
      BY <1>2, <1>3, <1>6, <1>7
    <3>2. Latest(x, q, s, n)
      BY <3>1, <1>13
    <3>3. s[i] = c /\ y[s[i]] = x /\ Bucket[s[i]] = q /\ i - 1 = n
      BY <2>1, <1>2, <1>8, <1>12
    <3>4. QED BY <3>2, <3>3
  <2>2. CASE i # n + 1
    <3>1. i \in 1..n /\ i - 1 \in 0..n
      BY <2>2
    <3>2. PICK d : d = t[i]
      OBVIOUS
    <3>3. d \in Range(t) /\ d \in Classes
      <4>1. t \in Seq(Classes) /\ i \in DOMAIN t
        BY <3>1, <1>6, <1>7
      <4>2. QED BY <4>1, <3>2 DEF Range
    <3>4. s[i] = d /\ y[s[i]] = nx[d]
      BY <3>1, <3>2, <3>3, <1>8, <1>12
    <3>5. PICK k \in Range(Bucket) : k = Bucket[d]
      BY <3>3, Files
    <3>6. PICK z : z = nx[d]
      OBVIOUS
    <3>7. Latest(z, k, t, i - 1)
      BY <3>1, <3>2, <3>5, <3>6, <1>6, <1>7
    <3>8. Latest(z, k, s, i - 1)
      BY <3>1, <3>7, <1>13
    <3>9. QED BY <3>4, <3>5, <3>6, <3>8
  <2>3. QED BY <2>1, <2>2
<1>16. HashInv(s, g, y)
  BY <1>8, <1>9, <1>11, <1>12, <1>14, <1>15 DEF HashInv
<1>17. QED BY <1>1, <1>2, <1>3, <1>4, <1>5, <1>16

LEMMA ConsFacts ==
    ASSUME NEW S, NEW x \in Seq(S), NEW c \in S
    PROVE  /\ <<c>> \o x \in Seq(S) /\ Range(<<c>> \o x) = {c} \cup Range(x)
           /\ c \notin Range(x) /\ IsInjective(x) => IsInjective(<<c>> \o x)
<1>1. PICK y : y = <<c>> \o x
  OBVIOUS
<1>2. PICK n \in Nat : n = Len(x) /\ DOMAIN x = 1..n
  OBVIOUS
<1>3. y \in Seq(S) /\ DOMAIN y = 1..n + 1 /\ y[1] = c /\ \A i \in 1..n : y[i + 1] = x[i]
  BY <1>1, <1>2
<1>4. \A i \in 1..n + 1 : i = 1 \/ (i - 1 \in 1..n /\ y[i] = x[i - 1])
  <2>1. ASSUME NEW i \in 1..n + 1, i # 1 PROVE i - 1 \in 1..n /\ y[i] = x[i - 1]
    <3>1. i - 1 \in 1..n /\ (i - 1) + 1 = i
      BY <2>1
    <3>2. QED BY <3>1, <1>3
  <2>2. QED BY <2>1
<1>5. Range(y) = {c} \cup Range(x)
  <2>1. \A i \in 1..n + 1 : y[i] \in {c} \cup Range(x)
    BY <1>2, <1>3, <1>4 DEF Range
  <2>2. \A i \in 1..n : i + 1 \in 1..n + 1
    OBVIOUS
  <2>3. \A i \in 1..n : x[i] \in Range(y)
    BY <2>2, <1>3 DEF Range
  <2>4. 1 \in 1..n + 1
    OBVIOUS
  <2>5. c \in Range(y)
    BY <2>4, <1>3 DEF Range
  <2>6. QED BY <2>1, <2>3, <2>5, <1>2, <1>3 DEF Range
<1>6. ASSUME c \notin Range(x), IsInjective(x) PROVE IsInjective(y)
  <2>1. \A i \in 1..n : x[i] # c
    BY <1>2, <1>6 DEF Range
  <2>2. ASSUME NEW i \in 1..n + 1, NEW j \in 1..n + 1, y[i] = y[j] PROVE i = j
    <3>1. CASE i = 1
      BY <3>1, <2>1, <2>2, <1>3, <1>4
    <3>2. CASE j = 1
      BY <3>2, <2>1, <2>2, <1>3, <1>4
    <3>3. CASE i # 1 /\ j # 1
      <4>1. i - 1 \in 1..n /\ j - 1 \in 1..n /\ x[i - 1] = x[j - 1]
        BY <3>3, <2>2, <1>4
      <4>2. i - 1 = j - 1
        BY <4>1, <1>2, <1>6 DEF IsInjective
      <4>3. QED BY <4>2
    <3>4. QED BY <3>1, <3>2, <3>3
  <2>3. QED BY <2>2, <1>3 DEF IsInjective
<1>7. QED BY <1>1, <1>3, <1>5, <1>6

LEMMA ChainFromIs ==
    ASSUME HashInv(classTable, hashTable, next)
    PROVE  \A c \in Range(classTable) :
              ChainFrom[c] = IF next[c] = Null THEN <<c>> ELSE <<c>> \o ChainFrom[next[c]]
<1>1. PICK t \in Seq(Classes) : t = classTable
  BY DEF HashInv
<1>2. PICK N \in Nat : N = Len(t) /\ DOMAIN t = 1..N
  OBVIOUS
<1> DEFINE C == Range(t)
           R == {c \in C : next[c] = Null}
           At(c) == CHOOSE i \in 1..N : t[i] = c
           order == [c \in C |-> At(c)]
<1>3. \A c \in C : At(c) \in 1..N /\ t[At(c)] = c
  BY <1>2 DEF Range
<1>4. \A i, j \in 1..N : t[i] = t[j] => i = j
  BY <1>1, <1>2 DEF HashInv, IsInjective
<1> HIDE DEF At
<1>5. order \in [C -> 0..N]
  BY <1>3
<1>6. ASSUME NEW c \in C \ R PROVE next[c] \in C /\ order[next[c]] < order[c]
  <2>1. PICK i \in 1..N : i = At(c) /\ t[i] = c
    BY <1>3
  <2>2. PICK x : x = next[c]
    OBVIOUS
  <2>3. Latest(x, Bucket[c], t, i - 1) /\ x # Null
    BY <2>1, <2>2, <1>1, <1>2 DEF HashInv
  <2>4. PICK j \in 1..i - 1 : x = t[j]
    BY <2>3 DEF Latest
  <2>5. j \in 1..N /\ j < i
    OBVIOUS
  <2>6. x \in C
    BY <2>4, <2>5, <1>2 DEF Range
  <2>7. At(x) = j
    BY <2>4, <2>5, <2>6, <1>3, <1>4
  <2>8. order[x] = j /\ order[c] = i
    BY <2>1, <2>6, <2>7
  <2>9. QED BY <2>2, <2>5, <2>6, <2>8
<1>7. PICK f : Walk(f, C, R, next)
  <2> HIDE DEF C, R, order
  <2>1. QED BY <1>5, <1>6, WalkExists
<1>8. f = [c \in Range(classTable) |-> IF next[c] = Null THEN <<c>> ELSE <<c>> \o f[next[c]]]
  BY <1>1, <1>7 DEF Walk
<1>9. ChainFrom = [c \in Range(classTable) |->
                      IF next[c] = Null THEN <<c>> ELSE <<c>> \o ChainFrom[next[c]]]
  BY <1>8 DEF ChainFrom
<1>10. QED BY <1>9

(* The chain from a class on holds the classes of its bucket up to it.     *)
LEMMA ChainsHold ==
    ASSUME HashInv(classTable, hashTable, next)
    PROVE  \A i \in 1..Len(classTable) :
              /\ ChainFrom[classTable[i]] \in Seq(Classes)
              /\ IsInjective(ChainFrom[classTable[i]])
              /\ Range(ChainFrom[classTable[i]])
                   = {classTable[j] : j \in {l \in 1..i : Bucket[classTable[l]] = Bucket[classTable[i]]}}
<1>1. PICK t \in Seq(Classes) : t = classTable
  BY DEF HashInv
<1>2. PICK N \in Nat : N = Len(t) /\ DOMAIN t = 1..N
  OBVIOUS
<1> DEFINE InBucket(i, k) == {t[j] : j \in {l \in 1..i : Bucket[t[l]] = k}}
           Good(i) == /\ ChainFrom[t[i]] \in Seq(Classes) /\ IsInjective(ChainFrom[t[i]])
                      /\ Range(ChainFrom[t[i]]) = InBucket(i, Bucket[t[i]])
           T == {n \in Nat : \A i \in 1..N : i =< n => Good(i)}
<1>3. \A i, j \in 1..N : t[i] = t[j] => i = j
  BY <1>1, <1>2 DEF HashInv, IsInjective
<1>4. 0 \in T
  OBVIOUS
<1>5. ASSUME NEW n \in 0..N - 1, n \in T PROVE n + 1 \in T
  <2>1. PICK c : c = t[n + 1]
    OBVIOUS
  <2>2. n + 1 \in 1..N /\ c \in Classes /\ c \in Range(t)
    BY <2>1, <1>2 DEF Range
  <2>3. PICK x : x = next[c]
    OBVIOUS
  <2>4. PICK k : k = Bucket[c]
    OBVIOUS
  <2>5. Latest(x, k, t, n)
    <3>1. (n + 1) - 1 = n
      OBVIOUS
    <3>2. Latest(next[t[n + 1]], Bucket[t[n + 1]], t, (n + 1) - 1)
      BY <2>2, <1>1, <1>2 DEF HashInv
    <3>3. QED BY <3>1, <3>2, <2>1, <2>3, <2>4
  <2>6. PICK y : y = ChainFrom[c]
    OBVIOUS
  <2>7. y = IF x = Null THEN <<c>> ELSE <<c>> \o ChainFrom[x]
    BY <2>2, <2>3, <2>6, <1>1, ChainFromIs
  <2>8. y \in Seq(Classes) /\ IsInjective(y) /\ Range(y) = InBucket(n + 1, k)
    <3>1. CASE x = Null /\ \A j \in 1..n : Bucket[t[j]] # k
      <4>1. y = <<c>>
        BY <3>1, <2>7
      <4>2. y \in Seq(Classes) /\ IsInjective(y) /\ Range(y) = {c}
        BY <4>1, <2>2 DEF IsInjective, Range
      <4>3. \A j \in 1..n + 1 : Bucket[t[j]] = k <=> j = n + 1
        BY <3>1, <2>1, <2>4
      <4>4. {l \in 1..n + 1 : Bucket[t[l]] = k} = {n + 1}
        BY <4>3
      <4>5. InBucket(n + 1, k) = {c}
        BY <4>4, <2>1
      <4>6. QED BY <4>2, <4>5
    <3>2. CASE \E m \in 1..n : /\ x = t[m] /\ Bucket[t[m]] = k
                               /\ \A j \in m + 1..n : Bucket[t[j]] # k
      <4>1. PICK m \in 1..n : /\ x = t[m] /\ Bucket[t[m]] = k
                              /\ \A j \in m + 1..n : Bucket[t[j]] # k
        BY <3>2
      <4>2. m \in 1..N /\ Good(m) /\ x \in Classes
        <5>1. m \in 1..N /\ m =< n
          BY <4>1
        <5>2. x \in Classes
          BY <5>1, <4>1, <1>2
        <5> HIDE DEF Good
        <5>3. QED BY <5>1, <5>2, <1>5
      <4>3. PICK w : w = ChainFrom[x]
        OBVIOUS
      <4>4. w \in Seq(Classes) /\ IsInjective(w) /\ Range(w) = InBucket(m, k)
        BY <4>1, <4>2, <4>3
      <4>5. x # Null
        BY <4>2, Files
      <4>6. y = <<c>> \o w
        BY <4>3, <4>5, <2>7
      <4>7. \A j \in 1..m : j \in 1..N /\ j # n + 1
        BY <4>2
      <4>8. c \notin InBucket(m, k)
        BY <4>7, <2>1, <2>2, <1>3
      <4>9. \A j \in 1..n + 1 : Bucket[t[j]] = k => j \in 1..m \/ j = n + 1
        <5>1. \A j \in 1..n + 1 : j \in 1..m \/ j = n + 1 \/ j \in m + 1..n
          OBVIOUS
        <5>2. QED BY <5>1, <4>1
      <4>10. \A j \in 1..m : j \in 1..n + 1
        OBVIOUS
      <4>11. n + 1 \in 1..n + 1 /\ Bucket[t[n + 1]] = k
        BY <2>1, <2>4
      <4>12. {l \in 1..n + 1 : Bucket[t[l]] = k} = {l \in 1..m : Bucket[t[l]] = k} \cup {n + 1}
        BY <4>9, <4>10, <4>11
      <4>13. InBucket(n + 1, k) = {c} \cup InBucket(m, k)
        BY <4>12, <2>1
      <4>14. QED BY <4>4, <4>6, <4>8, <4>13, <2>2, ConsFacts
    <3>3. QED BY <3>1, <3>2, <2>5 DEF Latest
  <2>9. Good(n + 1)
    BY <2>1, <2>4, <2>6, <2>8
  <2> HIDE DEF Good
  <2>10. \A i \in 1..N : i =< n + 1 => i =< n \/ i = n + 1
    OBVIOUS
  <2>11. \A i \in 1..N : i =< n + 1 => Good(i)
    BY <1>5, <2>9, <2>10
  <2>12. n + 1 \in Nat
    OBVIOUS
  <2>13. QED BY <2>11, <2>12
<1>6. N \in T
  <2> HIDE DEF T
  <2>1. QED BY <1>4, <1>5, Induction
<1>7. \A i \in 1..N : Good(i)
  <2> HIDE DEF Good
  <2>1. QED BY <1>6
<1>8. ASSUME NEW i \in 1..Len(classTable)
      PROVE  /\ ChainFrom[classTable[i]] \in Seq(Classes)
             /\ IsInjective(ChainFrom[classTable[i]])
             /\ Range(ChainFrom[classTable[i]])
                  = {classTable[j] : j \in {l \in 1..i : Bucket[classTable[l]] = Bucket[classTable[i]]}}
  <2>1. i \in 1..N
    BY <1>1, <1>2
  <2>2. Good(i)
    BY <2>1, <1>7
  <2>3. QED BY <2>2, <1>1, Zenon
<1>9. QED BY <1>8

(***************************************************************************)
(* What the invariant implies.                                             *)
(***************************************************************************)
LEMMA LaidIs == LaidOut = Laid(binclasses)
  BY DEF LaidOut, Laid

LEMMA InvTypes ==
    ASSUME IInv
    PROVE  TypeOK
<1>1. /\ DOMAIN binclasses \subseteq Classes
      /\ \A c \in DOMAIN binclasses : LayoutTypeOK(c, binclasses[c])
  BY Layouts DEF IInv, BinInv
<1>2. Range(classTable) \subseteq DOMAIN binclasses
  BY DEF IInv, LaidOut
<1>3. known \subseteq Kinds
  BY DEF IInv, BootInv, KnownIn
<1>4. /\ DOMAIN objects = Range(classTable)
      /\ \A c \in DOMAIN objects :
            \A p \in DOMAIN objects[c].header : objects[c].header[p] \in {HeaderOf[p], Null}
  BY DEF IInv, ObjectsTypeOK
<1>5. /\ hashTable \in [Range(Bucket) -> Classes \cup {Null}]
      /\ next \in [Range(classTable) -> Classes \cup {Null}]
  BY DEF IInv, HashInv
<1>6. loading \in Seq([class : Classes, super : BOOLEAN])
  BY DEF IInv, StackInv
<1>7. PlainTypeOK
  BY DEF IInv
<1>8. \A i \in DOMAIN initialized : initialized[i][2] \in {"binit", "init"}
  <2>1. \A i \in DOMAIN initialized : initialized[i] \in InitNames
    BY <1>7 DEF PlainTypeOK
  <2>2. \A x \in InitNames : x[2] \in {"binit", "init"}
    BY DEF InitNames
  <2>3. QED BY <2>1, <2>2
<1>9. QED BY <1>1, <1>2, <1>3, <1>4, <1>5, <1>6, <1>7, <1>8 DEF TypeOK, PlainTypeOK

LEMMA InvLayouts ==
    ASSUME IInv
    PROVE  LayoutExtendsSuper
<1>1. PICK b : b = binclasses
  OBVIOUS
<1>2. BinInv(b) /\ WellLaid(b, Laid(b)) /\ LaidOut = Laid(b)
  BY <1>1, LaidIs DEF IInv, BinInv
<1> SUFFICES ASSUME NEW c \in LaidOut
    PROVE  LET layout == binclasses[c]
               chain  == Range(Chain[c])
               fields == UNION {{d} \X DOMAIN FieldsOf[d] : d \in chain}
               own    == {f \in fields : ~FieldsOf[f[1]][f[2]].static}
               Offset(f) == binclasses[f[1]].offset[f[2]]
               Words(f)  == (Offset(f) + 1)..(Offset(f) + FieldsOf[f[1]][f[2]].size)
           IN  /\ chain \subseteq LaidOut
               /\ Super[c] # c => StartsWith(layout.slots, binclasses[Super[c]].slots)
               /\ \A f \in own : Words(f) \subseteq DOMAIN layout.slots
                                  /\ layout.slots[Offset(f) + 1] = f
               /\ \A f, g \in own : f # g => Words(f) \cap Words(g) = {}
  BY DEF LayoutExtendsSuper
<1> DEFINE chain  == Range(Chain[c])
           fields == UNION {{d} \X DOMAIN FieldsOf[d] : d \in chain}
           own    == {f \in fields : ~FieldsOf[f[1]][f[2]].static}
           Offset(f) == b[f[1]].offset[f[2]]
           Size(f)   == FieldsOf[f[1]][f[2]].size
           Words(f)  == (Offset(f) + 1)..(Offset(f) + Size(f))
<1>3. c \in Laid(b) /\ c \in Classes
  BY <1>2 DEF WellLaid
<1>4. /\ chain \subseteq Laid(b) /\ SlotsGood(b, c)
      /\ Super[c] # c => Extends(b[c].slots, b[Super[c]].slots)
  BY <1>2, <1>3, SlotsAreGood
<1>5. PICK s : s = b[c].slots
  OBVIOUS
<1>6. s \in Slots /\ AllPlaced(b, c, chain) /\ AllApart(b, chain)
  BY <1>4, <1>5 DEF SlotsGood
<1>7. PICK n \in Nat : n = Len(s) /\ DOMAIN s = 1..n
  BY <1>6 DEF Slots
<1>8. ASSUME NEW f \in own
      PROVE  /\ f = <<f[1], f[2]>> /\ f[1] \in chain /\ f[2] \in InstanceFields(f[1])
             /\ f[1] \in Classes /\ Size(f) \in {1, 2}
  <2>1. PICK d \in chain : f \in {d} \X DOMAIN FieldsOf[d]
    OBVIOUS
  <2>2. d \in Classes
    BY <1>4, <1>2 DEF WellLaid
  <2>3. PICK k \in DOMAIN FieldsOf[d] : f = <<d, k>>
    BY <2>1
  <2>4. f[1] = d /\ f[2] = k
    BY <2>3
  <2>5. k \in 1..Len(FieldsOf[d]) /\ ~FieldsOf[d][k].static
    BY <2>2, <2>3, <2>4, FieldFacts
  <2>6. FieldsOf[d][k].size \in {1, 2}
    BY <2>2, <2>5, FieldFacts
  <2>7. k \in InstanceFields(d)
    BY <2>5 DEF InstanceFields
  <2>8. QED BY <2>2, <2>3, <2>4, <2>6, <2>7
<1> HIDE DEF chain, own, fields
<1>9. ASSUME NEW f \in own
      PROVE  Offset(f) \in Nat /\ Offset(f) + Size(f) =< n /\ s[Offset(f) + 1] = f
  <2>1. Placed(b, c, f[1], f[2])
    BY <1>6, <1>8 DEF AllPlaced
  <2>2. QED BY <2>1, <1>5, <1>7, <1>8 DEF Placed
<1>10. ASSUME NEW f \in own PROVE Words(f) \subseteq 1..n
  <2>1. PICK x \in Nat : x = Offset(f)
    BY <1>9
  <2>2. PICK z \in Nat : z = Size(f)
    BY <1>8
  <2>3. x + z =< n
    BY <2>1, <2>2, <1>9
  <2>4. x + 1..x + z \subseteq 1..n
    BY <2>3
  <2>5. QED BY <2>1, <2>2, <2>4
<1>11. ASSUME NEW f \in own, NEW g \in own, f # g PROVE Words(f) \cap Words(g) = {}
  <2>1. f[1] # g[1] \/ f[2] # g[2]
    BY <1>8, <1>11
  <2>2. Apart(b, f[1], f[2], g[1], g[2])
    BY <2>1, <1>6, <1>8 DEF AllApart
  <2>3. Offset(f) + Size(f) =< Offset(g) \/ Offset(g) + Size(g) =< Offset(f)
    BY <2>2 DEF Apart
  <2>4. PICK x \in Nat, y \in Nat : x = Offset(f) /\ y = Offset(g)
    BY <1>9
  <2>5. PICK u \in Nat, v \in Nat : u = Size(f) /\ v = Size(g)
    BY <1>8
  <2>6. x + u =< y \/ y + v =< x
    BY <2>3, <2>4, <2>5
  <2>7. (x + 1..x + u) \cap (y + 1..y + v) = {}
    BY <2>6
  <2>8. QED BY <2>4, <2>5, <2>7
<1>12. Super[c] # c => StartsWith(s, b[Super[c]].slots)
  <2>1. ASSUME Super[c] # c PROVE StartsWith(s, b[Super[c]].slots)
    <3>1. PICK t : t = b[Super[c]].slots
      OBVIOUS
    <3>2. Super[c] \in Laid(b)
      BY <1>2, <1>3 DEF WellLaid
    <3>3. t \in Slots
      BY <3>1, <3>2, <1>2, SlotsAreGood DEF SlotsGood
    <3>4. Extends(s, t)
      BY <2>1, <3>1, <1>4, <1>5
    <3>5. PICK m \in Nat : m = Len(t) /\ DOMAIN t = 1..m
      BY <3>3 DEF Slots
    <3>6. m =< n /\ \A i \in 1..m : s[i] = t[i]
      BY <3>4, <3>5, <1>7 DEF Extends
    <3>7. \A i \in 1..m : i \in 1..n
      BY <3>6
    <3>8. QED BY <3>1, <3>5, <3>6, <3>7, <1>7 DEF StartsWith
  <2>2. QED BY <2>1
<1>13. \A f \in own : Words(f) \subseteq DOMAIN s /\ s[Offset(f) + 1] = f
  BY <1>7, <1>9, <1>10
<1>14. \A f, g \in own : f # g => Words(f) \cap Words(g) = {}
  BY <1>11
<1>15. chain \subseteq LaidOut
  BY <1>2, <1>4
<1>16. QED BY <1>1, <1>5, <1>12, <1>13, <1>14, <1>15 DEF chain, own, fields

LEMMA InvVectors ==
    ASSUME IInv
    PROVE  VectorsMostDerived
<1>1. PICK b : b = binclasses
  OBVIOUS
<1>2. WellLaid(b, Laid(b)) /\ LaidOut = Laid(b)
  BY <1>1, LaidIs DEF IInv, BinInv
<1> SUFFICES ASSUME NEW c \in LaidOut
    PROVE  LET vector == binclasses[c].vector
               Near(key) ==
                   LET has == {n \in DOMAIN Chain[c] :
                           \E k \in VirtualMethods(Chain[c][n]) : MethodsOf[Chain[c][n]][k].key = key}
                   IN  IF has = {} THEN Null
                       ELSE Chain[c][CHOOSE n \in has : \A o \in has : n =< o]
           IN  \A d \in Range(Chain[c]) \cap LaidOut : \A k \in DOMAIN binclasses[d].index :
                   LET i == binclasses[d].index[k]
                   IN  /\ i \in DOMAIN vector
                       /\ Key(vector[i]) = MethodsOf[d][k].key
                       /\ vector[i][1] = Near(MethodsOf[d][k].key)
  BY DEF VectorsMostDerived
<1> DEFINE Has(key) == {n \in DOMAIN Chain[c] :
               \E k \in VirtualMethods(Chain[c][n]) : MethodsOf[Chain[c][n]][k].key = key}
           Near(key) == IF Has(key) = {} THEN Null
                        ELSE Chain[c][CHOOSE n \in Has(key) : \A o \in Has(key) : n =< o]
<1>3. c \in Laid(b) /\ c \in Classes /\ VectorGood(b, c)
  BY <1>2, VectorsAreGood DEF WellLaid
<1>4. PICK x : x = Chain[c]
  OBVIOUS
<1>5. PICK l \in Nat : l = Len(x) /\ DOMAIN x = 1..l
  BY <1>3, <1>4, ChainType
<1>6. ASSUME NEW key, NEW e, Nearest(e, c, key) PROVE e = Near(key)
  <2>1. PICK n \in 1..l : /\ e = x[n] /\ Declares(e, key)
                          /\ \A o \in 1..n - 1 : ~Declares(x[o], key)
    BY <1>4, <1>5, <1>6 DEF Nearest
  <2>2. PICK H : H = Has(key)
    OBVIOUS
  <2>3. \A o : o \in H <=> o \in 1..l /\ Declares(x[o], key)
    BY <2>2, <1>4, <1>5 DEF Declares
  <2>4. n \in H
    BY <2>1, <2>3
  <2>5. ASSUME NEW o \in H PROVE n =< o
    <3>1. o \in 1..l /\ Declares(x[o], key)
      BY <2>3
    <3>2. o \notin 1..n - 1
      BY <3>1, <2>1
    <3>3. QED BY <3>1, <3>2
  <2>6. \A o \in H : o \in Nat
    BY <2>3
  <2>7. PICK m : m = CHOOSE o \in H : \A p \in H : o =< p
    OBVIOUS
  <2>8. m \in H /\ \A p \in H : m =< p
    BY <2>4, <2>5, <2>7
  <2>9. m = n
    <3>1. m =< n /\ n =< m /\ m \in Nat
      BY <2>4, <2>5, <2>6, <2>8
    <3>2. QED BY <3>1
  <2>10. Near(key) = x[m]
    BY <2>2, <2>4, <2>7, <1>4
  <2>11. QED BY <2>1, <2>9, <2>10
<1> HIDE DEF Has, Near
<1>7. PICK v : v = b[c].vector
  OBVIOUS
<1>8. v \in Seq(VirtualNames)
  BY <1>3, <1>7 DEF VectorGood
<1>9. ASSUME NEW d \in Range(Chain[c]) \cap LaidOut, NEW k \in DOMAIN b[d].index
      PROVE  /\ b[d].index[k] \in DOMAIN v
             /\ Key(v[b[d].index[k]]) = MethodsOf[d][k].key
             /\ v[b[d].index[k]][1] = Near(MethodsOf[d][k].key)
  <2>1. PICK i : i = b[d].index[k]
    OBVIOUS
  <2>2. k \in VirtualMethods(d)
    <3>1. PICK s : s = Base(b, d)
      OBVIOUS
    <3>2. b[d] = Resolve(d, s)
      BY <3>1, <1>2 DEF WellLaid
    <3>3. b[d].index = [j \in VirtualMethods(d) |-> MethodIndex(d, j, s.vector)]
      BY <3>2, ResolveFields
    <3>4. QED BY <3>3
  <2>3. Selected(b, c, d, k)
    BY <2>2, <1>3 DEF VectorGood, AllSelected
  <2>4. i \in 1..Len(v) /\ Key(v[i]) = MethodsOf[d][k].key
    BY <2>1, <2>3, <1>7 DEF Selected
  <2>5. Nearest(v[i][1], c, Key(v[i]))
    BY <2>4, <1>3, <1>7 DEF VectorGood, AllNearest
  <2>6. PICK key : key = MethodsOf[d][k].key
    OBVIOUS
  <2>7. Nearest(v[i][1], c, key)
    BY <2>4, <2>5, <2>6
  <2>8. v[i][1] = Near(key)
    BY <2>7, <1>6
  <2>9. i \in DOMAIN v
    BY <2>4, <1>8
  <2>10. QED BY <2>1, <2>4, <2>6, <2>8, <2>9
<1>10. QED BY <1>1, <1>7, <1>9 DEF Has, Near

LEMMA InvTables ==
    ASSUME IInv
    PROVE  TablesAgree
<1>1. HashInv(classTable, hashTable, next)
  BY DEF IInv
<1>2. PICK t \in Seq(Classes) : t = classTable
  BY <1>1 DEF HashInv
<1>3. PICK N \in Nat : N = Len(t) /\ DOMAIN t = 1..N
  OBVIOUS
<1>4. IsInjective(t)
  BY <1>1, <1>2 DEF HashInv
<1>5. ASSUME NEW q \in Range(Bucket), NEW chain,
             chain = IF hashTable[q] = Null THEN <<>> ELSE ChainFrom[hashTable[q]]
      PROVE  IsInjective(chain) /\ Range(chain) = {c \in Range(t) : Bucket[c] = q}
  <2>1. PICK x : x = hashTable[q]
    OBVIOUS
  <2>2. Latest(x, q, t, N)
    BY <2>1, <1>1, <1>2, <1>3 DEF HashInv
  <2>3. CASE x = Null /\ \A j \in 1..N : Bucket[t[j]] # q
    <3>1. chain = <<>>
      BY <2>1, <2>3, <1>5
    <3>2. IsInjective(chain) /\ Range(chain) = {}
      BY <3>1 DEF IsInjective, Range
    <3>3. {c \in Range(t) : Bucket[c] = q} = {}
      BY <2>3, <1>3 DEF Range
    <3>4. QED BY <3>2, <3>3
  <2>4. CASE \E i \in 1..N : /\ x = t[i] /\ Bucket[t[i]] = q
                             /\ \A j \in i + 1..N : Bucket[t[j]] # q
    <3>1. PICK i \in 1..N : /\ x = t[i] /\ Bucket[t[i]] = q
                            /\ \A j \in i + 1..N : Bucket[t[j]] # q
      BY <2>4
    <3>2. x \in Classes
      BY <3>1, <1>3
    <3>3. x # Null
      BY <3>2, Files
    <3>4. chain = ChainFrom[t[i]]
      BY <3>1, <3>3, <2>1, <1>5
    <3>5. /\ IsInjective(ChainFrom[t[i]])
          /\ Range(ChainFrom[t[i]]) = {t[j] : j \in {l \in 1..i : Bucket[t[l]] = Bucket[t[i]]}}
      <4>1. i \in 1..Len(classTable)
        BY <1>2, <1>3
      <4>2. /\ IsInjective(ChainFrom[classTable[i]])
            /\ Range(ChainFrom[classTable[i]])
                 = {classTable[j] : j \in {l \in 1..i : Bucket[classTable[l]] = Bucket[classTable[i]]}}
        BY <1>1, <4>1, ChainsHold
      <4>3. QED BY <4>2, <1>2, Zenon
    <3>6. \A j \in 1..N : Bucket[t[j]] = q <=> j \in {l \in 1..i : Bucket[t[l]] = q}
      <4>1. \A j \in 1..N : j \in 1..i \/ j \in i + 1..N
        OBVIOUS
      <4>2. QED BY <4>1, <3>1
    <3>7. \A j \in 1..i : j \in 1..N
      OBVIOUS
    <3>8. PICK I : I = {l \in 1..i : Bucket[t[l]] = q}
      OBVIOUS
    <3>9. I \subseteq 1..N /\ \A j \in 1..N : Bucket[t[j]] = q <=> j \in I
      BY <3>6, <3>7, <3>8
    <3>10. Range(chain) = {t[j] : j \in I}
      BY <3>1, <3>4, <3>5, <3>8
    <3>11. {t[j] : j \in I} = {c \in Range(t) : Bucket[c] = q}
      BY <3>9, <1>3 DEF Range
    <3>12. QED BY <3>4, <3>5, <3>10, <3>11
  <2>5. QED BY <2>2, <2>3, <2>4 DEF Latest
<1>6. CountRight /\ TrapsRight
  BY DEF IInv
<1>7. \A q \in Range(Bucket) :
          LET chain == IF hashTable[q] = Null THEN <<>> ELSE ChainFrom[hashTable[q]]
          IN  IsInjective(chain) /\ Range(chain) = {c \in Range(t) : Bucket[c] = q}
  BY <1>5
<1>8. QED BY <1>2, <1>4, <1>6, <1>7 DEF TablesAgree, CountRight, TrapsRight

(***************************************************************************)
(* The stack of activations.                                               *)
(***************************************************************************)
Activations == [class : Classes, super : BOOLEAN]

LEMMA StackIs ==
    ASSUME NEW stack, NEW b, StackInv(stack, b), stack # <<>>
    PROVE  /\ stack \in Seq(Activations) /\ Len(stack) \in Nat /\ Len(stack) >= 1
           /\ Head(stack) = stack[1] /\ Tail(stack) \in Seq(Activations)
           /\ Len(Tail(stack)) = Len(stack) - 1
           /\ \A i \in 1..Len(stack) - 1 : Tail(stack)[i] = stack[i + 1]
           /\ stack[1].class \in Classes /\ stack[1].super \in BOOLEAN
<1>1. PICK A : A = Activations
  OBVIOUS
<1>2. stack \in Seq(A)
  BY <1>1 DEF StackInv, Activations
<1>3. stack[1] \in A
  BY <1>2
<1>4. stack[1].class \in Classes /\ stack[1].super \in BOOLEAN
  BY <1>1, <1>3 DEF Activations
<1>5. QED BY <1>1, <1>2, <1>4

LEMMA StackHead ==
    ASSUME NEW stack, NEW b, StackInv(stack, b), stack # <<>>, stack[1].super
    PROVE  stack[1].class \in DOMAIN b \ Laid(b)
<1>1. 1 \in 1..Len(stack)
  BY StackIs
<1>2. QED BY <1>1 DEF StackInv

LEMMA StackPop ==
    ASSUME NEW stack, NEW b, StackInv(stack, b), stack # <<>>, NEW d,
           \A i \in 2..Len(stack) : stack[i].class \in DOMAIN d \ Laid(d)
    PROVE  /\ StackInv(Tail(stack), d)
           /\ Tail(stack) # <<>> => Super[Head(Tail(stack)).class] = stack[1].class
<1>1. PICK n \in Nat : n = Len(stack) /\ n >= 1
  BY StackIs
<1>2. PICK s : s = Tail(stack)
  OBVIOUS
<1>3. s \in Seq(Activations) /\ Len(s) = n - 1 /\ \A i \in 1..n - 1 : s[i] = stack[i + 1]
  BY <1>1, <1>2, StackIs
<1>4. \A i \in 1..n - 1 : i + 1 \in 1..n /\ i + 1 \in 2..n /\ i + 1 > 1 /\ (i + 1) - 1 = i
  BY <1>1
<1>5. /\ \A i \in 1..n : i > 1 => stack[i].super /\ Super[stack[i].class] = stack[i - 1].class
      /\ \A i, j \in 1..n :
            stack[i].super /\ stack[j].super /\ stack[i].class = stack[j].class => i = j
  BY <1>1 DEF StackInv
<1>6. ASSUME NEW i \in 1..n - 1
      PROVE  /\ s[i].super /\ Super[s[i].class] = stack[i].class
             /\ s[i].class \in DOMAIN d \ Laid(d)
  BY <1>1, <1>3, <1>4, <1>5
<1>7. ASSUME NEW i \in 1..n - 1, i > 1 PROVE Super[s[i].class] = s[i - 1].class
  <2>1. i - 1 \in 1..n - 1 /\ (i - 1) + 1 = i
    BY <1>7
  <2>2. s[i - 1] = stack[i]
    BY <2>1, <1>3
  <2>3. QED BY <2>2, <1>6
<1>8. ASSUME NEW i \in 1..n - 1, NEW j \in 1..n - 1, s[i].class = s[j].class PROVE i = j
  <2>1. stack[i + 1].class = stack[j + 1].class /\ stack[i + 1].super /\ stack[j + 1].super
    BY <1>3, <1>4, <1>5, <1>8
  <2>2. i + 1 = j + 1
    BY <2>1, <1>4, <1>5
  <2>3. QED BY <2>2
<1>9. StackInv(s, d)
  BY <1>3, <1>6, <1>7, <1>8 DEF StackInv, Activations
<1>10. ASSUME s # <<>> PROVE Super[Head(s).class] = stack[1].class
  <2>1. PICK A : A = Activations
    OBVIOUS
  <2>2. s \in Seq(A) /\ s # <<>>
    BY <2>1, <1>3, <1>10
  <2>3. Len(s) >= 1 /\ Head(s) = s[1]
    BY <2>2
  <2>4. 1 \in 1..n - 1
    BY <2>3, <1>1, <1>3
  <2>5. QED BY <2>3, <2>4, <1>6
<1>11. QED BY <1>2, <1>9, <1>10

LEMMA StackPush ==
    ASSUME NEW stack, NEW b, StackInv(stack, b), NEW c \in Classes,
           stack # <<>> => stack[1].super /\ Super[stack[1].class] = c
    PROVE  StackInv(<<Activation(c)>> \o stack, b)
<1>1. PICK A : A = Activations
  OBVIOUS
<1>2. stack \in Seq(A)
  BY <1>1 DEF StackInv, Activations
<1>3. PICK n \in Nat : n = Len(stack)
  BY <1>2
<1>4. PICK a : a = Activation(c)
  OBVIOUS
<1>5. a \in A /\ a.class = c /\ ~a.super
  BY <1>1, <1>4 DEF Activation, Activations
<1>6. PICK s : s = <<a>> \o stack
  OBVIOUS
<1>7. s \in Seq(A) /\ Len(s) = n + 1 /\ s[1] = a /\ \A i \in 1..n : s[i + 1] = stack[i]
  BY <1>2, <1>3, <1>5, <1>6
<1>8. ASSUME NEW i \in 1..n + 1, i # 1
      PROVE  /\ i - 1 \in 1..n /\ s[i] = stack[i - 1]
             /\ s[i].super /\ s[i].class \in DOMAIN b \ Laid(b)
             /\ Super[s[i].class] = s[i - 1].class
  <2>1. i - 1 \in 1..n /\ (i - 1) + 1 = i
    BY <1>8
  <2>2. s[i] = stack[i - 1]
    BY <2>1, <1>7
  <2>3. CASE i = 2
    <3>1. stack # <<>> /\ i - 1 = 1
      BY <2>1, <2>3, <1>3
    <3>2. stack[1].super /\ Super[stack[1].class] = c
      BY <3>1
    <3>3. stack[1].class \in DOMAIN b \ Laid(b)
      BY <3>1, <3>2, StackHead
    <3>4. s[i] = stack[1] /\ s[i - 1] = a
      BY <2>2, <3>1, <1>7
    <3>5. QED BY <2>1, <2>2, <3>2, <3>3, <3>4, <1>5
  <2>4. CASE i # 2
    <3>1. i - 1 > 1 /\ i - 2 \in 1..n /\ (i - 2) + 1 = i - 1 /\ (i - 1) - 1 = i - 2
      BY <2>1, <2>4
    <3>2. stack[i - 1].super /\ Super[stack[i - 1].class] = stack[i - 2].class
      BY <2>1, <3>1, <1>3 DEF StackInv
    <3>3. stack[i - 1].class \in DOMAIN b \ Laid(b)
      BY <2>1, <3>2, <1>3 DEF StackInv
    <3>4. s[i - 1] = stack[i - 2]
      BY <3>1, <1>7
    <3>5. QED BY <2>1, <2>2, <3>2, <3>3, <3>4
  <2>5. QED BY <2>3, <2>4
<1>9. ASSUME NEW i \in 1..n + 1, NEW j \in 1..n + 1, s[i].super, s[j].super,
             s[i].class = s[j].class
      PROVE  i = j
  <2>1. i # 1 /\ j # 1
    BY <1>5, <1>7, <1>9
  <2>2. i - 1 \in 1..n /\ j - 1 \in 1..n /\ s[i] = stack[i - 1] /\ s[j] = stack[j - 1]
    BY <2>1, <1>8
  <2>3. i - 1 = j - 1
    BY <2>2, <1>3, <1>9 DEF StackInv
  <2>4. QED BY <2>3
<1>10. ASSUME NEW i \in 1..n + 1
       PROVE  /\ i > 1 => s[i].super /\ Super[s[i].class] = s[i - 1].class
              /\ s[i].super => s[i].class \in DOMAIN b \ Laid(b)
  <2>1. CASE i = 1
    BY <2>1, <1>5, <1>7
  <2>2. CASE i # 1
    BY <2>2, <1>8
  <2>3. QED BY <2>1, <2>2
<1>11. s \in Seq([class : Classes, super : BOOLEAN])
  BY <1>1, <1>7 DEF Activations
<1>12. StackInv(s, b)
  BY <1>7, <1>9, <1>10, <1>11 DEF StackInv
<1>13. QED BY <1>4, <1>6, <1>12

(* The innermost activation has collected its class and comes to the       *)
(* superclass.                                                             *)
LEMMA StackWait ==
    ASSUME NEW stack, NEW b, StackInv(stack, b), stack # <<>>, NEW d,
           DOMAIN b \subseteq DOMAIN d, Laid(d) \subseteq Laid(b),
           stack[1].class \in DOMAIN d \ DOMAIN b
    PROVE  StackInv(<<[stack[1] EXCEPT !.super = TRUE]>> \o Tail(stack), d)
<1>1. PICK A : A = Activations
  OBVIOUS
<1>2. PICK n \in Nat : n = Len(stack) /\ n >= 1
  BY StackIs
<1>3. PICK u : u = Tail(stack)
  OBVIOUS
<1>4. /\ stack \in Seq(A) /\ u \in Seq(A) /\ Len(u) = n - 1
      /\ \A i \in 1..n - 1 : u[i] = stack[i + 1]
  BY <1>1, <1>2, <1>3, StackIs
<1>5. PICK c \in Classes : c = stack[1].class
  BY StackIs
<1>6. PICK a : a = [stack[1] EXCEPT !.super = TRUE]
  OBVIOUS
<1>7. a \in A /\ a.class = c /\ a.super
  <2>1. stack[1] \in A
    BY <1>2, <1>4
  <2>2. QED BY <2>1, <1>1, <1>5, <1>6 DEF Activations
<1>8. PICK s : s = <<a>> \o u
  OBVIOUS
<1>9. /\ s \in Seq(A) /\ Len(s) = n /\ s[1] = a
      /\ \A i \in 1..n - 1 : s[i + 1] = u[i]
  BY <1>2, <1>4, <1>7, <1>8
<1>10. ASSUME NEW i \in 1..n, i # 1 PROVE s[i] = stack[i]
  <2>1. i - 1 \in 1..n - 1 /\ (i - 1) + 1 = i
    BY <1>10
  <2>2. QED BY <2>1, <1>4, <1>9
<1>11. \A i \in 1..n : /\ i > 1 => stack[i].super /\ Super[stack[i].class] = stack[i - 1].class
                       /\ stack[i].super => stack[i].class \in DOMAIN b \ Laid(b)
  BY <1>2 DEF StackInv
<1>12. ASSUME NEW i \in 1..n
       PROVE  /\ i > 1 => s[i].super /\ Super[s[i].class] = s[i - 1].class
              /\ s[i].super => s[i].class \in DOMAIN d \ Laid(d)
              /\ i # 1 => s[i].class # c
  <2>1. CASE i = 1
    <3>1. c \notin Laid(b)
      BY <1>5 DEF Laid
    <3>2. QED BY <2>1, <3>1, <1>5, <1>7, <1>9
  <2>2. CASE i # 1
    <3>1. s[i] = stack[i] /\ i > 1 /\ i - 1 \in 1..n
      BY <2>2, <1>10
    <3>2. s[i - 1].class = stack[i - 1].class
      BY <3>1, <1>5, <1>7, <1>9, <1>10
    <3>3. /\ stack[i].super /\ Super[stack[i].class] = stack[i - 1].class
          /\ stack[i].class \in DOMAIN b \ Laid(b)
      BY <3>1, <1>11
    <3>4. QED BY <3>1, <3>2, <3>3, <1>5
  <2>3. QED BY <2>1, <2>2
<1>13. ASSUME NEW i \in 1..n, NEW j \in 1..n, s[i].super, s[j].super, s[i].class = s[j].class
       PROVE  i = j
  <2>1. CASE i = 1 \/ j = 1
    BY <2>1, <1>7, <1>9, <1>12, <1>13
  <2>2. CASE i # 1 /\ j # 1
    <3>1. s[i] = stack[i] /\ s[j] = stack[j]
      BY <2>2, <1>10
    <3>2. QED BY <3>1, <1>2, <1>13 DEF StackInv
  <2>3. QED BY <2>1, <2>2
<1>14. s \in Seq([class : Classes, super : BOOLEAN])
  BY <1>1, <1>9 DEF Activations
<1>15. StackInv(s, d)
  BY <1>9, <1>12, <1>13, <1>14 DEF StackInv
<1>16. QED BY <1>3, <1>6, <1>8, <1>15

(***************************************************************************)
(* The class in simulated memory.                                          *)
(***************************************************************************)
TableInv ==
    /\ HashInv(classTable, hashTable, next)
    /\ DOMAIN objects = Range(classTable) /\ ObjectsTypeOK(objects)
    /\ BootInv(classTable, known, bsdone)
    /\ HeadersFilled
    /\ CountRight

LEMMA TablesStay ==
    ASSUME TableInv, UNCHANGED tableVars
    PROVE  TableInv'
<1>1. /\ classTable' = classTable /\ hashTable' = hashTable /\ next' = next
      /\ objects' = objects /\ classCount' = classCount /\ known' = known /\ bsdone' = bsdone
  BY DEF tableVars
<1>2. HashInv(classTable, hashTable, next)' /\ BootInv(classTable, known, bsdone)'
  BY <1>1 DEF TableInv, HashInv, Latest, BootInv
<1>3. (DOMAIN objects = Range(classTable))' /\ ObjectsTypeOK(objects)'
  BY <1>1 DEF TableInv, ObjectsTypeOK
<1>4. HeadersFilled' /\ CountRight'
  BY <1>1 DEF TableInv, HeadersFilled, CountRight
<1>5. QED BY <1>2, <1>3, <1>4 DEF TableInv

LEMMA PartKinds ==
    /\ \A p \in DOMAIN HeaderOf : HeaderOf[p] \in Kinds
    /\ \A p \in DOMAIN FooterOf : FooterOf[p] \in Kinds
  BY DEF HeaderOf, FooterOf, Kinds

LEMMA PartsAre ==
    ASSUME NEW c, NEW layout
    PROVE  Parts(c, layout) \subseteq DOMAIN HeaderOf
  BY DEF Parts, HeaderOf

LEMMA KindNames == "ExceptionBlock" \in Kinds /\ "Class" \in Kinds
  BY DEF Kinds

(* The kinds known after class c.                                          *)
LEMMA BootAdd ==
    ASSUME NEW t \in Seq(Classes), NEW c \in Classes, c \notin Range(t)
    PROVE  KnownIn(Append(t, c)) = IF "ExceptionBlock" \in Range(t) THEN KnownIn(t)
                                   ELSE KnownIn(t) \cup ({c} \cap Kinds)
<1>1. PICK s : s = Append(t, c)
  OBVIOUS
<1>2. PICK n \in Nat : n = Len(t) /\ DOMAIN t = 1..n
  OBVIOUS
<1>3. Len(s) = n + 1 /\ s[n + 1] = c /\ \A i \in 1..n : s[i] = t[i]
  BY <1>1, <1>2
<1>4. PICK eb : eb = "ExceptionBlock"
  OBVIOUS
<1> DEFINE Early(u, j) == \A i \in 1..j - 1 : u[i] # eb
           Within(u, m, d) == \E j \in 1..m : u[j] = d /\ Early(u, j)
<1>5. \A j \in 1..n : Early(s, j) <=> Early(t, j)
  <2>1. \A j \in 1..n : \A i \in 1..j - 1 : i \in 1..n
    OBVIOUS
  <2>2. QED BY <2>1, <1>3
<1>6. Early(s, n + 1) <=> eb \notin Range(t)
  <2>1. (n + 1) - 1 = n
    OBVIOUS
  <2>2. QED BY <2>1, <1>2, <1>3 DEF Range
<1>7. \A j \in 1..n + 1 : j \in 1..n \/ j = n + 1
  OBVIOUS
<1>8. \A j \in 1..n : j \in 1..n + 1
  OBVIOUS
<1>9. n + 1 \in 1..n + 1
  OBVIOUS
<1> HIDE DEF Early
<1>10. ASSUME NEW d PROVE Within(s, n + 1, d) <=> Within(t, n, d) \/ (d = c /\ eb \notin Range(t))
  <2>1. ASSUME Within(s, n + 1, d) PROVE Within(t, n, d) \/ (d = c /\ eb \notin Range(t))
    <3>1. PICK j \in 1..n + 1 : s[j] = d /\ Early(s, j)
      BY <2>1
    <3>2. CASE j \in 1..n
      BY <3>1, <3>2, <1>3, <1>5
    <3>3. CASE j = n + 1
      BY <3>1, <3>3, <1>3, <1>6
    <3>4. QED BY <3>2, <3>3, <1>7
  <2>2. ASSUME Within(t, n, d) PROVE Within(s, n + 1, d)
    BY <2>2, <1>3, <1>5, <1>8
  <2>3. ASSUME d = c, eb \notin Range(t) PROVE Within(s, n + 1, d)
    BY <2>3, <1>3, <1>6, <1>9
  <2>4. QED BY <2>1, <2>2, <2>3
<1>11. PICK k : k = {d \in Kinds : Within(t, n, d)}
  OBVIOUS
<1>12. k = KnownIn(t)
  BY <1>2, <1>4, <1>11 DEF Early, KnownIn
<1>13. {d \in Kinds : Within(s, n + 1, d)} = IF eb \in Range(t) THEN k ELSE k \cup ({c} \cap Kinds)
  <2> HIDE DEF Within
  <2>1. QED BY <1>10, <1>11
<1>14. KnownIn(s) = {d \in Kinds : Within(s, n + 1, d)}
  BY <1>3, <1>4 DEF Early, KnownIn
<1>15. QED BY <1>1, <1>4, <1>13, <1>14, <1>12

(* When the kinds come first, all of them are known by the sixth class.    *)
LEMMA KindsKnown ==
    ASSUME NEW t \in Seq(Classes), IsInjective(t), Len(t) >= 5, t[5] = "ExceptionBlock",
           {t[i] : i \in 1..5} = Kinds
    PROVE  KnownIn(t) = Kinds
<1>1. PICK n \in Nat : n = Len(t) /\ DOMAIN t = 1..n /\ n >= 5
  OBVIOUS
<1>2. ASSUME NEW d \in Kinds
      PROVE  \E j \in 1..Len(t) : t[j] = d /\ \A i \in 1..j - 1 : t[i] # "ExceptionBlock"
  <2>1. PICK j \in 1..5 : t[j] = d
    BY <1>2
  <2>2. j \in 1..n /\ 5 \in 1..n
    BY <1>1
  <2>3. \A i \in 1..j - 1 : i \in 1..n /\ i # 5
    BY <2>2
  <2>4. \A i \in 1..j - 1 : t[i] # t[5]
    BY <2>2, <2>3, <1>1 DEF IsInjective
  <2>5. QED BY <2>1, <2>2, <2>4, <1>1
<1>3. QED BY <1>2 DEF KnownIn

LEMMA CopyTables ==
    ASSUME TableInv, bsdone \in BOOLEAN, classCount \in Nat,
           NEW c \in Classes, c \notin Range(classTable),
           NEW parts, parts \subseteq DOMAIN HeaderOf, SetClassTable(c), Bootstrap(c, parts)
    PROVE  /\ TableInv' /\ Range(classTable)' = Range(classTable) \cup {c}
           /\ classCount' \in Nat /\ bsdone' \in BOOLEAN
<1>1. PICK t \in Seq(Classes) : t = classTable
  BY DEF TableInv, HashInv
<1>2. PICK n \in Nat : n = Len(t) /\ DOMAIN t = 1..n
  OBVIOUS
<1>3. PICK s : s = classTable'
  OBVIOUS
<1>4. s = Append(t, c)
  BY <1>1, <1>3 DEF SetClassTable
<1>5. /\ s \in Seq(Classes) /\ Len(s) = n + 1 /\ s[n + 1] = c /\ Range(s) = Range(t) \cup {c}
      /\ \A i \in 1..n : s[i] = t[i]
  BY <1>1, <1>2, <1>4, AppendFacts
<1>6. HashInv(s, hashTable', next')
  <2>1. HashInv(t, hashTable, next) /\ c \notin Range(t)
    BY <1>1 DEF TableInv
  <2>2. PICK h : h = hashTable
    OBVIOUS
  <2>3. PICK nx : nx = next
    OBVIOUS
  <2>4. HashInv(Append(t, c), [h EXCEPT ![Bucket[c]] = c], Put(nx, c, h[Bucket[c]]))
    BY <2>1, <2>2, <2>3, HashAdd
  <2>5. hashTable' = [h EXCEPT ![Bucket[c]] = c] /\ next' = Put(nx, c, h[Bucket[c]])
    BY <2>2, <2>3 DEF SetClassTable, ChainedTo
  <2>6. QED BY <2>4, <2>5, <1>4
<1> DEFINE copied == Put(objects, c, ClassObject(c, parts))
           kinds == known \cup ({c} \cap Kinds)
           Fixed(d) ==
               [header |-> [p \in DOMAIN copied[d].header |->
                               IF HeaderOf[p] \in kinds THEN HeaderOf[p] ELSE Null],
                footer |-> [p \in DOMAIN copied[d].footer |->
                               IF FooterOf[p] \in kinds THEN FooterOf[p] ELSE Null]]
<1>7. ASSUME bsdone
      PROVE  /\ objects' = copied /\ known' = known /\ bsdone' = bsdone
             /\ classCount' = IF "Class" \in Range(t) \cup {c} THEN n + 1 ELSE classCount
  BY <1>1, <1>2, <1>7 DEF Bootstrap
<1>8. ASSUME ~bsdone
      PROVE  /\ known' = kinds /\ bsdone' = (c = "ExceptionBlock") /\ classCount' = classCount
             /\ objects' = [d \in DOMAIN copied |->
                    IF c = "ExceptionBlock" /\ d \in FixedUp THEN Fixed(d) ELSE copied[d]]
  BY <1>8 DEF Bootstrap
<1>9. bsdone <=> "ExceptionBlock" \in Range(t)
  BY <1>1 DEF TableInv, BootInv
<1>10. BootInv(s, known', bsdone') /\ bsdone' \in BOOLEAN
  <2>1. PICK k : k = known
    OBVIOUS
  <2>2. k = KnownIn(t)
    BY <2>1, <1>1 DEF TableInv, BootInv
  <2>3. c \notin Range(t)
    BY <1>1
  <2>4. KnownIn(s) = IF "ExceptionBlock" \in Range(t) THEN k ELSE k \cup ({c} \cap Kinds)
    BY <2>2, <2>3, <1>4, BootAdd
  <2>5. known' = IF "ExceptionBlock" \in Range(t) THEN k ELSE k \cup ({c} \cap Kinds)
    BY <2>1, <1>7, <1>8, <1>9
  <2>6. known' = KnownIn(s)
    BY <2>4, <2>5
  <2>7. (bsdone' <=> "ExceptionBlock" \in Range(s)) /\ bsdone' \in BOOLEAN
    <3>1. PICK R : R = Range(t)
      OBVIOUS
    <3>2. Range(s) = R \cup {c}
      BY <3>1, <1>5
    <3>3. CASE bsdone
      <4>1. bsdone' = bsdone
        BY <3>3, <1>7
      <4>2. QED BY <4>1, <3>1, <3>2, <3>3, <1>9
    <3>4. CASE ~bsdone
      <4>1. bsdone' = (c = "ExceptionBlock")
        BY <3>4, <1>8
      <4>2. "ExceptionBlock" \notin R
        BY <3>1, <3>4, <1>9
      <4>3. QED BY <4>1, <4>2, <3>2
    <3>5. QED BY <3>3, <3>4
  <2>8. QED BY <2>6, <2>7 DEF BootInv
<1>11. /\ DOMAIN copied = Range(s)
       /\ copied[c] = ClassObject(c, parts) /\ \A d \in Range(t) : copied[d] = objects[d]
  BY <1>1, <1>5 DEF TableInv, Put
<1>12. DOMAIN objects' = DOMAIN copied
  BY <1>7, <1>8
<1> DEFINE Typed(o) == /\ DOMAIN o.header \subseteq DOMAIN HeaderOf
                       /\ DOMAIN o.footer \subseteq DOMAIN FooterOf
                       /\ \A p \in DOMAIN o.header : o.header[p] \in {HeaderOf[p], Null}
           Filled(o) == /\ \A p \in DOMAIN o.header : o.header[p] = HeaderOf[p]
                        /\ \A p \in DOMAIN o.footer : o.footer[p] = FooterOf[p]
<1>13. PICK new : new = ClassObject(c, parts)
  OBVIOUS
<1>14. /\ new.header = [p \in parts |-> Vector(HeaderOf[p])]
       /\ new.footer = [p \in parts \cap DOMAIN FooterOf |-> Vector(FooterOf[p])]
  BY <1>13 DEF ClassObject
<1>15. Typed(new)
  BY <1>14 DEF Vector
<1>16. known = Kinds => Filled(new)
  <2>1. ASSUME known = Kinds PROVE Filled(new)
    <3>1. \A p \in parts : Vector(HeaderOf[p]) = HeaderOf[p]
      BY <2>1, PartKinds DEF Vector
    <3>2. \A p \in parts \cap DOMAIN FooterOf : Vector(FooterOf[p]) = FooterOf[p]
      BY <2>1, PartKinds DEF Vector
    <3>3. QED BY <3>1, <3>2, <1>14
  <2>2. QED BY <2>1
<1>17. ASSUME NEW d \in DOMAIN copied PROVE Typed(copied[d])
  <2>1. CASE d = c
    BY <2>1, <1>11, <1>13, <1>15
  <2>2. CASE d # c
    <3>1. d \in Range(t)
      BY <2>2, <1>5, <1>11
    <3>2. Typed(objects[d])
      BY <3>1, <1>1 DEF TableInv, ObjectsTypeOK
    <3>3. QED BY <3>1, <3>2, <1>11
  <2>3. QED BY <2>1, <2>2
<1> HIDE DEF copied
<1>18. ASSUME NEW d \in DOMAIN copied
       PROVE  Typed(Fixed(d)) /\ (kinds = Kinds => Filled(Fixed(d)))
  <2>1. PICK o : o = copied[d]
    OBVIOUS
  <2>2. PICK f : f = Fixed(d)
    OBVIOUS
  <2>3. PICK ks : ks = kinds
    OBVIOUS
  <2>4. /\ f.header = [p \in DOMAIN o.header |-> IF HeaderOf[p] \in ks THEN HeaderOf[p] ELSE Null]
        /\ f.footer = [p \in DOMAIN o.footer |-> IF FooterOf[p] \in ks THEN FooterOf[p] ELSE Null]
    BY <2>1, <2>2, <2>3
  <2>5. Typed(o)
    BY <2>1, <1>17
  <2>6. Typed(f)
    BY <2>4, <2>5
  <2>7. ks = Kinds => Filled(f)
    BY <2>4, <2>5, PartKinds
  <2>8. QED BY <2>2, <2>3, <2>6, <2>7
<1> HIDE DEF Fixed, kinds
<1>19. ASSUME NEW d \in DOMAIN copied PROVE objects'[d] = copied[d] \/ objects'[d] = Fixed(d)
  BY <1>7, <1>8, <1>19
<1>20. ObjectsTypeOK(objects')
  <2>1. ASSUME NEW d \in DOMAIN copied PROVE Typed(objects'[d])
    <3> HIDE DEF Typed
    <3>1. QED BY <1>17, <1>18, <1>19
  <2>2. QED BY <2>1, <1>12 DEF ObjectsTypeOK
<1>21. ASSUME Len(s) >= 5, s[5] = "ExceptionBlock", {s[i] : i \in 1..5} = Kinds
       PROVE  \A d \in DOMAIN copied : Filled(objects'[d])
  <2>1. CASE n >= 5
    <3>1. \A i \in 1..5 : i \in 1..n
      BY <2>1
    <3>2. 5 \in 1..5 /\ t[5] = "ExceptionBlock" /\ {t[i] : i \in 1..5} = Kinds
      <4>1. 5 \in 1..5 /\ 5 \in 1..n
        BY <2>1
      <4>2. \A i \in 1..5 : t[i] = s[i]
        BY <3>1, <1>5
      <4>3. QED BY <4>1, <4>2, <1>21
    <3>3. bsdone
      BY <3>1, <3>2, <1>2, <1>9 DEF Range
    <3>4. IsInjective(t)
      BY <1>1 DEF TableInv, HashInv
    <3>5. known = Kinds
      <4>1. KnownIn(t) = Kinds
        BY <3>2, <3>4, <2>1, <1>2, KindsKnown
      <4>2. QED BY <4>1, <1>1 DEF TableInv, BootInv
    <3>6. \A d \in Range(t) : Filled(objects[d])
      BY <3>2, <2>1, <1>1, <1>2 DEF TableInv, HeadersFilled
    <3>7. objects' = copied
      BY <3>3, <1>7
    <3>8. Filled(new)
      BY <3>5, <1>16
    <3> HIDE DEF Filled
    <3>9. QED BY <3>6, <3>7, <3>8, <1>5, <1>11, <1>13
  <2>2. CASE n = 4
    <3>1. c = "ExceptionBlock"
      BY <2>2, <1>5, <1>21
    <3>2. ~bsdone
      BY <3>1, <1>1, <1>9
    <3>3. kinds = Kinds
      <4>1. IsInjective(s) /\ Len(s) >= 5
        BY <1>6, <1>21 DEF HashInv
      <4>2. KnownIn(s) = Kinds
        BY <4>1, <1>5, <1>21, KindsKnown
      <4>3. known' = Kinds
        BY <4>2, <1>10 DEF BootInv
      <4>4. QED BY <4>3, <3>2, <1>8
    <3>4. DOMAIN copied = Kinds
      <4>1. DOMAIN s = 1..5
        BY <2>2, <1>5
      <4>2. QED BY <4>1, <1>11, <1>21 DEF Range
    <3>5. \A d \in DOMAIN copied : objects'[d] = Fixed(d)
      BY <3>1, <3>2, <3>4, <1>8 DEF FixedUp
    <3> HIDE DEF Filled
    <3>6. QED BY <3>3, <3>5, <1>18
  <2>3. n >= 5 \/ n = 4
    BY <1>5, <1>21
  <2>4. QED BY <2>1, <2>2, <2>3
<1>22. HeadersFilled'
  <2>1. classTable' = s /\ DOMAIN objects' = DOMAIN copied
    BY <1>3, <1>12
  <2>2. QED BY <2>1, <1>21 DEF HeadersFilled
<1>23. CountRight' /\ classCount' \in Nat
  <2>1. CASE bsdone
    <3>1. classCount' = IF "Class" \in Range(s) THEN n + 1 ELSE classCount
      BY <2>1, <1>5, <1>7
    <3>2. QED BY <3>1, <1>3, <1>5 DEF CountRight
  <2>2. CASE ~bsdone
    <3>1. bsdone' = (s[n + 1] = "ExceptionBlock") /\ classCount' = classCount
      BY <2>2, <1>5, <1>8
    <3>2. QED BY <3>1, <1>3, <1>5 DEF CountRight
  <2>3. QED BY <2>1, <2>2
<1>24. TableInv'
  BY <1>3, <1>6, <1>10, <1>11, <1>12, <1>20, <1>22, <1>23 DEF TableInv
<1>25. QED BY <1>1, <1>3, <1>5, <1>10, <1>23, <1>24

(***************************************************************************)
(* The steps.                                                              *)
(***************************************************************************)
LEMMA IInvIs ==
    IInv <=> /\ PlainTypeOK /\ BinInv(binclasses) /\ StackInv(loading, binclasses)
             /\ SuperFound /\ TableInv /\ Range(classTable) = LaidOut /\ TrapsRight
  BY DEF IInv, TableInv

LEMMA InvInit ==
    ASSUME Init
    PROVE  IInv
<1>1. PlainTypeOK
  <2>1. files \in [Classes -> {"missing", "bad", "good"}]
    BY Files DEF Init
  <2>2. boot \in 0..(Len(Boot) + 1)
    BY Files DEF Init
  <2>3. trapTable \in [Range(TrapOf) -> Classes \cup {Null}]
    BY DEF Init
  <2>4. initialized = <<>> /\ result = "none" /\ classCount = 0 /\ bsdone = FALSE /\ currentAddress = 0
    BY DEF Init
  <2>5. initialized \in Seq(InitNames)
    BY <2>4
  <2>6. QED BY <2>1, <2>2, <2>3, <2>4, <2>5 DEF PlainTypeOK
<1>2. BinInv(binclasses)
  BY DEF Init, BinInv, WellLaid, Laid
<1>3. StackInv(loading, binclasses)
  BY DEF Init, StackInv
<1>4. SuperFound
  BY DEF Init, SuperFound
<1>5. HashInv(classTable, hashTable, next)
  <2>1. /\ classTable = <<>> /\ next = <<>> /\ hashTable = [q \in Range(Bucket) |-> Null]
    BY DEF Init
  <2>2. classTable \in Seq(Classes) /\ IsInjective(classTable) /\ Range(classTable) = {}
        /\ Len(classTable) = 0
    BY <2>1 DEF IsInjective, Range
  <2>3. next \in [Range(classTable) -> Classes \cup {Null}]
    BY <2>1, <2>2
  <2>4. \A q \in Range(Bucket) : hashTable[q] = Null
    BY <2>1
  <2>5. \A q \in Range(Bucket) : Latest(hashTable[q], q, classTable, Len(classTable))
    BY <2>2, <2>4 DEF Latest
  <2>6. hashTable \in [Range(Bucket) -> Classes \cup {Null}]
    BY <2>1
  <2>7. QED BY <2>2, <2>3, <2>5, <2>6 DEF HashInv
<1>6. Range(classTable) = {} /\ LaidOut = {} /\ DOMAIN objects = {} /\ Len(classTable) = 0
  BY DEF Init, LaidOut, Range
<1>7. BootInv(classTable, known, bsdone)
  BY <1>6 DEF Init, BootInv, KnownIn
<1>8. ObjectsTypeOK(objects) /\ HeadersFilled
  BY <1>6 DEF ObjectsTypeOK, HeadersFilled
<1>9. CountRight /\ TrapsRight
  <2>1. \A c \in DOMAIN TrapOf : TrapOf[c] \in Range(TrapOf)
    BY DEF Range
  <2>2. QED BY <2>1 DEF Init, CountRight, TrapsRight
<1>10. QED BY <1>1, <1>2, <1>3, <1>4, <1>5, <1>6, <1>7, <1>8, <1>9 DEF IInv

(* An activation ends.                                                     *)
LEMMA InvReturn ==
    ASSUME IInv, NEW outcome \in {"none", "success", "fail"}, loading # <<>>, Return(outcome),
           outcome = "success" => Head(loading).class \in DOMAIN binclasses,
           UNCHANGED <<diskVars, hostVars, memVars>>
    PROVE  IInv'
<1>1. /\ loading' = Tail(loading) /\ result' = outcome
      /\ UNCHANGED <<files, boot, binclasses, initialized, currentAddress, trapTable>>
      /\ UNCHANGED tableVars /\ classTable' = classTable
      /\ classCount' = classCount /\ bsdone' = bsdone
  BY DEF Return, diskVars, hostVars, memVars, tableVars
<1>2. PlainTypeOK' /\ BinInv(binclasses)' /\ TrapsRight' /\ LaidOut' = LaidOut
  BY <1>1 DEF IInv, PlainTypeOK, BinInv, WellLaid, Base, Laid, TrapsRight, LaidOut
<1>3. TableInv'
  BY <1>1, TablesStay, IInvIs
<1>4. PICK b : b = binclasses
  OBVIOUS
<1>5. StackInv(loading, b)
  BY <1>4 DEF IInv
<1>6. \A i \in 2..Len(loading) : loading[i].class \in DOMAIN b \ Laid(b)
  <2>1. Len(loading) \in Nat
    BY <1>5 DEF StackInv
  <2>2. \A i \in 2..Len(loading) : i \in 1..Len(loading) /\ i > 1
    BY <2>1
  <2>3. QED BY <2>2, <1>5 DEF StackInv
<1>7. /\ StackInv(Tail(loading), b)
      /\ Tail(loading) # <<>> => Super[Head(Tail(loading)).class] = loading[1].class
  BY <1>5, <1>6, StackPop
<1>8. Head(loading) = loading[1]
  BY <1>5, StackIs
<1>9. SuperFound'
  BY <1>1, <1>4, <1>7, <1>8 DEF SuperFound
<1>10. StackInv(loading, binclasses)'
  BY <1>1, <1>4, <1>7
<1>11. (Range(classTable) = LaidOut)'
  BY <1>1, <1>2 DEF IInv
<1>12. QED BY <1>2, <1>3, <1>9, <1>10, <1>11 DEF IInv, TableInv

LEMMA InvNotRead ==
    ASSUME IInv, NotRead
    PROVE  IInv'
  BY InvReturn DEF NotRead

LEMMA InvAlreadyLoaded ==
    ASSUME IInv, AlreadyLoaded
    PROVE  IInv'
<1>1. Head(loading).class \in DOMAIN binclasses
  BY DEF AlreadyLoaded, Collected, In
<1>2. QED BY <1>1, InvReturn DEF AlreadyLoaded

LEMMA InvSuperFails ==
    ASSUME IInv, SuperFails
    PROVE  IInv'
  BY InvReturn DEF SuperFails

LEMMA InitFilesReadAre ==
    ASSUME NEW c \in Classes
    PROVE  InitFilesRead(c) \in Seq(InitNames)
<1>1. PICK x : x = <<Null, "binit">>
  OBVIOUS
<1>2. PICK y : y = <<c, "init">>
  OBVIOUS
<1>3. PICK S : S = InitNames
  OBVIOUS
<1>4. x \in S /\ y \in S
  BY <1>1, <1>2, <1>3 DEF InitNames
<1>5. PICK u \in Seq(S) : u = IF x \in InitFiles THEN <<x>> ELSE <<>>
  <2>1. <<x>> \in Seq(S) /\ <<>> \in Seq(S)
    BY <1>4
  <2>2. QED BY <2>1
<1>6. PICK v \in Seq(S) : v = IF y \in InitFiles THEN <<y>> ELSE <<>>
  <2>1. <<y>> \in Seq(S) /\ <<>> \in Seq(S)
    BY <1>4
  <2>2. QED BY <2>1
<1>7. InitFilesRead(c) = u \o v
  BY <1>1, <1>2, <1>5, <1>6 DEF InitFilesRead
<1>8. u \o v \in Seq(S)
  OBVIOUS
<1>9. QED BY <1>3, <1>7, <1>8

LEMMA InvCollect ==
    ASSUME IInv, Collect
    PROVE  IInv'
<1>1. PICK b : b = binclasses
  OBVIOUS
<1>2. BinInv(b) /\ StackInv(loading, b) /\ loading # <<>>
  BY <1>1 DEF IInv, Collect
<1>3. Head(loading) = loading[1] /\ loading[1].class \in Classes /\ Tail(loading) \in Seq(Activations)
  BY <1>2, StackIs
<1>4. PICK c \in Classes : c = loading[1].class
  BY <1>3
<1>5. PICK d : d = Put(b, c, Unresolved)
  OBVIOUS
<1>6. c \notin DOMAIN b /\ binclasses' = d
  BY <1>1, <1>3, <1>4, <1>5 DEF Collect, Collected, In
<1>7. BinInv(d) /\ Laid(d) = Laid(b) /\ DOMAIN d = DOMAIN b \cup {c}
  BY <1>2, <1>5, <1>6, CollectBin
<1>8. /\ UNCHANGED <<files, boot, currentAddress, trapTable>> /\ UNCHANGED tableVars
      /\ classTable' = classTable /\ classCount' = classCount /\ bsdone' = bsdone
  BY DEF Collect, diskVars, memVars, tableVars
<1>9. PICK w : w = <<[loading[1] EXCEPT !.super = TRUE]>> \o Tail(loading)
  OBVIOUS
<1>10. StackInv(w, d)
  BY <1>2, <1>4, <1>6, <1>7, <1>9, StackWait
<1>11. \/ Super[c] \in DOMAIN d /\ loading' = w /\ result' = "success"
       \/ Super[c] \notin DOMAIN d /\ loading' = <<Activation(Super[c])>> \o w /\ result' = "none"
  BY <1>3, <1>4, <1>6, <1>9 DEF Collect, In
<1>12. w # <<>> /\ w[1].class = c /\ w[1].super /\ Head(w) = w[1]
  <2>1. PICK A : A = Activations
    OBVIOUS
  <2>2. loading \in Seq(A) /\ Tail(loading) \in Seq(A) /\ Len(loading) >= 1
    BY <1>2, <2>1, StackIs
  <2>3. PICK x : x = [loading[1] EXCEPT !.super = TRUE]
    OBVIOUS
  <2>4. loading[1] \in A
    BY <2>2
  <2>5. x \in A /\ x.class = c /\ x.super
    BY <2>1, <2>3, <2>4, <1>4 DEF Activations
  <2>6. w \in Seq(A) /\ w # <<>> /\ w[1] = x /\ Head(w) = w[1]
    BY <2>2, <2>3, <2>5, <1>9
  <2>7. QED BY <2>5, <2>6
<1>13. StackInv(loading', d)
  <2>1. CASE loading' = w
    BY <2>1, <1>10
  <2>2. CASE loading' = <<Activation(Super[c])>> \o w
    <3>1. PICK p \in Classes : p = Super[c]
      BY Files
    <3>2. StackInv(<<Activation(p)>> \o w, d)
      BY <3>1, <1>10, <1>12, StackPush
    <3>3. QED BY <2>2, <3>1, <3>2
  <2>3. QED BY <2>1, <2>2, <1>11
<1>14. SuperFound'
  <2>1. CASE loading' = w
    BY <2>1, <1>6, <1>11, <1>12 DEF SuperFound
  <2>2. CASE result' = "none"
    BY <2>2 DEF SuperFound
  <2>3. QED BY <2>1, <2>2, <1>11
<1>15. initialized' = initialized \o InitFilesRead(c)
  BY <1>3, <1>4 DEF Collect, In
<1>16. TableInv'
  BY <1>8, TablesStay, IInvIs
<1>17. LaidOut' = LaidOut
  <2>1. LaidOut' = Laid(d)
    BY <1>6 DEF LaidOut, Laid
  <2>2. QED BY <2>1, <1>1, <1>7, LaidIs
<1>18. (Range(classTable) = LaidOut)' /\ TrapsRight'
  BY <1>8, <1>17 DEF IInv, TrapsRight
<1>19. PlainTypeOK'
  <2>1. PICK S : S = InitNames
    OBVIOUS
  <2>2. PICK u \in Seq(S) : u = InitFilesRead(c)
    BY <2>1, InitFilesReadAre
  <2>3. PICK v \in Seq(S) : v = initialized
    BY <2>1 DEF IInv, PlainTypeOK
  <2>4. v \o u \in Seq(S)
    OBVIOUS
  <2>5. initialized' \in Seq(InitNames)
    BY <2>1, <2>2, <2>3, <2>4, <1>15
  <2>6. QED BY <2>5, <1>8, <1>11 DEF IInv, PlainTypeOK
<1>20. QED BY <1>6, <1>7, <1>13, <1>14, <1>16, <1>18, <1>19, IInvIs DEF IInv, TableInv

LEMMA InvCopyClass ==
    ASSUME IInv, CopyClass
    PROVE  IInv'
<1>1. PICK b : b = binclasses
  OBVIOUS
<1>2. BinInv(b) /\ StackInv(loading, b) /\ loading # <<>>
  BY <1>1 DEF IInv, CopyClass
<1>3. Head(loading) = loading[1]
  BY <1>2, StackIs
<1>4. PICK c \in Classes : c = loading[1].class
  BY <1>2, StackIs
<1>5. loading[1].super /\ result = "success" /\ In.class = c
  BY <1>3, <1>4 DEF CopyClass, In
<1>6. c \in DOMAIN b /\ c \notin Laid(b)
  BY <1>2, <1>4, <1>5, StackHead
<1>7. PICK layout : layout = Resolve(c, Base(b, c))
  OBVIOUS
<1>8. PICK d : d = [b EXCEPT ![c] = layout]
  OBVIOUS
<1>9. /\ Super[c] = c \/ b[Super[c]].resolved
      /\ binclasses' = d /\ SetClassTable(c) /\ Bootstrap(c, Parts(c, layout))
      /\ cmMalloc(Footprint[c])
  BY <1>1, <1>5, <1>7, <1>8 DEF CopyClass, Base
<1>10. Super[c] = c \/ Super[c] \in Laid(b)
  <2>1. Super[c] \in DOMAIN b
    BY <1>1, <1>2, <1>3, <1>4, <1>5 DEF IInv, SuperFound
  <2>2. QED BY <2>1, <1>9 DEF Laid
<1>11. BinInv(d) /\ Laid(d) = Laid(b) \cup {c} /\ DOMAIN d = DOMAIN b
  <2>1. BinInv(d) /\ Laid(d) = Laid(b) \cup {c}
    BY <1>2, <1>6, <1>7, <1>8, <1>10, LayBin
  <2>2. QED BY <2>1, <1>8
<1>12. Return("success") /\ UNCHANGED <<files, initialized, trapTable>>
       /\ boot' = IF currentAddress' > CM_SIZE THEN Stopped ELSE boot
  BY DEF CopyClass
<1>13. \A i \in 2..Len(loading) : loading[i].class \in DOMAIN d \ Laid(d)
  <2>1. PICK n \in Nat : n = Len(loading) /\ n >= 1
    BY <1>2, StackIs
  <2>2. SUFFICES ASSUME NEW i \in 2..n PROVE loading[i].class \in DOMAIN d \ Laid(d)
    BY <2>1
  <2>3. i \in 1..n /\ i > 1 /\ 1 \in 1..n /\ i # 1
    BY <2>1
  <2>4. loading[i].super /\ loading[i].class \in DOMAIN b \ Laid(b)
    BY <2>1, <2>3, <1>2 DEF StackInv
  <2>5. loading[i].class # c
    BY <2>1, <2>3, <2>4, <1>2, <1>4, <1>5 DEF StackInv
  <2>6. QED BY <2>4, <2>5, <1>11
<1>14. /\ StackInv(Tail(loading), d)
       /\ Tail(loading) # <<>> => Super[Head(Tail(loading)).class] = loading[1].class
  BY <1>2, <1>13, StackPop
<1>15. loading' = Tail(loading) /\ result' = "success"
  BY <1>12 DEF Return
<1>16. StackInv(loading, binclasses)'
  BY <1>9, <1>14, <1>15
<1>17. SuperFound'
  BY <1>4, <1>6, <1>9, <1>11, <1>14, <1>15 DEF SuperFound
<1>18. LaidOut' = LaidOut \cup {c} /\ LaidOut = Laid(b)
  <2>1. LaidOut' = Laid(d)
    BY <1>9 DEF LaidOut, Laid
  <2>2. QED BY <2>1, <1>1, <1>11, LaidIs
<1>19. Range(classTable) = LaidOut /\ TableInv /\ bsdone \in BOOLEAN /\ classCount \in Nat
  BY IInvIs DEF PlainTypeOK
<1>20. /\ TableInv' /\ Range(classTable)' = Range(classTable) \cup {c}
       /\ classCount' \in Nat /\ bsdone' \in BOOLEAN
  <2>1. PICK parts : parts = Parts(c, layout)
    OBVIOUS
  <2>2. parts \subseteq DOMAIN HeaderOf
    BY <2>1, PartsAre
  <2>3. c \notin Range(classTable)
    BY <1>6, <1>18, <1>19
  <2>4. SetClassTable(c) /\ Bootstrap(c, parts)
    BY <2>1, <1>9
  <2>5. QED BY <2>2, <2>3, <2>4, <1>19, CopyTables
<1>21. PlainTypeOK'
  <2>1. PlainTypeOK
    BY DEF IInv
  <2>2. currentAddress' \in Nat
    <3>1. Footprint[c] \in Nat /\ currentAddress \in Nat
      BY <2>1, LoaderAssumption DEF PlainTypeOK
    <3>2. QED BY <3>1, <1>9 DEF cmMalloc
  <2>3. boot' \in 0..(Len(Boot) + 1)
    BY <2>1, <1>12, Files DEF PlainTypeOK, Stopped
  <2>4. QED BY <2>1, <2>2, <2>3, <1>12, <1>15, <1>20 DEF PlainTypeOK
<1>22. TrapsRight'
  BY <1>12 DEF IInv, TrapsRight
<1>23. QED BY <1>9, <1>11, <1>16, <1>17, <1>18, <1>19, <1>20, <1>21, <1>22 DEF IInv, TableInv

(* What keeps the classes, the stack and the tables keeps the rest.        *)
LEMMA InvPlain ==
    ASSUME IInv, PlainTypeOK', TrapsRight', UNCHANGED <<loading, result, binclasses>>,
           UNCHANGED tableVars
    PROVE  IInv'
<1>1. TableInv' /\ classTable' = classTable
  BY TablesStay, IInvIs DEF tableVars
<1>2. /\ BinInv(binclasses)' /\ StackInv(loading, binclasses)'
      /\ SuperFound' /\ LaidOut' = LaidOut
  BY DEF IInv, BinInv, WellLaid, Base, Laid, StackInv, SuperFound, LaidOut
<1>3. (Range(classTable) = LaidOut)'
  BY <1>1, <1>2 DEF IInv
<1>4. QED BY <1>1, <1>2, <1>3 DEF IInv, TableInv

LEMMA InvReadsGarbage ==
    ASSUME IInv, ReadsGarbage
    PROVE  IInv'
<1>1. /\ UNCHANGED <<files, loading, result, binclasses, initialized, currentAddress, trapTable>>
      /\ UNCHANGED tableVars /\ classCount' = classCount /\ bsdone' = bsdone /\ boot' = 0
  BY DEF ReadsGarbage, hostVars, memVars, tableVars, Stopped
<1>2. PlainTypeOK' /\ TrapsRight'
  BY <1>1, Files DEF IInv, PlainTypeOK, TrapsRight
<1>3. QED BY <1>1, <1>2, InvPlain

LEMMA InvFileRepaired ==
    ASSUME IInv, NEW c \in Classes, FileRepaired(c)
    PROVE  IInv'
<1>1. /\ UNCHANGED <<boot, loading, result, binclasses, initialized, currentAddress, trapTable>>
      /\ UNCHANGED tableVars /\ classCount' = classCount /\ bsdone' = bsdone
      /\ files' = [files EXCEPT ![c] = "good"]
  BY DEF FileRepaired, hostVars, memVars, tableVars
<1>2. PlainTypeOK' /\ TrapsRight'
  BY <1>1 DEF IInv, PlainTypeOK, TrapsRight
<1>3. QED BY <1>1, <1>2, InvPlain

(* Between loads the stack is empty, and what loadTrapHandlers and the     *)
(* shell leave behind in result matters to no one.                         *)
LEMMA InvIdle ==
    ASSUME IInv, PlainTypeOK', TrapsRight', loading = <<>>, loading' = <<>>,
           UNCHANGED binclasses, UNCHANGED tableVars
    PROVE  IInv'
<1>1. TableInv' /\ classTable' = classTable
  BY TablesStay, IInvIs DEF tableVars
<1>2. /\ BinInv(binclasses)' /\ StackInv(loading, binclasses)'
      /\ SuperFound' /\ LaidOut' = LaidOut
  BY DEF IInv, BinInv, WellLaid, Base, Laid, StackInv, SuperFound, LaidOut
<1>3. (Range(classTable) = LaidOut)'
  BY <1>1, <1>2 DEF IInv
<1>4. QED BY <1>1, <1>2, <1>3 DEF IInv, TableInv

LEMMA InvCall ==
    ASSUME IInv, NEW c \in Classes, loading = <<>>, Call(c),
           UNCHANGED <<diskVars, hostVars, memVars>>
    PROVE  IInv'
<1>1. /\ loading' = <<Activation(c)>> \o loading /\ result' = "none"
      /\ UNCHANGED <<files, boot, binclasses, initialized, currentAddress, trapTable>>
      /\ UNCHANGED tableVars /\ classTable' = classTable
      /\ classCount' = classCount /\ bsdone' = bsdone
  BY DEF Call, diskVars, hostVars, memVars, tableVars
<1>2. PlainTypeOK' /\ BinInv(binclasses)' /\ TrapsRight' /\ LaidOut' = LaidOut
  BY <1>1 DEF IInv, PlainTypeOK, BinInv, WellLaid, Base, Laid, TrapsRight, LaidOut
<1>3. TableInv'
  BY <1>1, TablesStay, IInvIs
<1>4. PICK b : b = binclasses
  OBVIOUS
<1>5. StackInv(loading, b)
  BY <1>4 DEF IInv
<1>6. StackInv(<<Activation(c)>> \o loading, b)
  BY <1>5, StackPush
<1>7. StackInv(loading, binclasses)'
  BY <1>1, <1>4, <1>6
<1>8. SuperFound'
  BY <1>1 DEF SuperFound
<1>9. (Range(classTable) = LaidOut)'
  BY <1>1, <1>2 DEF IInv
<1>10. QED BY <1>2, <1>3, <1>7, <1>8, <1>9 DEF IInv, TableInv

LEMMA BootClass ==
    ASSUME PlainTypeOK, Booting
    PROVE  boot \in 1..Len(Boot) /\ Len(Boot) \in Nat /\ Boot[boot] \in Classes
<1>1. Boot \in Seq(Classes) /\ Len(Boot) \in Nat
  BY LoaderAssumption
<1>2. boot \in 1..Len(Boot)
  BY <1>1 DEF PlainTypeOK, Booting, Idle, Running, Stopped
<1>3. QED BY <1>1, <1>2

LEMMA InvLoadSystemClass ==
    ASSUME IInv, LoadSystemClass
    PROVE  IInv'
<1>1. PICK c \in Classes : c = Boot[boot]
  BY BootClass DEF IInv, LoadSystemClass
<1>2. /\ loading = <<>> /\ Call(c) /\ UNCHANGED <<diskVars, hostVars, memVars>>
  BY <1>1 DEF LoadSystemClass, Booting, Idle
<1>3. QED BY <1>2, InvCall

LEMMA InvLoadClassCmd ==
    ASSUME IInv, NEW c \in Classes, loadClassCmd(c)
    PROVE  IInv'
  BY InvCall DEF loadClassCmd, Idle

LEMMA InvNextSystemClass ==
    ASSUME IInv, NextSystemClass
    PROVE  IInv'
<1>1. /\ UNCHANGED <<files, loading, binclasses, initialized, currentAddress, trapTable>>
      /\ UNCHANGED tableVars /\ classCount' = classCount /\ bsdone' = bsdone
      /\ boot' = boot + 1 /\ result' = "none" /\ loading = <<>> /\ Booting
  BY DEF NextSystemClass, hostVars, memVars, tableVars, Booting, Idle
<1>2. boot' \in 0..(Len(Boot) + 1)
  BY <1>1, BootClass DEF IInv
<1>3. PlainTypeOK' /\ TrapsRight'
  BY <1>1, <1>2 DEF IInv, PlainTypeOK, TrapsRight
<1>4. QED BY <1>1, <1>3, InvIdle

LEMMA InvLoadHandler ==
    ASSUME IInv, LoadHandler
    PROVE  IInv'
<1>1. /\ UNCHANGED <<files, loading, binclasses>>
      /\ UNCHANGED tableVars /\ classCount' = classCount /\ bsdone' = bsdone
      /\ result' = "none" /\ loading = <<>> /\ Booting /\ Boot[boot] \in DOMAIN TrapOf
  BY DEF LoadHandler, tableVars, Booting, Idle
<1>2. PICK c \in Classes : c = Boot[boot]
  BY <1>1, BootClass DEF IInv
<1>3. PICK reset \in BOOLEAN : reset = (TrapOf[c] = "reset")
  OBVIOUS
<1>4. \/ /\ loadClassFileMethod(c, reset)
         /\ boot' = IF currentAddress' > CM_SIZE THEN Stopped ELSE boot + 1
      \/ /\ boot' = IF reset THEN Stopped ELSE boot + 1
         /\ UNCHANGED <<trapTable, currentAddress, initialized>>
  BY <1>2, <1>3 DEF LoadHandler
<1>5. boot' \in 0..(Len(Boot) + 1)
  <2>1. boot + 1 \in 0..(Len(Boot) + 1) /\ 0 \in 0..(Len(Boot) + 1)
    BY <1>1, BootClass DEF IInv
  <2>2. boot' = 0 \/ boot' = boot + 1
    BY <1>4 DEF Stopped
  <2>3. QED BY <2>1, <2>2
<1>6. PlainTypeOK
  BY DEF IInv
<1>7. CASE loadClassFileMethod(c, reset)
  <2>1. PICK t : t = TrapOf[c]
    OBVIOUS
  <2>2. PICK p : p = PoolFor(c)
    OBVIOUS
  <2>3. trapTable' = [trapTable EXCEPT ![t] = p] /\ p \in {c, Null}
    BY <2>1, <2>2, <1>7 DEF loadClassFileMethod, PoolFor
  <2>4. trapTable' \in [Range(TrapOf) -> Classes \cup {Null}]
    BY <2>3, <1>6 DEF PlainTypeOK
  <2>5. TrapsRight'
    <3>1. SUFFICES ASSUME NEW e \in DOMAIN TrapOf PROVE trapTable'[TrapOf[e]] \in {Null, e}
      BY DEF TrapsRight
    <3>2. TrapOf[e] \in Range(TrapOf) /\ DOMAIN trapTable = Range(TrapOf)
      BY <1>6 DEF Range, PlainTypeOK
    <3>3. CASE e = c
      BY <3>2, <3>3, <2>1, <2>3
    <3>4. CASE e # c
      <4>1. TrapOf[e] # t
        BY <3>4, <2>1, <1>1, <1>2, LoaderAssumption DEF IsInjective
      <4>2. QED BY <4>1, <3>2, <2>3 DEF IInv, TrapsRight
    <3>5. QED BY <3>3, <3>4
  <2>6. currentAddress' \in Nat
    <3>1. PICK n \in Nat : n = IF reset THEN 0 ELSE 1
      OBVIOUS
    <3>2. currentAddress' = currentAddress + n
      BY <3>1, <1>7 DEF loadClassFileMethod, cmMalloc
    <3>3. QED BY <3>2, <1>6 DEF PlainTypeOK
  <2>7. initialized' \in Seq(InitNames)
    <3>1. PICK S : S = InitNames
      OBVIOUS
    <3>2. PICK y : y = <<c, "init">>
      OBVIOUS
    <3>3. y \in S /\ initialized \in Seq(S)
      BY <3>1, <3>2, <1>6 DEF InitNames, PlainTypeOK
    <3>4. initialized' = Append(initialized, y) \/ initialized' = initialized
      BY <3>2, <1>7 DEF loadClassFileMethod
    <3>5. Append(initialized, y) \in Seq(S)
      BY <3>3
    <3>6. QED BY <3>1, <3>3, <3>4, <3>5
  <2>8. PlainTypeOK'
    BY <2>4, <2>6, <2>7, <1>1, <1>5, <1>6 DEF PlainTypeOK
  <2>9. QED BY <2>5, <2>8, <1>1, InvIdle
<1>8. CASE UNCHANGED <<trapTable, currentAddress, initialized>>
  <2>1. PlainTypeOK' /\ TrapsRight'
    BY <1>1, <1>5, <1>6, <1>8 DEF PlainTypeOK, IInv, TrapsRight
  <2>2. QED BY <2>1, <1>1, InvIdle
<1>9. QED BY <1>4, <1>7, <1>8

LEMMA InvStutter ==
    ASSUME IInv, UNCHANGED vars
    PROVE  IInv'
<1>1. /\ UNCHANGED <<files, loading, result, boot, binclasses, initialized, currentAddress, trapTable>>
      /\ UNCHANGED tableVars /\ classCount' = classCount /\ bsdone' = bsdone
  BY DEF vars, tableVars
<1>2. PlainTypeOK' /\ TrapsRight'
  BY <1>1 DEF IInv, PlainTypeOK, TrapsRight
<1>3. QED BY <1>1, <1>2, InvPlain

LEMMA InvNext ==
    ASSUME IInv, [Next]_vars
    PROVE  IInv'
<1>1. CASE UNCHANGED vars
  BY <1>1, InvStutter
<1>2. CASE NotRead
  BY <1>2, InvNotRead
<1>3. CASE AlreadyLoaded
  BY <1>3, InvAlreadyLoaded
<1>4. CASE Collect
  BY <1>4, InvCollect
<1>5. CASE SuperFails
  BY <1>5, InvSuperFails
<1>6. CASE CopyClass
  BY <1>6, InvCopyClass
<1>7. CASE ReadsGarbage
  BY <1>7, InvReadsGarbage
<1>8. CASE LoadSystemClass
  BY <1>8, InvLoadSystemClass
<1>9. CASE NextSystemClass
  BY <1>9, InvNextSystemClass
<1>10. CASE LoadHandler
  BY <1>10, InvLoadHandler
<1>11. ASSUME NEW c \in Classes, loadClassCmd(c) PROVE IInv'
  BY <1>11, InvLoadClassCmd
<1>12. ASSUME NEW c \in Classes, FileRepaired(c) PROVE IInv'
  BY <1>12, InvFileRepaired
<1>13. QED
  BY <1>1, <1>2, <1>3, <1>4, <1>5, <1>6, <1>7, <1>8, <1>9, <1>10, <1>11, <1>12 DEF Next

LEMMA InvHolds == Spec => []IInv
<1>1. Init => IInv
  BY InvInit
<1>2. IInv /\ [Next]_vars => IInv'
  BY InvNext
<1>3. QED BY <1>1, <1>2, PTL DEF Spec

(***************************************************************************)
(* The theorems.                                                           *)
(***************************************************************************)

(* The variables keep their types; in particular no offset or index of a   *)
(* class laid out points behind its slot table or vector, whatever was     *)
(* loaded in whatever order and wherever it failed.                        *)
THEOREM TypeCorrect == Spec => []TypeOK
<1>1. IInv => TypeOK
  BY InvTypes
<1>2. QED BY <1>1, InvHolds, PTL

(* The layout of a class extends its superclass's, an instance field has   *)
(* all its slots, and no two fields of a class and its superclasses share  *)
(* one: for any class hierarchy and any fields (resolveFields).            *)
THEOREM LayoutsCorrect == Spec => []LayoutExtendsSuper
<1>1. IInv => LayoutExtendsSuper
  BY InvLayouts
<1>2. QED BY <1>1, InvHolds, PTL

(* A virtual call through the index any superclass gave a method reaches   *)
(* the nearest method of that signature (resolveMethods).                  *)
THEOREM VectorsCorrect == Spec => []VectorsMostDerived
<1>1. IInv => VectorsMostDerived
  BY InvVectors
<1>2. QED BY <1>1, InvHolds, PTL

(* With the fundamental classes first, no header or footer in memory stays *)
(* without its class (copyOneBinClass and fixupClass).                     *)
THEOREM HeadersCorrect == Spec => []HeadersFilled
<1>1. IInv => HeadersFilled
  BY DEF IInv
<1>2. QED BY <1>1, InvHolds, PTL

(* The hash table and the class table hold the same classes, each once and *)
(* in its bucket; the count is the table's; the traps are their handlers'  *)
(* (cmSetClassTable, copyOneBinClass, loadClassFileMethod).                *)
THEOREM TablesCorrect == Spec => []TablesAgree
<1>1. IInv => TablesAgree
  BY InvTables
<1>2. QED BY <1>1, InvHolds, PTL
=============================================================================
