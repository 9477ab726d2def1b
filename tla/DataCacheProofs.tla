--------------------------- MODULE DataCacheProofs ---------------------------
(***************************************************************************)
(* Proofs about module DataCache, for any number of sets, any line size,   *)
(* any memory and any set of words without one: the type invariant, that   *)
(* no line is ever in both ways of its set, that a line that is valid and  *)
(* not dirty equals memory, and from these that the cache is a memory.     *)
(***************************************************************************)
EXTENDS DataCache, TLAPS

(* Division, as the provers need it.                                       *)

LEMMA DivMod ==
    ASSUME NEW k \in Nat \ {0}, NEW x \in Nat
    PROVE  /\ x \div k \in Nat
           /\ x % k \in 0..k - 1
           /\ x = k * (x \div k) + (x % k)
  OBVIOUS

LEMMA DivMonotone ==
    ASSUME NEW k \in Nat \ {0}, NEW x \in Nat, NEW y \in Nat, x <= y
    PROVE  x \div k <= y \div k
<1> DEFINE p == x \div k
           q == y \div k
<1>1. /\ p \in Nat /\ q \in Nat
      /\ x >= k * p
      /\ y < k * q + k
  BY DivMod
<1>2. SUFFICES ASSUME q + 1 <= p PROVE FALSE
  BY <1>1
<1>3. k * (q + 1) <= k * p
  BY <1>1, <1>2
<1>4. k * (q + 1) = k * q + k
  BY <1>1
<1> HIDE DEF p, q
<1>5. QED BY <1>1, <1>3, <1>4

LEMMA DivUnique ==
    ASSUME NEW k \in Nat \ {0}, NEW q \in Nat, NEW w \in 0..k - 1
    PROVE  (q * k + w) \div k = q /\ (q * k + w) % k = w
  OBVIOUS

(***************************************************************************)
(* The fields of an address.                                               *)
(***************************************************************************)
LEMMA FieldsTyped ==
    ASSUME DSets > 0, NEW a \in Addr
    PROVE  DIndex(a) \in DIndexes /\ DTag(a) \in Tags /\ DWord(a) \in Words
<1>1. a \in Nat /\ a <= MaxAddr /\ MaxAddr \in Nat
      /\ LineWords \in Nat \ {0} /\ DSets \in Nat \ {0}
  BY DataCacheAssumption DEF Addr
<1>2. a \div LineWords \in Nat /\ MaxAddr \div LineWords \in Nat
      /\ a \div LineWords <= MaxAddr \div LineWords
  BY <1>1, DivMod, DivMonotone
<1>3. DWord(a) \in Words
  BY <1>1, DivMod DEF DWord, Words
<1>4. DIndex(a) \in DIndexes
  BY <1>1, <1>2, DivMod DEF DIndex, DIndexes
<1>5. /\ (a \div LineWords) \div DSets \in Nat
      /\ (MaxAddr \div LineWords) \div DSets \in Nat
      /\ (a \div LineWords) \div DSets <= (MaxAddr \div LineWords) \div DSets
  BY <1>1, <1>2, DivMod, DivMonotone
<1>6. DTag(a) \in Tags
  BY <1>1, <1>5 DEF DTag, Tags
<1>7. QED BY <1>3, <1>4, <1>6

LEMMA WordOfBacked ==
    ASSUME NEW b \in Backed
    PROVE  DWord(b) \in Words
  BY DataCacheAssumption, DivMod DEF DWord, Words, Addr

(* All words of a line exist if its first one does.                        *)
LEMMA LineExists ==
    ASSUME NEW t \in Nat, NEW i \in Nat, Exists(makeDAddr(t, i)), NEW w \in Words
    PROVE  makeDAddr(t, i) + w \in Backed
<1> DEFINE q == t * DSets + i
           n == (MaxAddr + 1) \div LineWords
<1>1. /\ MaxAddr \in Nat /\ LineWords \in Nat \ {0} /\ DSets \in Nat
      /\ w \in Nat /\ w < LineWords
  BY DataCacheAssumption DEF Words
<1>2. q \in Nat /\ makeDAddr(t, i) = q * LineWords
  BY <1>1 DEF makeDAddr
<1>3. n \in Nat /\ MaxAddr + 1 = LineWords * n
  BY <1>1, DataCacheAssumption, DivMod
<1> HIDE DEF q, n
<1>4. q * LineWords \in Addr /\ q * LineWords \in Backed
  BY <1>2, DataCacheAssumption DEF Exists
<1>5. q + 1 <= n
  <2>1. SUFFICES ASSUME n <= q PROVE FALSE
    BY <1>2, <1>3
  <2>2. LineWords * n <= q * LineWords
    BY <2>1, <1>1, <1>2, <1>3
  <2>3. QED BY <2>2, <1>1, <1>2, <1>3, <1>4 DEF Addr
<1>6. (q + 1) * LineWords <= LineWords * n
  BY <1>1, <1>2, <1>3, <1>5
<1>7. q * LineWords + w \in Addr
  <2>1. (q + 1) * LineWords = q * LineWords + LineWords
    BY <1>1, <1>2
  <2>2. q * LineWords \in Nat
    BY <1>1, <1>2
  <2>3. QED BY <1>1, <1>3, <1>6, <2>1, <2>2 DEF Addr
<1>8. (q * LineWords + w) \div LineWords = (q * LineWords) \div LineWords
  <2>1. w \in 0..LineWords - 1 /\ 0 \in 0..LineWords - 1
    BY <1>1
  <2>2. (q * LineWords + w) \div LineWords = q
    BY <1>1, <1>2, <2>1, DivUnique
  <2>3. (q * LineWords + 0) \div LineWords = q
    BY <1>1, <1>2, <2>1, DivUnique
  <2>4. q * LineWords + 0 = q * LineWords
    BY <1>1, <1>2
  <2>5. QED BY <2>2, <2>3, <2>4
<1>9. QED BY <1>2, <1>4, <1>7, <1>8, DataCacheAssumption

(***************************************************************************)
(* Cache entries: their type, and that their ways keep different lines.    *)
(***************************************************************************)
Distinct(e) ==
    e.dSet[0].valid /\ e.dSet[1].valid => e.dSet[0].tag # e.dSet[1].tag

Good(e) == e \in DEntry /\ Distinct(e)

LEMMA WayTyped ==
    ASSUME NEW e \in DEntry, NEW t
    PROVE  /\ WayOf(e, t) \in Ways
           /\ e.dSet[WayOf(e, t)] \in DSet
           /\ Hits(e, t) => Holds(e.dSet[WayOf(e, t)], t)
           /\ ~Hits(e, t) => \A s \in Ways : ~Holds(e.dSet[s], t)
<1>1. Ways = {0, 1} /\ e.lru \in Ways /\ \A s \in Ways : e.dSet[s] \in DSet
  BY DEF Ways, DEntry
<1>2. WayOf(e, t) \in Ways
  BY <1>1 DEF WayOf
<1>3. QED BY <1>1, <1>2 DEF WayOf, Hits

LEMMA OtherWay ==
    ASSUME NEW s \in Ways
    PROVE  1 - s \in Ways /\ Ways = {s, 1 - s} /\ s # 1 - s
  BY DEF Ways

(* Putting the line l in way s keeps an entry good if the other way does   *)
(* not hold the tag of l.                                                  *)
LEMMA PutGood ==
    ASSUME NEW e, Good(e), NEW s \in Ways, NEW l \in DSet, NEW u \in Ways,
           l.valid => ~Holds(e.dSet[1 - s], l.tag)
    PROVE  Good(PutLine(e, s, l, u))
<1> DEFINE f == PutLine(e, s, l, u)
<1>1. e.dSet \in [Ways -> DSet]
  BY DEF Good, DEntry
<1>2. f \in DEntry
  BY <1>1 DEF DEntry, PutLine
<1>3. f.dSet[s] = l /\ f.dSet[1 - s] = e.dSet[1 - s]
  BY <1>1, OtherWay DEF PutLine
<1>4. Distinct(f)
  <2>1. s = 0 \/ s = 1
    BY DEF Ways
  <2>2. CASE s = 0
    <3>1. 1 - s = 1
      BY <2>2
    <3>2. QED BY <1>3, <2>2, <3>1 DEF Distinct, Holds
  <2>3. CASE s = 1
    <3>1. 1 - s = 0
      BY <2>3
    <3>2. QED BY <1>3, <2>3, <3>1 DEF Distinct, Holds
  <2>4. QED BY <2>1, <2>2, <2>3
<1>5. QED BY <1>2, <1>4 DEF Good

(* Taking the valid bit of a way away never makes an entry bad, whatever   *)
(* else of the line is changed.                                            *)
LEMMA DropGood ==
    ASSUME NEW e, Good(e), NEW s \in Ways, NEW l \in DSet, NEW u \in Ways,
           ~l.valid
    PROVE  Good(PutLine(e, s, l, u))
  BY PutGood

LEMMA StoredInGood ==
    ASSUME NEW e, Good(e), NEW s \in Ways, DSets > 0, NEW a \in Addr,
           Holds(e.dSet[s], DTag(a)), NEW v \in Values
    PROVE  Good(StoredIn(e, s, a, v))
<1> DEFINE l == [e.dSet[s] EXCEPT !.line[DWord(a)] = v, !.dirty = TRUE]
<1>1. e.dSet \in [Ways -> DSet] /\ e.dSet[s] \in DSet
  BY DEF Good, DEntry
<1>2. /\ l \in DSet
      /\ l.valid = e.dSet[s].valid
      /\ l.tag = e.dSet[s].tag
  BY <1>1, FieldsTyped DEF DSet
<1>3. l.valid => ~Holds(e.dSet[1 - s], l.tag)
  <2>1. s = 0 \/ s = 1
    BY DEF Ways
  <2>2. CASE s = 0
    <3>1. 1 - s = 1
      BY <2>2
    <3>2. QED BY <1>2, <2>2, <3>1 DEF Good, Distinct, Holds
  <2>3. CASE s = 1
    <3>1. 1 - s = 0
      BY <2>3
    <3>2. QED BY <1>2, <2>3, <3>1 DEF Good, Distinct, Holds
  <2>4. QED BY <2>1, <2>2, <2>3
<1>4. StoredIn(e, s, a, v) = PutLine(e, s, l, 1 - s)
  BY DEF StoredIn
<1> HIDE DEF l
<1>5. QED BY <1>2, <1>3, <1>4, PutGood, OtherWay

(***************************************************************************)
(* Write-backs and lookups.                                                *)
(***************************************************************************)
LEMMA WrittenBackTyped ==
    ASSUME mem \in [Backed -> Values], NEW l \in DSet, NEW i
    PROVE  WrittenBack(l, i) \in [Backed -> Values]
<1>1. \A b \in Backed : l.line[DWord(b)] \in Values
  BY WordOfBacked DEF DSet
<1>2. QED BY <1>1 DEF WrittenBack

(* The result of a lookup.                                                 *)
Result == [ok : BOOLEAN, set : Ways, entry : DEntry, mem : [Backed -> Values]]

LEMMA RefillGood ==
    ASSUME DSets > 0, NEW a \in Addr, NEW e, Good(e), NEW s \in Ways,
           \A t \in Ways : ~Holds(e.dSet[t], DTag(a)),
           NEW m \in [Backed -> Values]
    PROVE  LET r == Refill(e, s, a, m)
           IN  /\ r \in Result
               /\ Distinct(r.entry)
               /\ r.ok => Holds(r.entry.dSet[r.set], DTag(a))
<1> DEFINE base == makeDAddr(DTag(a), DIndex(a))
           r == Refill(e, s, a, m)
<1>1. /\ DIndex(a) \in DIndexes /\ DTag(a) \in Tags
      /\ DIndex(a) \in Nat /\ DTag(a) \in Nat
  BY FieldsTyped DEF DIndexes, Tags
<1>2. e.dSet \in [Ways -> DSet] /\ e.dSet[s] \in DSet /\ e.lru \in Ways
  BY DEF Good, DEntry
<1>3. CASE Exists(base)
  <2> DEFINE l == LineOf(a, m)
  <2>1. \A w \in Words : base + w \in Backed
    BY <1>1, <1>3, LineExists
  <2>2. l \in DSet /\ l.tag = DTag(a) /\ l.valid
    BY <1>1, <2>1 DEF DSet, LineOf
  <2>3. r = Selected(TRUE, s, PutLine(e, s, l, 1 - s), m)
    BY <1>3 DEF Refill
  <2> HIDE DEF l, r
  <2>4. Good(PutLine(e, s, l, 1 - s))
    BY <2>2, PutGood, OtherWay
  <2>5. Holds(PutLine(e, s, l, 1 - s).dSet[s], DTag(a))
    BY <1>2, <2>2 DEF Holds, PutLine
  <2>6. QED BY <2>3, <2>4, <2>5 DEF Selected, Result, Good, r
<1>4. CASE ~Exists(base)
  <2> DEFINE l == [e.dSet[s] EXCEPT !.tag = DTag(a), !.valid = FALSE]
  <2>1. l \in DSet /\ ~l.valid
    BY <1>1, <1>2 DEF DSet
  <2>2. r = Selected(FALSE, s, PutLine(e, s, l, e.lru), m)
    BY <1>4 DEF Refill
  <2> HIDE DEF l, r
  <2>3. Good(PutLine(e, s, l, e.lru))
    BY <1>2, <2>1, DropGood
  <2>4. QED BY <2>2, <2>3 DEF Selected, Result, Good, r
<1>5. QED BY <1>3, <1>4

(* Every allocation looks in both ways first: that is why the two ways of  *)
(* a set hold different lines.                                             *)
LEMMA SelectGood ==
    ASSUME DSets > 0, NEW a \in Addr, mem \in [Backed -> Values],
           Good(D[DIndex(a)])
    PROVE  LET r == dCacheSelect(a)
           IN  /\ r \in Result
               /\ Distinct(r.entry)
               /\ r.ok => Holds(r.entry.dSet[r.set], DTag(a))
<1> DEFINE i == DIndex(a)
           e == D[i]
           s == WayOf(e, DTag(a))
           l == e.dSet[s]
           r == dCacheSelect(a)
<1>1. e \in DEntry /\ Distinct(e) /\ s \in Ways /\ l \in DSet
  BY WayTyped DEF Good
<1>2. CASE Hits(e, DTag(a))
  <2>1. r = Selected(TRUE, s, e, mem)
    BY <1>2 DEF dCacheSelect
  <2>2. Holds(e.dSet[s], DTag(a))
    BY <1>1, <1>2, WayTyped
  <2> HIDE DEF e, s
  <2>3. QED BY <1>1, <2>1, <2>2 DEF Selected, Result
<1>3. CASE ~Hits(e, DTag(a))
  <2>1. \A t \in Ways : ~Holds(e.dSet[t], DTag(a))
    BY <1>1, <1>3, WayTyped
  <2>2. CASE ~(l.valid /\ l.dirty)
    <3>1. r = Refill(e, s, a, mem)
      BY <1>3, <2>2 DEF dCacheSelect
    <3> HIDE DEF e, s, r, l
    <3>2. Good(e)
      BY <1>1 DEF Good
    <3>3. QED BY <1>1, <2>1, <3>1, <3>2, RefillGood DEF r
  <2>3. CASE l.valid /\ l.dirty /\ ~Exists(makeDAddr(l.tag, i))
    <3>1. r = Selected(FALSE, s, e, mem)
      BY <1>3, <2>3 DEF dCacheSelect
    <3> HIDE DEF e, s
    <3>2. QED BY <1>1, <3>1 DEF Selected, Result
  <2>4. CASE l.valid /\ l.dirty /\ Exists(makeDAddr(l.tag, i))
    <3> DEFINE k == [l EXCEPT !.valid = FALSE]
               f == PutLine(e, s, k, e.lru)
    <3>1. r = Refill(f, s, a, WrittenBack(l, i))
      BY <1>3, <2>4 DEF dCacheSelect
    <3>2. k \in DSet /\ ~k.valid
      BY <1>1 DEF DSet
    <3>3. e.dSet \in [Ways -> DSet] /\ e.lru \in Ways
      BY <1>1 DEF DEntry
    <3>4. WrittenBack(l, i) \in [Backed -> Values]
      BY <1>1, WrittenBackTyped
    <3> HIDE DEF e, s, l, k, r
    <3>5. Good(f)
      BY <1>1, <3>2, <3>3, DropGood DEF Good
    <3>6. \A t \in Ways : ~Holds(f.dSet[t], DTag(a))
      BY <1>1, <2>1, <3>2, <3>3 DEF Holds, PutLine
    <3> HIDE DEF f
    <3>7. QED BY <1>1, <3>1, <3>4, <3>5, <3>6, RefillGood DEF r
  <2>5. QED BY <2>2, <2>3, <2>4
<1>4. QED BY <1>2, <1>3

(***************************************************************************)
(* The inductive invariant is TypeOK /\ OneCopy.  OneCopy does not follow  *)
(* from the types, and TypeOK does not need it; the two are proved         *)
(* together because every step rebuilds one entry, for both at once.       *)
(***************************************************************************)
CacheOK(d) == d \in [DIndexes -> DEntry] /\ \A i \in DIndexes : Distinct(d[i])

IInv == /\ mem \in [Backed -> Values]
        /\ CacheOK(D)
        /\ psr \in [dce : BOOLEAN, aem : BOOLEAN]
        /\ eid \in Exceptions

LEMMA IInvMeaning == IInv <=> TypeOK /\ OneCopy
  BY DEF IInv, TypeOK, OneCopy, CacheOK, Distinct

LEMMA EntryGood ==
    ASSUME NEW d, CacheOK(d), NEW i \in DIndexes
    PROVE  Good(d[i])
  BY DEF CacheOK, Good

LEMMA ReplaceGood ==
    ASSUME NEW d, CacheOK(d), NEW i \in DIndexes, NEW e, Good(e)
    PROVE  CacheOK([d EXCEPT ![i] = e])
  BY DEF CacheOK, Good

LEMMA SetUpTyped ==
    ASSUME eid \in Exceptions, NEW e \in Exceptions
    PROVE  vSetupException(e) \in Exceptions
  BY DEF vSetupException

LEMMA ExceptionsTyped ==
    /\ NO_EXCEPTION \in Exceptions
    /\ ASYNC_EXCEPTION \in Exceptions
    /\ DATA_ACC_EXCEPTION \in Exceptions
  BY DEF Exceptions

LEMMA StoreFailedTyped ==
    ASSUME IInv
    PROVE  StoreFailed \in Exceptions
  BY SetUpTyped, ExceptionsTyped DEF StoreFailed, IInv

LEMMA DataTyped ==
    ASSUME NEW a
    PROVE  Data(a) \subseteq Values
  BY DataCacheAssumption DEF Data

(* A lookup in a good cache.                                               *)
LEMMA LookupGood ==
    ASSUME IInv, DSets > 0, NEW a \in Addr
    PROVE  /\ DIndex(a) \in DIndexes
           /\ dCacheSelect(a) \in Result
           /\ Good(dCacheSelect(a).entry)
           /\ dCacheSelect(a).ok
                => Holds(dCacheSelect(a).entry.dSet[dCacheSelect(a).set], DTag(a))
<1>1. DIndex(a) \in DIndexes
  BY FieldsTyped
<1>2. Good(D[DIndex(a)])
  BY <1>1, EntryGood DEF IInv
<1> HIDE DEF Result
<1>3. /\ dCacheSelect(a) \in Result
      /\ Distinct(dCacheSelect(a).entry)
      /\ dCacheSelect(a).ok
           => Holds(dCacheSelect(a).entry.dSet[dCacheSelect(a).set], DTag(a))
  BY <1>2, SelectGood DEF IInv
<1>4. dCacheSelect(a).entry \in DEntry
  BY <1>3 DEF Result
<1>5. QED BY <1>1, <1>3, <1>4 DEF Good

(* Pushing a line out leaves memory and cache good.                        *)
LEMMA PushedOutGood ==
    ASSUME IInv, NEW i \in DIndexes, NEW s \in Ways
    PROVE  /\ Saved(i, s) \in [Backed -> Values]
           /\ CacheOK(Invalidated(i, s))
           /\ PushedOut(i, s).mem \in [Backed -> Values]
           /\ CacheOK(PushedOut(i, s).D)
<1>1. Good(D[i]) /\ D[i].dSet[s] \in DSet
  BY EntryGood DEF IInv, Good, DEntry
<1>2. Saved(i, s) \in [Backed -> Values]
  BY <1>1, WrittenBackTyped DEF Saved, IInv
<1>3. CacheOK(Invalidated(i, s))
  <2> DEFINE l == [D[i].dSet[s] EXCEPT !.valid = FALSE]
  <2>1. l \in DSet /\ ~l.valid
    BY <1>1 DEF DSet
  <2>2. Invalidated(i, s) = [D EXCEPT ![i] = PutLine(D[i], s, l, s)]
    BY DEF Invalidated
  <2> HIDE DEF l
  <2>3. Good(PutLine(D[i], s, l, s))
    BY <1>1, <2>1, DropGood
  <2>4. CacheOK(D)
    BY DEF IInv
  <2>5. CacheOK([D EXCEPT ![i] = PutLine(D[i], s, l, s)])
    BY <2>3, <2>4, ReplaceGood
  <2>6. QED BY <2>2, <2>5
<1>4. QED BY <1>2, <1>3 DEF PushedOut, IInv

LEMMA FlushedGood ==
    ASSUME IInv, NEW a \in Addr
    PROVE  Flushed(a).mem \in [Backed -> Values] /\ CacheOK(Flushed(a).D)
<1> DEFINE i == DIndex(a)
           s == WayOf(D[i], DTag(a))
<1>1. CASE Present(a)
  <2>1. DSets > 0 /\ i \in DIndexes
    BY <1>1, FieldsTyped DEF Present
  <2>2. s \in Ways
    BY <2>1, EntryGood, WayTyped DEF IInv, Good
  <2>3. Flushed(a) = PushedOut(i, s)
    BY <1>1 DEF Flushed
  <2> HIDE DEF i, s
  <2>4. QED BY <2>1, <2>2, <2>3, PushedOutGood
<1>2. CASE ~Present(a)
  BY <1>2 DEF Flushed, IInv
<1>3. QED BY <1>1, <1>2

(***************************************************************************)
(* One lemma per operation of the program and the debugger.                *)
(***************************************************************************)
LEMMA ReadStep ==
    ASSUME IInv, NEW a \in Addr, NEW dribble, javaMemRead(a, dribble)
    PROVE  IInv'
<1>1. CASE Cached(a)
  <2> DEFINE r == dCacheSelect(a)
  <2>1. DSets > 0 /\ Enter(a, r)
    BY <1>1 DEF Cached, javaMemRead
  <2>2. DIndex(a) \in DIndexes /\ r.mem \in [Backed -> Values] /\ Good(r.entry)
    BY <2>1, LookupGood DEF Result
  <2>3. eid' \in Exceptions
    BY <1>1, SetUpTyped, ExceptionsTyped DEF javaMemRead, IInv
  <2> HIDE DEF r
  <2>4. CacheOK(D)
    BY DEF IInv
  <2>5. CacheOK([D EXCEPT ![DIndex(a)] = r.entry])
    BY <2>2, <2>4, ReplaceGood
  <2>6. QED BY <2>1, <2>2, <2>3, <2>5 DEF Enter, IInv
<1>2. CASE ~Cached(a)
  <2>1. UNCHANGED <<mem, D, psr>>
    BY <1>2 DEF javaMemRead
  <2>2. eid' \in Exceptions
    BY <1>2, SetUpTyped, ExceptionsTyped DEF javaMemRead, IInv
  <2>3. QED BY <2>1, <2>2 DEF IInv, CacheOK
<1>3. QED BY <1>1, <1>2

LEMMA MemoryWriteStep ==
    ASSUME IInv, NEW a \in Addr, NEW v \in Values, cmMemoryWrite(a, v)
    PROVE  IInv'
<1>1. mem' \in [Backed -> Values]
  BY DEF cmMemoryWrite, IInv
<1>2. eid' \in Exceptions
  BY StoreFailedTyped DEF cmMemoryWrite, IInv
<1>3. QED BY <1>1, <1>2 DEF cmMemoryWrite, IInv, CacheOK

LEMMA CacheWriteStep ==
    ASSUME IInv, DSets > 0, NEW a \in Addr, NEW v \in Values, dCacheWrite(a, v)
    PROVE  IInv'
<1> DEFINE r == dCacheSelect(a)
           f == StoredIn(r.entry, r.set, a, v)
<1>1. /\ DIndex(a) \in DIndexes
      /\ r \in Result
      /\ r.mem \in [Backed -> Values]
      /\ Good(r.entry)
      /\ r.ok => Holds(r.entry.dSet[r.set], DTag(a))
  BY LookupGood DEF Result
<1>2. CacheOK(D)
  BY DEF IInv
<1>3. CASE r.ok
  <2>1. Enter(a, [r EXCEPT !.entry = f]) /\ eid' = eid
    BY <1>3 DEF dCacheWrite
  <2>2. Good(f)
    BY <1>1, <1>3, StoredInGood DEF Result
  <2> HIDE DEF f, r
  <2>3. [r EXCEPT !.entry = f].entry = f /\ [r EXCEPT !.entry = f].mem = r.mem
    BY <1>1 DEF Result
  <2>4. CacheOK([D EXCEPT ![DIndex(a)] = f])
    BY <1>1, <1>2, <2>2, ReplaceGood
  <2>5. QED BY <1>1, <2>1, <2>3, <2>4 DEF Enter, IInv
<1>4. CASE ~r.ok
  <2>1. Enter(a, r) /\ eid' = StoreFailed
    BY <1>4 DEF dCacheWrite
  <2> HIDE DEF r
  <2>2. CacheOK([D EXCEPT ![DIndex(a)] = r.entry])
    BY <1>1, <1>2, ReplaceGood
  <2>3. QED BY <1>1, <2>1, <2>2, StoreFailedTyped DEF Enter, IInv
<1>5. QED BY <1>3, <1>4

LEMMA NAWriteStep ==
    ASSUME IInv, DSets > 0, NEW a \in Addr, NEW v \in Values, dCacheNAWrite(a, v)
    PROVE  IInv'
<1> DEFINE e == D[DIndex(a)]
           s == WayOf(e, DTag(a))
<1>1. CASE Hits(e, DTag(a))
  <2>1. CacheOK(D) /\ DIndex(a) \in DIndexes
    BY FieldsTyped DEF IInv
  <2>2. Good(e) /\ e \in DEntry
    BY <2>1, EntryGood DEF Good
  <2>3. s \in Ways /\ Holds(e.dSet[s], DTag(a))
    BY <1>1, <2>2, WayTyped
  <2>4. D' = [D EXCEPT ![DIndex(a)] = StoredIn(e, s, a, v)]
        /\ UNCHANGED <<mem, psr, eid>>
    BY <1>1 DEF dCacheNAWrite
  <2> HIDE DEF e, s
  <2>5. Good(StoredIn(e, s, a, v))
    BY <2>2, <2>3, StoredInGood
  <2>6. CacheOK([D EXCEPT ![DIndex(a)] = StoredIn(e, s, a, v)])
    BY <2>1, <2>5, ReplaceGood
  <2>7. QED BY <2>4, <2>6 DEF IInv
<1>2. CASE ~Hits(e, DTag(a))
  BY <1>2, MemoryWriteStep DEF dCacheNAWrite
<1>3. QED BY <1>1, <1>2

LEMMA WriteStep ==
    ASSUME IInv, NEW a \in Addr, NEW v \in Values, javaMemWrite(a, v)
    PROVE  IInv'
<1>1. CASE UNCHANGED dvars
  BY <1>1 DEF dvars, IInv, CacheOK
<1>2. CASE Cached(a) /\ dCacheWrite(a, v)
  BY <1>2, CacheWriteStep DEF Cached
<1>3. CASE Cached(a) /\ dCacheNAWrite(a, v)
  BY <1>3, NAWriteStep DEF Cached
<1>4. CASE cmMemoryWrite(a, v)
  BY <1>4, MemoryWriteStep
<1>5. QED BY <1>1, <1>2, <1>3, <1>4 DEF javaMemWrite

LEMMA FlushStep ==
    ASSUME IInv, NEW a \in Addr, cacheFlush(a), UNCHANGED eid
    PROVE  IInv'
  BY FlushedGood DEF cacheFlush, IInv

LEMMA IndexFlushStep ==
    ASSUME IInv, NEW a \in Addr, NEW s \in Ways, cacheIndexFlush(a, s),
           UNCHANGED eid
    PROVE  IInv'
<1>1. CASE dce /\ DSets > 0
  <2>1. DIndex(a) \in DIndexes
    BY <1>1, FieldsTyped
  <2>2. /\ mem' = PushedOut(DIndex(a), s).mem
        /\ D' = PushedOut(DIndex(a), s).D
        /\ UNCHANGED psr
    BY <1>1 DEF cacheIndexFlush
  <2>3. QED BY <2>1, <2>2, PushedOutGood DEF IInv
<1>2. CASE ~(dce /\ DSets > 0)
  <2>1. UNCHANGED <<mem, D, psr>>
    BY <1>2 DEF cacheIndexFlush
  <2>2. QED BY <2>1 DEF IInv, CacheOK
<1>3. QED BY <1>1, <1>2

LEMMA InvalidateStep ==
    ASSUME IInv, NEW a \in Addr, cacheInvalidate(a), UNCHANGED eid
    PROVE  IInv'
<1> DEFINE i == DIndex(a)
           s == WayOf(D[i], DTag(a))
<1>1. CASE Present(a)
  <2>1. DSets > 0 /\ i \in DIndexes
    BY <1>1, FieldsTyped DEF Present
  <2>2. s \in Ways
    BY <2>1, EntryGood, WayTyped DEF IInv, Good
  <2>3. D' = Invalidated(i, s) /\ UNCHANGED <<mem, psr>>
    BY <1>1 DEF cacheInvalidate
  <2> HIDE DEF i, s
  <2>4. QED BY <2>1, <2>2, <2>3, PushedOutGood DEF IInv
<1>2. CASE ~Present(a)
  <2>1. UNCHANGED <<mem, D, psr>>
    BY <1>2 DEF cacheInvalidate
  <2>2. QED BY <2>1 DEF IInv, CacheOK
<1>3. QED BY <1>1, <1>2

(* dCacheZeroLine reuses the way that has the line, and takes the victim   *)
(* only if neither way has it.                                             *)
LEMMA ZeroLineStep ==
    ASSUME IInv, NEW a \in Addr, zero_line(a), UNCHANGED eid
    PROVE  IInv'
<1>1. CASE DSets > 0
  <2> DEFINE i == DIndex(a)
             s == WayOf(D[i], DTag(a))
             l == [tag |-> DTag(a), valid |-> TRUE, dirty |-> TRUE,
                   line |-> [w \in Words |-> 0]]
  <2>1. CacheOK(D) /\ i \in DIndexes /\ DTag(a) \in Tags
    BY <1>1, FieldsTyped DEF IInv
  <2>2. Good(D[i]) /\ D[i] \in DEntry
    BY <2>1, EntryGood DEF Good
  <2>3. s \in Ways
    BY <2>2, WayTyped
  <2>4. l \in DSet /\ l.tag = DTag(a)
    BY <2>1, DataCacheAssumption DEF DSet
  <2>5. ~Holds(D[i].dSet[1 - s], DTag(a))
    <3>1. CASE Hits(D[i], DTag(a))
      <4>1. Holds(D[i].dSet[s], DTag(a))
        BY <2>2, <3>1, WayTyped
      <4> HIDE DEF i, s
      <4>2. s = 0 \/ s = 1
        BY <2>3 DEF Ways
      <4>3. CASE s = 0
        <5>1. 1 - s = 1
          BY <4>3
        <5>2. QED BY <2>2, <4>1, <4>3, <5>1 DEF Good, Distinct, Holds
      <4>4. CASE s = 1
        <5>1. 1 - s = 0
          BY <4>4
        <5>2. QED BY <2>2, <4>1, <4>4, <5>1 DEF Good, Distinct, Holds
      <4>5. QED BY <4>2, <4>3, <4>4
    <3>2. CASE ~Hits(D[i], DTag(a))
      BY <2>2, <2>3, <3>2, WayTyped, OtherWay
    <3>3. QED BY <3>1, <3>2
  <2>6. ZeroedEntry(D[i], s, a) = PutLine(D[i], s, l, 1 - s)
    BY DEF ZeroedEntry
  <2>7. mem' \in [Backed -> Values]
    <3>1. mem' = mem \/ mem' = Saved(i, s)
      BY <1>1 DEF zero_line, dCacheZeroLine
    <3> HIDE DEF i, s
    <3>2. QED BY <2>1, <2>3, <3>1, PushedOutGood DEF IInv
  <2>8. /\ D' = D \/ D' = [D EXCEPT ![i] = PutLine(D[i], s, l, 1 - s)]
        /\ UNCHANGED psr
    BY <1>1, <2>6 DEF zero_line, dCacheZeroLine
  <2> HIDE DEF i, s, l
  <2>9. Good(PutLine(D[i], s, l, 1 - s))
    BY <2>2, <2>3, <2>4, <2>5, PutGood, OtherWay
  <2>10. CacheOK([D EXCEPT ![i] = PutLine(D[i], s, l, 1 - s)])
    BY <2>1, <2>9, ReplaceGood
  <2>11. CacheOK(D')
    BY <2>1, <2>8, <2>10
  <2>12. QED BY <2>7, <2>8, <2>11 DEF IInv
<1>2. CASE ~(DSets > 0)
  <2>1. UNCHANGED <<mem, D, psr>>
    BY <1>2 DEF zero_line
  <2>2. QED BY <2>1 DEF IInv, CacheOK
<1>3. QED BY <1>1, <1>2

LEMMA TagWriteStep ==
    ASSUME IInv, NEW i \in DIndexes, NEW s \in Ways,
           priv_write_dcache_tag(i, s), UNCHANGED eid
    PROVE  IInv'
<1> DEFINE l == [D[i].dSet[s] EXCEPT !.tag = 0, !.valid = FALSE, !.dirty = FALSE]
<1>1. CacheOK(D) /\ Good(D[i]) /\ D[i].dSet[s] \in DSet
  BY EntryGood DEF IInv, Good, DEntry
<1>2. 0 \in Tags /\ 0 \in Ways
  <2>1. DSets \in Nat /\ DSets > 0 /\ MaxAddr \in Nat
        /\ LineWords \in Nat \ {0}
    BY DataCacheAssumption DEF DIndexes
  <2>2. MaxAddr \div LineWords \in Nat
    BY <2>1, DivMod
  <2>3. (MaxAddr \div LineWords) \div DSets \in Nat
    BY <2>1, <2>2, DivMod
  <2>4. QED BY <2>1, <2>3 DEF Tags, Ways
<1>3. l \in DSet /\ ~l.valid
  BY <1>1, <1>2 DEF DSet
<1>4. D' = [D EXCEPT ![i] = PutLine(D[i], s, l, 0)] /\ UNCHANGED <<mem, psr>>
  BY DEF priv_write_dcache_tag
<1> HIDE DEF l
<1>5. Good(PutLine(D[i], s, l, 0))
  BY <1>1, <1>2, <1>3, DropGood
<1>6. CacheOK([D EXCEPT ![i] = PutLine(D[i], s, l, 0)])
  BY <1>1, <1>5, ReplaceGood
<1>7. QED BY <1>4, <1>6 DEF IInv

LEMMA DebuggerStep ==
    ASSUME IInv, NEW a \in Addr, NEW v \in Values, sim_write(a, v)
    PROVE  IInv'
<1>1. Flushed(a).mem \in [Backed -> Values] /\ CacheOK(Flushed(a).D)
  BY FlushedGood
<1>2. mem' \in [Backed -> Values]
  BY <1>1 DEF sim_write
<1>3. eid' \in Exceptions
  BY StoreFailedTyped DEF sim_write, IInv
<1>4. QED BY <1>1, <1>2, <1>3 DEF sim_write, IInv

(***************************************************************************)
(* The induction.                                                          *)
(***************************************************************************)
LEMMA InitIInv == Init => IInv
<1> SUFFICES ASSUME Init PROVE IInv
  OBVIOUS
<1>1. mem \in [Backed -> Values]
  BY DEF Init
<1>2. ASSUME NEW i \in DIndexes
      PROVE  EmptyEntry \in DEntry /\ Distinct(EmptyEntry)
  <2>1. DSets \in Nat /\ DSets > 0 /\ MaxAddr \in Nat
        /\ LineWords \in Nat \ {0}
    BY DataCacheAssumption DEF DIndexes
  <2>2. MaxAddr \div LineWords \in Nat
    BY <2>1, DivMod
  <2>3. (MaxAddr \div LineWords) \div DSets \in Nat
    BY <2>1, <2>2, DivMod
  <2>4. 0 \in Tags
    BY <2>1, <2>3 DEF Tags
  <2>5. EmptyLine \in DSet /\ ~EmptyLine.valid
    BY <2>4, DataCacheAssumption DEF EmptyLine, DSet
  <2>6. 0 \in Ways
    BY DEF Ways
  <2>7. QED BY <2>5, <2>6 DEF EmptyEntry, DEntry, Distinct
<1>3. CacheOK(D)
  BY <1>2 DEF Init, CacheOK
<1>4. QED BY <1>1, <1>3, ExceptionsTyped DEF Init, IInv

LEMMA NextIInv == IInv /\ [Next]_<<dvars, op>> => IInv'
<1> SUFFICES ASSUME IInv, [Next]_<<dvars, op>> PROVE IInv'
  OBVIOUS
<1>1. CASE Access
  <2>1. PICK a \in Addr : \/ \E dribble \in BOOLEAN : javaMemRead(a, dribble)
                          \/ \E v \in Data(a) : javaMemWrite(a, v)
    BY <1>1 DEF Access
  <2>2. QED BY <2>1, ReadStep, WriteStep, DataTyped
<1>2. CASE CheckExceptions
  BY <1>2, ExceptionsTyped DEF CheckExceptions, IInv, CacheOK
<1>3. CASE CacheInstruction
  <2>1. UNCHANGED eid
    BY <1>3 DEF CacheInstruction
  <2>2. CASE \E a \in Addr : zero_line(a) \/ cacheFlush(a) \/ cacheInvalidate(a)
    BY <2>1, <2>2, ZeroLineStep, FlushStep, InvalidateStep
  <2>3. CASE \E a \in Addr, s \in Ways : cacheIndexFlush(a, s)
    BY <2>1, <2>3, IndexFlushStep
  <2>4. CASE \E i \in DIndexes, s \in Ways : priv_write_dcache_tag(i, s)
    BY <2>1, <2>4, TagWriteStep
  <2>5. CASE priv_write_psr
    <3>1. psr' \in [dce : BOOLEAN, aem : BOOLEAN] /\ UNCHANGED <<mem, D>>
      BY <2>5, DataCacheAssumption DEF priv_write_psr
    <3>2. QED BY <2>1, <3>1 DEF IInv, CacheOK
  <2>6. QED BY <1>3, <2>2, <2>3, <2>4, <2>5 DEF CacheInstruction
<1>4. CASE Debugger
  <2>1. PICK a \in Addr : \E v \in Data(a) : sim_write(a, v)
    BY <1>4 DEF Debugger
  <2>2. QED BY <2>1, DebuggerStep, DataTyped
<1>5. CASE UNCHANGED <<dvars, op>>
  BY <1>5 DEF dvars, IInv, CacheOK
<1>6. QED BY <1>1, <1>2, <1>3, <1>4, <1>5 DEF Next

THEOREM Invariance == Spec => []IInv
  BY InitIInv, NextIInv, PTL DEF Spec

(* The types of the cache and of memory: write-backs go to words that      *)
(* exist, tags and indexes stay in range, and lines hold what words hold.  *)
THEOREM TypeCorrect == Spec => []TypeOK
<1>1. IInv => TypeOK
  BY IInvMeaning
<1>2. QED BY Invariance, <1>1, PTL

(* No line is ever in both ways of its set, whatever mixture of loads,     *)
(* stores with and without allocation, zeroed lines, flushes, failed       *)
(* write-backs and refills, and debugger writes has gone before.           *)
THEOREM OneCopyCorrect == Spec => []OneCopy
<1>1. IInv => OneCopy
  BY IInvMeaning
<1>2. QED BY Invariance, <1>1, PTL

-----------------------------------------------------------------------------
(***************************************************************************)
(* A valid line that is not dirty equals memory (CleanIsMemory).           *)
(*                                                                         *)
(* Memory changes in two ways.  A write-back changes the words of its own  *)
(* line only, since different tags and indexes make different addresses    *)
(* (FieldsOfWord); and no other way has that line (OneCopy).  A store that *)
(* goes past the cache, of the program or of the debugger, meets no valid  *)
(* line: either the lookup has just missed, or the cache is off, or the    *)
(* word is one that is never cached.                                       *)
(***************************************************************************)
(* makeDAddr and the fields of an address are inverses of each other.      *)
LEMMA FieldsOfWord ==
    ASSUME NEW t \in Nat, NEW i \in DIndexes, NEW w \in Words
    PROVE  /\ makeDAddr(t, i) + w \in Nat
           /\ DTag(makeDAddr(t, i) + w) = t
           /\ DIndex(makeDAddr(t, i) + w) = i
           /\ DWord(makeDAddr(t, i) + w) = w
<1> DEFINE q == t * DSets + i
<1>1. /\ DSets \in Nat \ {0} /\ i \in Nat /\ i \in 0..DSets - 1
      /\ LineWords \in Nat \ {0} /\ w \in 0..LineWords - 1
  BY DataCacheAssumption DEF DIndexes, Words
<1>2. q \in Nat /\ q \div DSets = t /\ q % DSets = i
  BY <1>1, DivUnique
<1>3. makeDAddr(t, i) = q * LineWords
  BY DEF makeDAddr
<1> HIDE DEF q
<1>4. /\ (q * LineWords + w) \div LineWords = q
      /\ (q * LineWords + w) % LineWords = w
  BY <1>1, <1>2, DivUnique
<1>5. q * LineWords + w \in Nat
  BY <1>1, <1>2
<1>6. QED BY <1>2, <1>3, <1>4, <1>5 DEF DTag, DIndex, DWord

LEMMA AddressOfFields ==
    ASSUME DSets > 0, NEW a \in Addr
    PROVE  /\ makeDAddr(DTag(a), DIndex(a)) + DWord(a) = a
           /\ DTag(a) \in Nat /\ DIndex(a) \in Nat
           /\ makeDAddr(DTag(a), DIndex(a)) \in Addr
           /\ makeDAddr(DTag(a), DIndex(a)) \div LineWords = a \div LineWords
<1> DEFINE q == a \div LineWords
           t == q \div DSets
           i == q % DSets
           w == a % LineWords
<1>1. /\ DSets \in Nat \ {0} /\ LineWords \in Nat \ {0}
      /\ a \in Nat /\ a <= MaxAddr /\ MaxAddr \in Nat
  BY DataCacheAssumption DEF Addr
<1>2. q \in Nat /\ w \in 0..LineWords - 1 /\ a = LineWords * q + w
  BY <1>1, DivMod
<1>3. t \in Nat /\ i \in 0..DSets - 1 /\ q = DSets * t + i
  BY <1>1, <1>2, DivMod
<1>4. DTag(a) = t /\ DIndex(a) = i /\ DWord(a) = w
  BY DEF DTag, DIndex, DWord
<1> HIDE DEF t, i, w, q
<1>5. t * DSets + i = q
  BY <1>1, <1>3
<1>6. makeDAddr(DTag(a), DIndex(a)) = q * LineWords
  BY <1>4, <1>5 DEF makeDAddr
<1>7. q * LineWords + w = a /\ q * LineWords \in Nat
  BY <1>1, <1>2
<1>8. q * LineWords \in Addr
  BY <1>1, <1>2, <1>7 DEF Addr
<1>9. (q * LineWords + 0) \div LineWords = q
  <2>1. 0 \in 0..LineWords - 1
    BY <1>1
  <2>2. QED BY <1>1, <1>2, <2>1, DivUnique
<1>10. (q * LineWords) \div LineWords = q
  BY <1>7, <1>9
<1>11. QED BY <1>3, <1>4, <1>6, <1>7, <1>8, <1>10 DEF q

(* The first word of a line stands for all of them.                        *)
LEMMA FirstWord ==
    ASSUME DSets > 0, NEW a \in Addr
    PROVE  /\ makeDAddr(DTag(a), DIndex(a)) \in Uncached <=> a \in Uncached
           /\ Exists(makeDAddr(DTag(a), DIndex(a))) <=> a \in Backed
  BY AddressOfFields, DataCacheAssumption DEF Exists

(***************************************************************************)
(* What a valid line is in an invariant state, when memory is m: a line of *)
(* words used with the cache, present only while the cache is on, and      *)
(* equal to memory unless it is dirty.                                     *)
(***************************************************************************)
Sound(l, i, m) ==
    l.valid =>
        /\ dce
        /\ makeDAddr(l.tag, i) \notin Uncached
        /\ ~l.dirty =>
              /\ Exists(makeDAddr(l.tag, i))
              /\ \A w \in Words : l.line[w] = m[makeDAddr(l.tag, i) + w]

SoundEntry(e, i, m) == \A s \in Ways : Sound(e.dSet[s], i, m)

SoundCache(d, m) == \A i \in DIndexes : SoundEntry(d[i], i, m)

CleanInv == IInv /\ SoundCache(D, mem)

LEMMA SoundIsClean ==
    ASSUME SoundCache(D, mem)
    PROVE  CleanIsMemory
  BY DEF SoundCache, SoundEntry, Sound, CleanIsMemory

LEMMA PutSound ==
    ASSUME NEW e \in DEntry, NEW s \in Ways, NEW l, NEW u, NEW i, NEW m,
           SoundEntry(e, i, m), Sound(l, i, m)
    PROVE  SoundEntry(PutLine(e, s, l, u), i, m)
<1>1. /\ PutLine(e, s, l, u).dSet[s] = l
      /\ \A x \in Ways : x # s => PutLine(e, s, l, u).dSet[x] = e.dSet[x]
  BY DEF PutLine, DEntry
<1>2. QED BY <1>1 DEF SoundEntry

LEMMA ReplaceSound ==
    ASSUME NEW d, CacheOK(d), NEW m, SoundCache(d, m),
           NEW i \in DIndexes, NEW e, SoundEntry(e, i, m)
    PROVE  SoundCache([d EXCEPT ![i] = e], m)
  BY DEF SoundCache, CacheOK

LEMMA EmptySound ==
    ASSUME NEW l, ~l.valid, NEW i, NEW m
    PROVE  Sound(l, i, m)
  BY DEF Sound

LEMMA TagsAreNat == Tags \subseteq Nat
  BY DEF Tags

(***************************************************************************)
(* Memory changes.                                                         *)
(***************************************************************************)

(* A word of a line: no word of another line.                              *)
LEMMA OtherLine ==
    ASSUME NEW t \in Nat, NEW i \in DIndexes, NEW w \in Words,
           NEW u \in Nat, NEW j \in DIndexes,
           makeDAddr(t, i) + w \in makeDAddr(u, j)..makeDAddr(u, j) + LineWords - 1
    PROVE  t = u /\ i = j
<1> DEFINE x == makeDAddr(t, i) + w
           v == x - makeDAddr(u, j)
<1>1. LineWords \in Nat \ {0} /\ DSets \in Nat /\ j \in Nat /\ i \in Nat /\ w \in Nat
  BY DataCacheAssumption DEF DIndexes, Words
<1>2. makeDAddr(u, j) \in Nat /\ makeDAddr(t, i) \in Nat
  BY <1>1 DEF makeDAddr
<1>3. v \in Words /\ x = makeDAddr(u, j) + v
  BY <1>1, <1>2 DEF Words
<1>4. DTag(x) = t /\ DIndex(x) = i
  BY FieldsOfWord
<1> HIDE DEF x, v
<1>5. DTag(x) = u /\ DIndex(x) = j
  BY <1>3, FieldsOfWord
<1>6. QED BY <1>4, <1>5

(* Writing a dirty line back changes the words of no clean line.           *)
LEMMA WriteBackSound ==
    ASSUME CleanInv, NEW i \in DIndexes, NEW s \in Ways
    PROVE  SoundCache(D, Saved(i, s))
<1>1. CASE ~MustWrite(i, s)
  BY <1>1 DEF Saved, CleanInv
<1>2. CASE MustWrite(i, s)
  <2> DEFINE k == D[i].dSet[s]
             m == WrittenBack(k, i)
  <2>1. SUFFICES ASSUME NEW j \in DIndexes, NEW r \in Ways,
                        D[j].dSet[r].valid, ~D[j].dSet[r].dirty,
                        NEW w \in Words
                 PROVE  m[makeDAddr(D[j].dSet[r].tag, j) + w]
                          = mem[makeDAddr(D[j].dSet[r].tag, j) + w]
    BY <1>2 DEF Saved, CleanInv, SoundCache, SoundEntry, Sound
  <2> DEFINE l == D[j].dSet[r]
  <2>2. /\ Good(D[i]) /\ k.tag \in Nat /\ k.valid /\ k.dirty
        /\ l.tag \in Nat /\ j \in Nat
    <3>1. Good(D[i]) /\ Good(D[j])
      BY EntryGood DEF CleanInv, IInv
    <3>2. k \in DSet /\ l \in DSet
      BY <3>1 DEF Good, DEntry
    <3>3. k.valid /\ k.dirty
      BY <1>2 DEF MustWrite
    <3> HIDE DEF k, l
    <3>4. k.tag \in Nat /\ l.tag \in Nat
      BY <3>2, TagsAreNat DEF DSet
    <3>5. QED BY <3>1, <3>3, <3>4 DEF DIndexes
  <2>3. Exists(makeDAddr(l.tag, j))
    BY <2>1 DEF CleanInv, SoundCache, SoundEntry, Sound
  <2>4. makeDAddr(l.tag, j) + w \in Backed
    BY <2>2, <2>3, LineExists
  <2>5. ~(l.tag = k.tag /\ j = i)
    <3>1. SUFFICES ASSUME l.tag = k.tag, j = i PROVE FALSE
      OBVIOUS
    <3>2. r # s
      BY <2>1, <2>2, <3>1
    <3>3. (s = 0 /\ r = 1) \/ (s = 1 /\ r = 0)
      BY <3>2 DEF Ways
    <3>4. QED BY <2>1, <2>2, <3>1, <3>3 DEF Good, Distinct
  <2> HIDE DEF k, l
  <2>6. makeDAddr(l.tag, j) + w
          \notin makeDAddr(k.tag, i)..makeDAddr(k.tag, i) + LineWords - 1
    BY <2>2, <2>5, OtherLine
  <2>7. m[makeDAddr(l.tag, j) + w] = mem[makeDAddr(l.tag, j) + w]
    BY <2>4, <2>6 DEF WrittenBack
  <2>8. QED BY <2>7 DEF l
<1>3. QED BY <1>1, <1>2

(* A store past the cache to a word no valid line has.                     *)
LEMMA StorePastSound ==
    ASSUME NEW d, CacheOK(d), NEW m \in [Backed -> Values], SoundCache(d, m),
           NEW a \in Backed, NEW v,
           DSets > 0 => ~Hits(d[DIndex(a)], DTag(a))
    PROVE  SoundCache(d, [m EXCEPT ![a] = v])
<1>1. SUFFICES ASSUME NEW i \in DIndexes, NEW s \in Ways,
                      d[i].dSet[s].valid, ~d[i].dSet[s].dirty,
                      NEW w \in Words
               PROVE  [m EXCEPT ![a] = v][makeDAddr(d[i].dSet[s].tag, i) + w]
                        = m[makeDAddr(d[i].dSet[s].tag, i) + w]
  BY DEF SoundCache, SoundEntry, Sound
<1> DEFINE l == d[i].dSet[s]
<1>2. l.tag \in Nat /\ DSets > 0
  <2>1. l \in DSet
    BY DEF CacheOK, DEntry
  <2>2. l.tag \in Nat
    BY <2>1, TagsAreNat DEF DSet
  <2>3. QED BY <2>2, DataCacheAssumption DEF DIndexes
<1>3. makeDAddr(l.tag, i) + w # a
  <2>1. SUFFICES ASSUME makeDAddr(l.tag, i) + w = a PROVE FALSE
    OBVIOUS
  <2>2. DTag(a) = l.tag /\ DIndex(a) = i
    BY <1>2, <2>1, FieldsOfWord
  <2>3. QED BY <1>1, <1>2, <2>2 DEF Hits, Holds
<1>4. QED BY <1>3

(***************************************************************************)
(* Lookups.                                                                *)
(***************************************************************************)
LEMMA RefillSound ==
    ASSUME DSets > 0, dce, NEW a \in Addr, a \notin Uncached,
           NEW e \in DEntry, NEW s \in Ways, NEW m,
           SoundEntry(e, DIndex(a), m)
    PROVE  SoundEntry(Refill(e, s, a, m).entry, DIndex(a), m)
<1>1. CASE Exists(makeDAddr(DTag(a), DIndex(a)))
  <2>1. Refill(e, s, a, m).entry = PutLine(e, s, LineOf(a, m), 1 - s)
    BY <1>1 DEF Refill, Selected
  <2>2. makeDAddr(DTag(a), DIndex(a)) \notin Uncached
    BY FirstWord
  <2>3. Sound(LineOf(a, m), DIndex(a), m)
    BY <1>1, <2>2 DEF Sound, LineOf
  <2>4. QED BY <2>1, <2>3, PutSound
<1>2. CASE ~Exists(makeDAddr(DTag(a), DIndex(a)))
  <2> DEFINE l == [e.dSet[s] EXCEPT !.tag = DTag(a), !.valid = FALSE]
  <2>1. Refill(e, s, a, m).entry = PutLine(e, s, l, e.lru)
    BY <1>2 DEF Refill, Selected
  <2>2. ~l.valid
    BY DEF DEntry, DSet
  <2> HIDE DEF l
  <2>3. QED BY <2>1, <2>2, EmptySound, PutSound
<1>3. QED BY <1>1, <1>2

LEMMA RefillMemory ==
    ASSUME NEW a, NEW e, NEW s, NEW m
    PROVE  Refill(e, s, a, m).mem = m
  BY DEF Refill, Selected

LEMMA SelectSound ==
    ASSUME CleanInv, DSets > 0, dce, NEW a \in Addr, a \notin Uncached
    PROVE  LET r == dCacheSelect(a)
           IN  /\ SoundCache(D, r.mem)
               /\ SoundEntry(r.entry, DIndex(a), r.mem)
<1> DEFINE i == DIndex(a)
           e == D[i]
           s == WayOf(e, DTag(a))
           l == e.dSet[s]
           r == dCacheSelect(a)
<1>1. i \in DIndexes /\ CacheOK(D) /\ SoundCache(D, mem)
  BY FieldsTyped DEF CleanInv, IInv
<1>2. e \in DEntry /\ s \in Ways /\ l \in DSet
  BY <1>1, EntryGood, WayTyped DEF Good
<1>3. SoundEntry(e, i, mem)
  BY <1>1 DEF SoundCache
<1>4. CASE Hits(e, DTag(a))
  <2>1. r = Selected(TRUE, s, e, mem)
    BY <1>4 DEF dCacheSelect
  <2> HIDE DEF e, s, i
  <2>2. QED BY <1>1, <1>3, <2>1 DEF Selected, i
<1>5. CASE ~Hits(e, DTag(a)) /\ ~(l.valid /\ l.dirty)
  <2>1. r = Refill(e, s, a, mem)
    BY <1>5 DEF dCacheSelect
  <2> HIDE DEF e, s
  <2>2. QED BY <1>1, <1>2, <1>3, <2>1, RefillSound, RefillMemory
<1>6. CASE ~Hits(e, DTag(a)) /\ l.valid /\ l.dirty /\ ~Exists(makeDAddr(l.tag, i))
  <2>1. r = Selected(FALSE, s, e, mem)
    BY <1>6 DEF dCacheSelect
  <2> HIDE DEF e, s, i
  <2>2. QED BY <1>1, <1>3, <2>1 DEF Selected, i
<1>7. CASE ~Hits(e, DTag(a)) /\ l.valid /\ l.dirty /\ Exists(makeDAddr(l.tag, i))
  <2> DEFINE k == [l EXCEPT !.valid = FALSE]
             f == PutLine(e, s, k, e.lru)
             m == WrittenBack(l, i)
  <2>1. r = Refill(f, s, a, m)
    BY <1>7 DEF dCacheSelect
  <2>2. k \in DSet /\ ~k.valid
    BY <1>2 DEF DSet
  <2>3. m = Saved(i, s)
    BY <1>7 DEF Saved, MustWrite
  <2> HIDE DEF k, m, r
  <2>4. f \in DEntry
    BY <1>2, <2>2 DEF PutLine, DEntry
  <2>5. SoundCache(D, m)
    BY <1>1, <1>2, <2>3, WriteBackSound
  <2>6. SoundEntry(e, i, m)
    BY <1>1, <2>5 DEF SoundCache
  <2> HIDE DEF e, s, l
  <2>7. SoundEntry(f, i, m)
    BY <1>2, <2>2, <2>6, EmptySound, PutSound
  <2> HIDE DEF f
  <2>8. SoundEntry(r.entry, i, m)
    BY <1>2, <2>1, <2>4, <2>7, RefillSound
  <2>9. r.mem = m
    BY <2>1, RefillMemory
  <2> HIDE DEF i
  <2>10. QED BY <2>5, <2>8, <2>9 DEF i, r
<1>8. QED BY <1>4, <1>5, <1>6, <1>7

(* A store leaves a line dirty, in a line that was already sound.          *)
LEMMA StoredInSound ==
    ASSUME NEW e \in DEntry, NEW s \in Ways, NEW a \in Addr, NEW v, NEW i, NEW m,
           SoundEntry(e, i, m)
    PROVE  SoundEntry(StoredIn(e, s, a, v), i, m)
<1> DEFINE l == [e.dSet[s] EXCEPT !.line[DWord(a)] = v, !.dirty = TRUE]
<1>1. e.dSet[s] \in DSet
  BY DEF DEntry
<1>2. l.valid = e.dSet[s].valid
  BY <1>1 DEF DSet
<1>3. l.tag = e.dSet[s].tag
  BY <1>1 DEF DSet
<1>4. l.dirty
  BY <1>1 DEF DSet
<1>5. StoredIn(e, s, a, v) = PutLine(e, s, l, 1 - s)
  BY DEF StoredIn
<1> HIDE DEF l
<1>6. Sound(l, i, m)
  BY <1>2, <1>3, <1>4 DEF SoundEntry, Sound
<1>7. QED BY <1>5, <1>6, PutSound

(***************************************************************************)
(* Lines pushed out.                                                       *)
(***************************************************************************)
LEMMA InvalidatedSound ==
    ASSUME CleanInv, NEW i \in DIndexes, NEW s \in Ways, NEW m, SoundCache(D, m)
    PROVE  SoundCache(Invalidated(i, s), m)
<1> DEFINE l == [D[i].dSet[s] EXCEPT !.valid = FALSE]
<1>1. CacheOK(D) /\ D[i] \in DEntry /\ D[i].dSet[s] \in DSet
  BY EntryGood DEF CleanInv, IInv, Good, DEntry
<1>2. ~l.valid
  BY <1>1 DEF DSet
<1>3. Invalidated(i, s) = [D EXCEPT ![i] = PutLine(D[i], s, l, s)]
  BY DEF Invalidated
<1> HIDE DEF l
<1>4. SoundEntry(D[i], i, m)
  BY DEF SoundCache
<1>5. SoundEntry(PutLine(D[i], s, l, s), i, m)
  BY <1>1, <1>2, <1>4, EmptySound, PutSound
<1>6. SoundCache([D EXCEPT ![i] = PutLine(D[i], s, l, s)], m)
  BY <1>1, <1>5, ReplaceSound
<1>7. QED BY <1>3, <1>6

LEMMA PushedOutSound ==
    ASSUME CleanInv, NEW i \in DIndexes, NEW s \in Ways
    PROVE  SoundCache(PushedOut(i, s).D, PushedOut(i, s).mem)
<1>1. SoundCache(D, Saved(i, s))
  BY WriteBackSound
<1>2. SoundCache(Invalidated(i, s), Saved(i, s))
  BY <1>1, InvalidatedSound
<1>3. PushedOut(i, s).mem = Saved(i, s)
      /\ (PushedOut(i, s).D = D \/ PushedOut(i, s).D = Invalidated(i, s))
  BY DEF PushedOut
<1>4. QED BY <1>1, <1>2, <1>3

LEMMA FlushedSound ==
    ASSUME CleanInv, NEW a \in Addr
    PROVE  SoundCache(Flushed(a).D, Flushed(a).mem)
<1> DEFINE i == DIndex(a)
           s == WayOf(D[i], DTag(a))
<1>1. CASE Present(a)
  <2>1. DSets > 0 /\ i \in DIndexes
    BY <1>1, FieldsTyped DEF Present
  <2>2. s \in Ways
    BY <2>1, EntryGood, WayTyped DEF CleanInv, IInv, Good
  <2>3. Flushed(a) = PushedOut(i, s)
    BY <1>1 DEF Flushed
  <2> HIDE DEF i, s
  <2>4. QED BY <2>1, <2>2, <2>3, PushedOutSound
<1>2. CASE ~Present(a)
  BY <1>2 DEF Flushed, CleanInv
<1>3. QED BY <1>1, <1>2

(* A word with memory that has been flushed is in neither way: the flush   *)
(* fails only if the line has no memory, and the other way does not have   *)
(* it.                                                                     *)
LEMMA FlushedIsAway ==
    ASSUME CleanInv, DSets > 0, NEW a \in Backed
    PROVE  ~Hits(Flushed(a).D[DIndex(a)], DTag(a))
<1> DEFINE i == DIndex(a)
           t == DTag(a)
           s == WayOf(D[i], t)
<1>1. a \in Addr /\ i \in DIndexes
  BY FieldsTyped, DataCacheAssumption
<1>2. CacheOK(D) /\ Good(D[i]) /\ D[i] \in DEntry
  BY <1>1, EntryGood DEF CleanInv, IInv, Good
<1>3. CASE Present(a)
  <2>1. s \in Ways /\ D[i].dSet[s] \in DSet /\ Holds(D[i].dSet[s], t)
    BY <1>2, <1>3, WayTyped DEF Present
  <2>2. CanWrite(i, s)
    BY <1>1, <2>1, FirstWord DEF CanWrite, Holds
  <2> DEFINE l == [D[i].dSet[s] EXCEPT !.valid = FALSE]
  <2>3. Flushed(a).D = [D EXCEPT ![i] = PutLine(D[i], s, l, s)]
    BY <1>3, <2>2 DEF Flushed, PushedOut, Invalidated
  <2>4. ~l.valid
    BY <2>1 DEF DSet
  <2> HIDE DEF l, s
  <2>5. Flushed(a).D[i] = PutLine(D[i], s, l, s)
    BY <1>1, <1>2, <2>3 DEF CacheOK
  <2>6. PutLine(D[i], s, l, s).dSet[s] = l
        /\ PutLine(D[i], s, l, s).dSet[1 - s] = D[i].dSet[1 - s]
    BY <1>2, <2>1, OtherWay DEF PutLine, DEntry
  <2>7. ~Holds(D[i].dSet[1 - s], t)
    <3>1. s = 0 \/ s = 1
      BY <2>1 DEF Ways
    <3>2. CASE s = 0
      <4>1. 1 - s = 1
        BY <3>2
      <4>2. QED BY <1>2, <2>1, <3>2, <4>1 DEF Good, Distinct, Holds
    <3>3. CASE s = 1
      <4>1. 1 - s = 0
        BY <3>3
      <4>2. QED BY <1>2, <2>1, <3>3, <4>1 DEF Good, Distinct, Holds
    <3>4. QED BY <3>1, <3>2, <3>3
  <2> HIDE DEF t
  <2>8. QED BY <2>1, <2>4, <2>5, <2>6, <2>7, OtherWay DEF Hits, Holds, t
<1>4. CASE ~Present(a)
  <2>1. Flushed(a).D = D
    BY <1>4 DEF Flushed
  <2>2. CASE dce
    BY <1>4, <2>1, <2>2 DEF Present
  <2>3. CASE ~dce
    BY <1>1, <2>1, <2>3
       DEF CleanInv, SoundCache, SoundEntry, Sound, Hits, Holds
  <2>4. QED BY <2>2, <2>3
<1>5. QED BY <1>3, <1>4

(* What goes past the cache is not in it.                                  *)
LEMMA UncachedIsAway ==
    ASSUME CleanInv, DSets > 0, NEW a \in Addr, ~Cached(a)
    PROVE  ~Hits(D[DIndex(a)], DTag(a))
<1>1. SUFFICES ASSUME NEW s \in Ways, Holds(D[DIndex(a)].dSet[s], DTag(a))
               PROVE  FALSE
  BY DEF Hits
<1>2. DIndex(a) \in DIndexes
  BY FieldsTyped
<1>3. dce /\ makeDAddr(DTag(a), DIndex(a)) \notin Uncached
  BY <1>1, <1>2 DEF CleanInv, SoundCache, SoundEntry, Sound, Holds
<1>4. a \notin Uncached
  BY <1>3, FirstWord
<1>5. QED BY <1>3, <1>4 DEF Cached

(***************************************************************************)
(* One lemma per operation that changes memory or a line.  The types, and  *)
(* that a line is in one way only, come from NextIInv.                     *)
(***************************************************************************)
LEMMA SameSound ==
    ASSUME CleanInv, UNCHANGED <<mem, D, psr>>
    PROVE  SoundCache(D, mem)'
  BY DEF CleanInv, SoundCache, SoundEntry, Sound, dce

LEMMA PrimedSound ==
    ASSUME UNCHANGED psr, SoundCache(D', mem')
    PROVE  SoundCache(D, mem)'
  BY DEF SoundCache, SoundEntry, Sound, dce

LEMMA CleanReadStep ==
    ASSUME CleanInv, NEW a \in Addr, NEW dribble, javaMemRead(a, dribble)
    PROVE  SoundCache(D, mem)'
<1>1. CASE Cached(a)
  <2> DEFINE r == dCacheSelect(a)
  <2>1. DSets > 0 /\ dce /\ a \notin Uncached /\ Enter(a, r)
    BY <1>1 DEF Cached, javaMemRead
  <2>2. SoundCache(D, r.mem) /\ SoundEntry(r.entry, DIndex(a), r.mem)
    BY <2>1, SelectSound
  <2> HIDE DEF r
  <2>3. CacheOK(D) /\ DIndex(a) \in DIndexes
    BY <2>1, FieldsTyped DEF CleanInv, IInv
  <2>4. SoundCache([D EXCEPT ![DIndex(a)] = r.entry], r.mem)
    BY <2>2, <2>3, ReplaceSound
  <2>5. D' = [D EXCEPT ![DIndex(a)] = r.entry] /\ mem' = r.mem /\ UNCHANGED psr
    BY <2>1 DEF Enter
  <2>6. QED BY <2>4, <2>5, PrimedSound
<1>2. CASE ~Cached(a)
  BY <1>2, SameSound DEF javaMemRead
<1>3. QED BY <1>1, <1>2

LEMMA CleanMemoryWriteStep ==
    ASSUME CleanInv, NEW a \in Addr, NEW v, cmMemoryWrite(a, v),
           DSets > 0 => ~Hits(D[DIndex(a)], DTag(a))
    PROVE  SoundCache(D, mem)'
<1>1. CASE a \in Backed
  <2>1. SoundCache(D, [mem EXCEPT ![a] = v])
    BY <1>1, StorePastSound DEF CleanInv, IInv
  <2>2. mem' = [mem EXCEPT ![a] = v] /\ UNCHANGED <<D, psr>>
    BY <1>1 DEF cmMemoryWrite
  <2>3. QED BY <2>1, <2>2, PrimedSound
<1>2. CASE a \notin Backed
  BY <1>2, SameSound DEF cmMemoryWrite
<1>3. QED BY <1>1, <1>2

LEMMA CleanCacheWriteStep ==
    ASSUME CleanInv, NEW a \in Addr, Cached(a), NEW v, dCacheWrite(a, v)
    PROVE  SoundCache(D, mem)'
<1> DEFINE r == dCacheSelect(a)
           f == StoredIn(r.entry, r.set, a, v)
<1>1. DSets > 0 /\ dce /\ a \notin Uncached
  BY DEF Cached
<1>2. SoundCache(D, r.mem) /\ SoundEntry(r.entry, DIndex(a), r.mem)
  BY <1>1, SelectSound
<1>3. CacheOK(D) /\ DIndex(a) \in DIndexes /\ r \in Result
  BY <1>1, LookupGood DEF CleanInv, IInv
<1>4. r.entry \in DEntry /\ r.set \in Ways
  BY <1>3 DEF Result
<1>5. CASE r.ok
  <2>1. Enter(a, [r EXCEPT !.entry = f])
    BY <1>5 DEF dCacheWrite
  <2> HIDE DEF r
  <2>2. SoundEntry(f, DIndex(a), r.mem)
    BY <1>2, <1>4, StoredInSound
  <2> HIDE DEF f
  <2>3. [r EXCEPT !.entry = f].entry = f /\ [r EXCEPT !.entry = f].mem = r.mem
    BY <1>3 DEF Result
  <2>4. SoundCache([D EXCEPT ![DIndex(a)] = f], r.mem)
    BY <1>2, <1>3, <2>2, ReplaceSound
  <2>5. D' = [D EXCEPT ![DIndex(a)] = f] /\ mem' = r.mem /\ UNCHANGED psr
    BY <2>1, <2>3 DEF Enter
  <2>6. QED BY <2>4, <2>5, PrimedSound
<1>6. CASE ~r.ok
  <2>1. Enter(a, r)
    BY <1>6 DEF dCacheWrite
  <2> HIDE DEF r
  <2>2. SoundCache([D EXCEPT ![DIndex(a)] = r.entry], r.mem)
    BY <1>2, <1>3, ReplaceSound
  <2>3. D' = [D EXCEPT ![DIndex(a)] = r.entry] /\ mem' = r.mem /\ UNCHANGED psr
    BY <2>1 DEF Enter
  <2>4. QED BY <2>2, <2>3, PrimedSound
<1>7. QED BY <1>5, <1>6

LEMMA CleanNAWriteStep ==
    ASSUME CleanInv, NEW a \in Addr, Cached(a), NEW v, dCacheNAWrite(a, v)
    PROVE  SoundCache(D, mem)'
<1> DEFINE e == D[DIndex(a)]
           s == WayOf(e, DTag(a))
<1>1. CASE Hits(e, DTag(a))
  <2>1. CacheOK(D) /\ DIndex(a) \in DIndexes /\ SoundCache(D, mem)
    BY FieldsTyped DEF CleanInv, IInv, Cached
  <2>2. e \in DEntry /\ SoundEntry(e, DIndex(a), mem)
    BY <2>1, EntryGood DEF Good, SoundCache
  <2>3. s \in Ways
    BY <2>2, WayTyped
  <2>4. D' = [D EXCEPT ![DIndex(a)] = StoredIn(e, s, a, v)]
        /\ UNCHANGED <<mem, psr>>
    BY <1>1 DEF dCacheNAWrite
  <2> HIDE DEF e, s
  <2>5. SoundEntry(StoredIn(e, s, a, v), DIndex(a), mem)
    BY <2>2, <2>3, StoredInSound
  <2>6. SoundCache([D EXCEPT ![DIndex(a)] = StoredIn(e, s, a, v)], mem)
    BY <2>1, <2>5, ReplaceSound
  <2>7. QED BY <2>4, <2>6, PrimedSound
<1>2. CASE ~Hits(e, DTag(a))
  BY <1>2, CleanMemoryWriteStep DEF dCacheNAWrite
<1>3. QED BY <1>1, <1>2

LEMMA CleanWriteStep ==
    ASSUME CleanInv, NEW a \in Addr, NEW v, javaMemWrite(a, v)
    PROVE  SoundCache(D, mem)'
<1>1. CASE UNCHANGED dvars
  BY <1>1, SameSound DEF dvars
<1>2. CASE Cached(a) /\ dCacheWrite(a, v)
  BY <1>2, CleanCacheWriteStep
<1>3. CASE Cached(a) /\ dCacheNAWrite(a, v)
  BY <1>3, CleanNAWriteStep
<1>4. CASE ~Cached(a) /\ cmMemoryWrite(a, v)
  BY <1>4, UncachedIsAway, CleanMemoryWriteStep
<1>5. QED BY <1>1, <1>2, <1>3, <1>4 DEF javaMemWrite

LEMMA CleanFlushStep ==
    ASSUME CleanInv, NEW a \in Addr, cacheFlush(a)
    PROVE  SoundCache(D, mem)'
  BY FlushedSound, PrimedSound DEF cacheFlush

LEMMA CleanIndexFlushStep ==
    ASSUME CleanInv, NEW a \in Addr, NEW s \in Ways, cacheIndexFlush(a, s)
    PROVE  SoundCache(D, mem)'
<1>1. CASE dce /\ DSets > 0
  <2>1. DIndex(a) \in DIndexes
    BY <1>1, FieldsTyped
  <2>2. /\ mem' = PushedOut(DIndex(a), s).mem
        /\ D' = PushedOut(DIndex(a), s).D
        /\ UNCHANGED psr
    BY <1>1 DEF cacheIndexFlush
  <2>3. QED BY <2>1, <2>2, PushedOutSound, PrimedSound
<1>2. CASE ~(dce /\ DSets > 0)
  BY <1>2, SameSound DEF cacheIndexFlush
<1>3. QED BY <1>1, <1>2

LEMMA CleanInvalidateStep ==
    ASSUME CleanInv, NEW a \in Addr, cacheInvalidate(a)
    PROVE  SoundCache(D, mem)'
<1> DEFINE i == DIndex(a)
           s == WayOf(D[i], DTag(a))
<1>1. CASE Present(a)
  <2>1. DSets > 0 /\ i \in DIndexes
    BY <1>1, FieldsTyped DEF Present
  <2>2. s \in Ways
    BY <2>1, EntryGood, WayTyped DEF CleanInv, IInv, Good
  <2>3. D' = Invalidated(i, s) /\ UNCHANGED <<mem, psr>>
    BY <1>1 DEF cacheInvalidate
  <2> HIDE DEF i, s
  <2>4. SoundCache(Invalidated(i, s), mem)
    BY <2>1, <2>2, InvalidatedSound DEF CleanInv
  <2>5. QED BY <2>3, <2>4, PrimedSound
<1>2. CASE ~Present(a)
  BY <1>2, SameSound DEF cacheInvalidate
<1>3. QED BY <1>1, <1>2

LEMMA CleanZeroLineStep ==
    ASSUME CleanInv, NEW a \in Addr, zero_line(a)
    PROVE  SoundCache(D, mem)'
<1>1. CASE DSets > 0
  <2> DEFINE i == DIndex(a)
             s == WayOf(D[i], DTag(a))
             l == [tag |-> DTag(a), valid |-> TRUE, dirty |-> TRUE,
                   line |-> [w \in Words |-> 0]]
  <2>1. CacheOK(D) /\ i \in DIndexes /\ SoundCache(D, mem)
    BY <1>1, FieldsTyped DEF CleanInv, IInv
  <2>2. D[i] \in DEntry /\ s \in Ways
    BY <2>1, EntryGood, WayTyped DEF Good
  <2>3. dce /\ makeDAddr(DTag(a), i) \notin Uncached
    BY <1>1, FirstWord DEF zero_line
  <2>4. ASSUME NEW m PROVE Sound(l, i, m)
    BY <2>3 DEF Sound
  <2>5. mem' = mem \/ mem' = Saved(i, s)
    BY <1>1 DEF zero_line, dCacheZeroLine
  <2>6. /\ D' = D \/ D' = [D EXCEPT ![i] = PutLine(D[i], s, l, 1 - s)]
        /\ UNCHANGED psr
    BY <1>1 DEF zero_line, dCacheZeroLine, ZeroedEntry
  <2> HIDE DEF i, s, l
  <2>7. SoundCache(D, mem')
    BY <2>1, <2>2, <2>5, WriteBackSound
  <2>8. SoundEntry(D[i], i, mem')
    BY <2>1, <2>7 DEF SoundCache
  <2>9. SoundEntry(PutLine(D[i], s, l, 1 - s), i, mem')
    BY <2>2, <2>4, <2>8, PutSound
  <2>10. SoundCache([D EXCEPT ![i] = PutLine(D[i], s, l, 1 - s)], mem')
    BY <2>1, <2>7, <2>9, ReplaceSound
  <2>11. QED BY <2>6, <2>7, <2>10, PrimedSound
<1>2. CASE ~(DSets > 0)
  BY <1>2, SameSound DEF zero_line
<1>3. QED BY <1>1, <1>2

LEMMA CleanTagWriteStep ==
    ASSUME CleanInv, NEW i \in DIndexes, NEW s \in Ways, priv_write_dcache_tag(i, s)
    PROVE  SoundCache(D, mem)'
<1> DEFINE l == [D[i].dSet[s] EXCEPT !.tag = 0, !.valid = FALSE, !.dirty = FALSE]
<1>1. CacheOK(D) /\ D[i] \in DEntry /\ D[i].dSet[s] \in DSet
  BY EntryGood DEF CleanInv, IInv, Good, DEntry
<1>2. ~l.valid
  BY <1>1 DEF DSet
<1>3. D' = [D EXCEPT ![i] = PutLine(D[i], s, l, 0)] /\ UNCHANGED <<mem, psr>>
  BY DEF priv_write_dcache_tag
<1> HIDE DEF l
<1>4. SoundCache(D, mem) /\ SoundEntry(D[i], i, mem)
  BY DEF CleanInv, SoundCache
<1>5. SoundEntry(PutLine(D[i], s, l, 0), i, mem)
  BY <1>1, <1>2, <1>4, EmptySound, PutSound
<1>6. SoundCache([D EXCEPT ![i] = PutLine(D[i], s, l, 0)], mem)
  BY <1>1, <1>4, <1>5, ReplaceSound
<1>7. QED BY <1>3, <1>6, PrimedSound

(* The cache is turned off only when it holds no valid line.               *)
LEMMA CleanPsrStep ==
    ASSUME CleanInv, priv_write_psr
    PROVE  SoundCache(D, mem)'
<1>1. UNCHANGED <<mem, D>>
  BY DEF priv_write_psr
<1>2. ASSUME NEW i \in DIndexes, NEW s \in Ways, D[i].dSet[s].valid
      PROVE  dce /\ dce'
  BY <1>2 DEF CleanInv, SoundCache, SoundEntry, Sound, priv_write_psr
<1>3. QED BY <1>1, <1>2 DEF CleanInv, SoundCache, SoundEntry, Sound

LEMMA CleanDebuggerStep ==
    ASSUME CleanInv, NEW a \in Addr, NEW v, sim_write(a, v)
    PROVE  SoundCache(D, mem)'
<1> DEFINE d == Flushed(a).D
           m == Flushed(a).mem
<1>1. CacheOK(d) /\ m \in [Backed -> Values] /\ SoundCache(d, m)
  BY FlushedGood, FlushedSound DEF CleanInv
<1>2. D' = d /\ UNCHANGED psr
      /\ mem' = IF a \in Backed THEN [m EXCEPT ![a] = v] ELSE m
  BY DEF sim_write
<1>3. CASE a \in Backed
  <2>1. DSets > 0 => ~Hits(d[DIndex(a)], DTag(a))
    BY <1>3, FlushedIsAway
  <2> HIDE DEF d, m
  <2>2. SoundCache(d, [m EXCEPT ![a] = v])
    BY <1>1, <1>3, <2>1, StorePastSound
  <2>3. QED BY <1>2, <1>3, <2>2, PrimedSound
<1>4. CASE a \notin Backed
  BY <1>1, <1>2, <1>4, PrimedSound
<1>5. QED BY <1>3, <1>4

LEMMA InitCleanInv == Init => CleanInv
<1> SUFFICES ASSUME Init PROVE CleanInv
  OBVIOUS
<1>1. ASSUME NEW i \in DIndexes, NEW s \in Ways
      PROVE  ~D[i].dSet[s].valid
  BY DEF Init, EmptyEntry, EmptyLine
<1>2. SoundCache(D, mem)
  BY <1>1 DEF SoundCache, SoundEntry, Sound
<1>3. QED BY <1>2, InitIInv DEF CleanInv

LEMMA NextCleanInv == CleanInv /\ [Next]_<<dvars, op>> => CleanInv'
<1> SUFFICES ASSUME CleanInv, [Next]_<<dvars, op>> PROVE SoundCache(D, mem)'
  BY NextIInv DEF CleanInv
<1>1. CASE Access
  BY <1>1, CleanReadStep, CleanWriteStep DEF Access
<1>2. CASE CheckExceptions
  BY <1>2, SameSound DEF CheckExceptions
<1>3. CASE CacheInstruction
  <2>1. CASE \E a \in Addr : zero_line(a) \/ cacheFlush(a) \/ cacheInvalidate(a)
    BY <2>1, CleanZeroLineStep, CleanFlushStep, CleanInvalidateStep
  <2>2. CASE \E a \in Addr, s \in Ways : cacheIndexFlush(a, s)
    BY <2>2, CleanIndexFlushStep
  <2>3. CASE \E i \in DIndexes, s \in Ways : priv_write_dcache_tag(i, s)
    BY <2>3, CleanTagWriteStep
  <2>4. CASE priv_write_psr
    BY <2>4, CleanPsrStep
  <2>5. QED BY <1>3, <2>1, <2>2, <2>3, <2>4 DEF CacheInstruction
<1>4. CASE Debugger
  BY <1>4, CleanDebuggerStep DEF Debugger
<1>5. CASE UNCHANGED <<dvars, op>>
  BY <1>5, SameSound DEF dvars
<1>6. QED BY <1>1, <1>2, <1>3, <1>4, <1>5 DEF Next

(* A valid line that is not dirty equals memory, however lines and words   *)
(* are laid out and whatever write-backs and refills fail.                 *)
THEOREM CleanCorrect == Spec => []CleanIsMemory
<1>1. CleanInv => CleanIsMemory
  BY SoundIsClean DEF CleanInv
<1>2. QED BY InitCleanInv, NextCleanInv, <1>1, PTL DEF Spec

-----------------------------------------------------------------------------
(***************************************************************************)
(* The data cache is a memory (ImplementsMemory of module DataCache), and  *)
(* faults change nothing (FaultChangesNothing).                            *)
(*                                                                         *)
(* What the program sees at a word is the word of the way that holds its   *)
(* line, of which there is at most one (OneCopy), or memory.  Replacing a  *)
(* way changes what is seen only at the words of the line that comes in    *)
(* and of the one that goes out (PutSeen); the latter equal memory, since  *)
(* they are clean (CleanInv) or have just been written back (SavedSame).   *)
(***************************************************************************)
Kept(m, a) == IF a \in Backed THEN m[a] ELSE Absent

(* What is seen at a, with entry e in its set and memory m.                *)
InEntry(e, m, a) ==
    IF Hits(e, DTag(a)) THEN e.dSet[WayOf(e, DTag(a))].line[DWord(a)]
    ELSE Kept(m, a)

Seen(d, m, a) ==
    IF DSets > 0 THEN InEntry(d[DIndex(a)], m, a) ELSE Kept(m, a)

LEMMA RamIsSeen ==
    /\ ram = [a \in Addr |-> Seen(D, mem, a)]
    /\ ram' = [a \in Addr |-> Seen(D', mem', a)]
  BY DEF ram, debug_dCacheRead, Seen, InEntry, Kept

(***************************************************************************)
(* One entry.                                                              *)
(***************************************************************************)
LEMMA HeldSeen ==
    ASSUME NEW e, Good(e), NEW s \in Ways, NEW m, NEW a, Holds(e.dSet[s], DTag(a))
    PROVE  InEntry(e, m, a) = e.dSet[s].line[DWord(a)]
<1>1. Hits(e, DTag(a))
  BY DEF Hits
<1>2. s = 0 \/ s = 1
  BY DEF Ways
<1>3. CASE s = 0
  <2>1. WayOf(e, DTag(a)) = s
    BY <1>3 DEF WayOf
  <2>2. QED BY <1>1, <2>1 DEF InEntry
<1>4. CASE s = 1
  <2>1. ~Holds(e.dSet[0], DTag(a))
    BY <1>4 DEF Good, Distinct, Holds
  <2>2. WayOf(e, DTag(a)) = s
    BY <1>4, <2>1 DEF WayOf
  <2>3. QED BY <1>1, <2>2 DEF InEntry
<1>5. QED BY <1>2, <1>3, <1>4

LEMMA AwaySeen ==
    ASSUME NEW e, NEW m, NEW a, \A s \in Ways : ~Holds(e.dSet[s], DTag(a))
    PROVE  InEntry(e, m, a) = Kept(m, a)
  BY DEF InEntry, Hits

(* A line put into way s is seen at its words; at others nothing changes   *)
(* if what the way held of them equals memory.                             *)
LEMMA PutSeen ==
    ASSUME NEW e, Good(e), NEW s \in Ways, NEW l, NEW u, Good(PutLine(e, s, l, u)),
           NEW m, NEW a
    PROVE  /\ Holds(l, DTag(a))
                => InEntry(PutLine(e, s, l, u), m, a) = l.line[DWord(a)]
           /\ /\ ~Holds(l, DTag(a))
              /\ Holds(e.dSet[s], DTag(a)) => e.dSet[s].line[DWord(a)] = Kept(m, a)
              => InEntry(PutLine(e, s, l, u), m, a) = InEntry(e, m, a)
<1> DEFINE f == PutLine(e, s, l, u)
           t == DTag(a)
           o == 1 - s
<1>1. e.dSet \in [Ways -> DSet] /\ o \in Ways /\ Ways = {s, o} /\ s # o
  BY OtherWay DEF Good, DEntry
<1>2. f.dSet[s] = l /\ f.dSet[o] = e.dSet[o]
  BY <1>1 DEF PutLine
<1> HIDE DEF f, t, o
<1>3. ASSUME Holds(l, t) PROVE InEntry(f, m, a) = l.line[DWord(a)]
  BY <1>2, <1>3, HeldSeen DEF f, t
<1>4. ASSUME ~Holds(l, t), Holds(e.dSet[s], t) => e.dSet[s].line[DWord(a)] = Kept(m, a)
      PROVE  InEntry(f, m, a) = InEntry(e, m, a)
  <2>1. CASE Holds(e.dSet[o], t)
    <3>1. InEntry(f, m, a) = f.dSet[o].line[DWord(a)]
      BY <1>1, <1>2, <2>1, HeldSeen DEF f, t
    <3>2. InEntry(e, m, a) = e.dSet[o].line[DWord(a)]
      BY <1>1, <2>1, HeldSeen DEF t
    <3>3. QED BY <1>2, <3>1, <3>2
  <2>2. CASE ~Holds(e.dSet[o], t)
    <3>1. InEntry(f, m, a) = Kept(m, a)
      BY <1>1, <1>2, <1>4, <2>2, AwaySeen DEF t
    <3>2. CASE Holds(e.dSet[s], t)
      <4>1. InEntry(e, m, a) = e.dSet[s].line[DWord(a)]
        BY <3>2, HeldSeen DEF t
      <4>2. QED BY <1>4, <3>1, <3>2, <4>1
    <3>3. CASE ~Holds(e.dSet[s], t)
      <4>1. InEntry(e, m, a) = Kept(m, a)
        BY <1>1, <2>2, <3>3, AwaySeen DEF t
      <4>2. QED BY <3>1, <4>1
    <3>4. QED BY <3>2, <3>3
  <2>3. QED BY <2>1, <2>2
<1>5. QED BY <1>3, <1>4 DEF f, t

(***************************************************************************)
(* Lines and memory.                                                       *)
(***************************************************************************)

LEMMA BaseIsNat ==
    ASSUME NEW t \in Nat, NEW i \in DIndexes
    PROVE  makeDAddr(t, i) \in Nat
  BY DataCacheAssumption DEF makeDAddr, DIndexes

(* Memory m has what the line l of set i has.                              *)
InMemory(l, i, m) ==
    \A w \in Words : /\ makeDAddr(l.tag, i) + w \in Backed
                     /\ m[makeDAddr(l.tag, i) + w] = l.line[w]

LEMMA InMemoryKept ==
    ASSUME DSets > 0, NEW a \in Addr, NEW l, Holds(l, DTag(a)), NEW m,
           InMemory(l, DIndex(a), m)
    PROVE  l.line[DWord(a)] = Kept(m, a)
<1>1. makeDAddr(l.tag, DIndex(a)) + DWord(a) = a
  BY AddressOfFields DEF Holds
<1>2. DWord(a) \in Words
  BY FieldsTyped
<1>3. QED BY <1>1, <1>2 DEF InMemory, Kept

(* A line of a good cache is good.                                         *)
LEMMA LineTyped ==
    ASSUME IInv, NEW i \in DIndexes, NEW s \in Ways
    PROVE  Good(D[i]) /\ D[i] \in DEntry /\ D[i].dSet[s] \in DSet /\ D[i].dSet[s].tag \in Nat
<1>1. Good(D[i])
  BY EntryGood DEF IInv
<1>2. D[i] \in DEntry /\ D[i].dSet[s] \in DSet
  BY <1>1 DEF Good, DEntry
<1>3. QED BY <1>1, <1>2, TagsAreNat DEF DSet

LEMMA CleanInMemory ==
    ASSUME CleanInv, NEW i \in DIndexes, NEW s \in Ways,
           D[i].dSet[s].valid, ~D[i].dSet[s].dirty
    PROVE  InMemory(D[i].dSet[s], i, mem)
<1> DEFINE l == D[i].dSet[s]
<1>1. l.tag \in Nat /\ i \in Nat
  BY LineTyped DEF CleanInv, DIndexes
<1>2. Sound(l, i, mem)
  BY DEF CleanInv, SoundCache, SoundEntry
<1>3. Exists(makeDAddr(l.tag, i)) /\ \A w \in Words : l.line[w] = mem[makeDAddr(l.tag, i) + w]
  BY <1>2 DEF Sound
<1> HIDE DEF l
<1>4. QED BY <1>1, <1>3, LineExists DEF InMemory, l

(* The cache with another entry in set i.                                  *)
Replaced(i, e) == [D EXCEPT ![i] = e]

LEMMA ReplaceSeen ==
    ASSUME IInv, DSets > 0, NEW i \in DIndexes, NEW f, NEW m, NEW a \in Addr
    PROVE  Seen(Replaced(i, f), m, a)
             = IF DIndex(a) = i THEN InEntry(f, m, a) ELSE Seen(D, m, a)
  BY FieldsTyped DEF Seen, IInv, CacheOK, Replaced

(***************************************************************************)
(* Operations on an entry.                                                 *)
(***************************************************************************)

LEMMA DropSeen ==
    ASSUME DSets > 0, NEW e, Good(e), NEW s \in Ways, NEW l \in DSet, ~l.valid,
           NEW u \in Ways, NEW m, NEW a \in Addr,
           e.dSet[s].valid => InMemory(e.dSet[s], DIndex(a), m)
    PROVE  InEntry(PutLine(e, s, l, u), m, a) = InEntry(e, m, a)
<1>1. Good(PutLine(e, s, l, u))
  BY DropGood
<1>2. ~Holds(l, DTag(a))
  BY DEF Holds
<1>3. Holds(e.dSet[s], DTag(a)) => e.dSet[s].line[DWord(a)] = Kept(m, a)
  BY InMemoryKept DEF Holds
<1>4. QED BY <1>1, <1>2, <1>3, PutSeen

LEMMA RefillSeen ==
    ASSUME DSets > 0, NEW a \in Addr, NEW e, Good(e), NEW s \in Ways,
           \A t \in Ways : ~Holds(e.dSet[t], DTag(a)),
           NEW m, e.dSet[s].valid => InMemory(e.dSet[s], DIndex(a), m),
           m \in [Backed -> Values],
           NEW b \in Addr, DIndex(b) = DIndex(a)
    PROVE  InEntry(Refill(e, s, a, m).entry, m, b) = InEntry(e, m, b)
<1> DEFINE base == makeDAddr(DTag(a), DIndex(a))
           r == Refill(e, s, a, m)
<1>1. r \in Result /\ Distinct(r.entry)
  <2> HIDE DEF Result
  <2>1. QED BY RefillGood
<1>2. Good(r.entry)
  BY <1>1 DEF Result, Good
<1>3. Holds(e.dSet[s], DTag(b)) => e.dSet[s].line[DWord(b)] = Kept(m, b)
  BY InMemoryKept DEF Holds
<1>4. CASE Exists(base)
  <2> DEFINE l == LineOf(a, m)
  <2>1. r.entry = PutLine(e, s, l, 1 - s)
    BY <1>4 DEF Refill, Selected
  <2>2. CASE DTag(b) = DTag(a)
    <3>1. Holds(l, DTag(b)) /\ l.line = [w \in Words |-> m[base + w]]
      BY <2>2 DEF Holds, LineOf
    <3>2. DWord(b) \in Words /\ base + DWord(b) = b
      BY <2>2, FieldsTyped, AddressOfFields
    <3>3. b \in Backed
      BY <1>4, <3>2, FieldsTyped, LineExists DEF Tags, DIndexes
    <3>4. InEntry(r.entry, m, b) = l.line[DWord(b)]
      BY <1>2, <2>1, <3>1, PutSeen
    <3>5. InEntry(e, m, b) = Kept(m, b)
      BY <2>2, AwaySeen
    <3>6. QED BY <3>1, <3>2, <3>3, <3>4, <3>5 DEF Kept
  <2>3. CASE DTag(b) # DTag(a)
    <3>1. ~Holds(l, DTag(b))
      BY <2>3 DEF Holds, LineOf
    <3>2. QED BY <1>2, <1>3, <2>1, <3>1, PutSeen
  <2>4. QED BY <2>2, <2>3
<1>5. CASE ~Exists(base)
  <2> DEFINE l == [e.dSet[s] EXCEPT !.tag = DTag(a), !.valid = FALSE]
  <2>1. r.entry = PutLine(e, s, l, e.lru)
    BY <1>5 DEF Refill, Selected
  <2>2. e.dSet[s] \in DSet
    BY DEF Good, DEntry
  <2>3. ~l.valid
    BY <2>2 DEF DSet
  <2> HIDE DEF l
  <2>4. ~Holds(l, DTag(b))
    BY <2>3 DEF Holds
  <2>5. QED BY <1>2, <1>3, <2>1, <2>4, PutSeen
<1>6. QED BY <1>4, <1>5

LEMMA StoredSeen ==
    ASSUME DSets > 0, NEW a \in Addr, NEW e, Good(e), NEW s \in Ways,
           Holds(e.dSet[s], DTag(a)), NEW v \in Values, NEW m,
           NEW b \in Addr, DIndex(b) = DIndex(a)
    PROVE  InEntry(StoredIn(e, s, a, v), m, b) = IF b = a THEN v ELSE InEntry(e, m, b)
<1> DEFINE k == e.dSet[s]
           l == [k EXCEPT !.line[DWord(a)] = v, !.dirty = TRUE]
<1>1. k \in DSet
  BY DEF Good, DEntry
<1>2. l.valid = k.valid /\ l.tag = k.tag
  BY <1>1 DEF DSet
<1>3. DWord(a) \in Words /\ DWord(b) \in Words
  BY FieldsTyped
<1>4. l.line = [k.line EXCEPT ![DWord(a)] = v] /\ k.line \in [Words -> Values]
  BY <1>1 DEF DSet
<1>5. StoredIn(e, s, a, v) = PutLine(e, s, l, 1 - s)
  BY DEF StoredIn
<1> HIDE DEF l
<1>6. Good(PutLine(e, s, l, 1 - s))
  BY <1>5, StoredInGood
<1>7. Holds(l, DTag(b)) <=> Holds(k, DTag(b))
  BY <1>2 DEF Holds
<1>8. CASE Holds(k, DTag(b))
  <2>1. InEntry(StoredIn(e, s, a, v), m, b) = l.line[DWord(b)]
    BY <1>5, <1>6, <1>7, <1>8, PutSeen
  <2>2. InEntry(e, m, b) = k.line[DWord(b)]
    BY <1>8, HeldSeen
  <2>3. DTag(b) = DTag(a)
    BY <1>8 DEF Holds
  <2>4. b = a <=> DWord(b) = DWord(a)
    BY <2>3, AddressOfFields
  <2> HIDE DEF k
  <2>5. QED BY <1>3, <1>4, <2>1, <2>2, <2>4
<1>9. CASE ~Holds(k, DTag(b))
  <2>1. b # a
    BY <1>9
  <2>2. QED BY <1>5, <1>6, <1>7, <1>9, <2>1, PutSeen
<1>10. QED BY <1>8, <1>9


(***************************************************************************)
(* Operations on the cache and memory.                                     *)
(***************************************************************************)

(* Every word of memory m is as it was, or as the program saw it.          *)
Follows(m) == \A b \in Backed : m[b] = mem[b] \/ m[b] = Seen(D, mem, b)

(* The program sees at every word in cache d and memory m what it sees now.*)
Alike(d, m) == \A b \in Addr : Seen(d, m, b) = Seen(D, mem, b)

LEMMA NothingFollows == Follows(mem) /\ Alike(D, mem)
  BY DEF Follows, Alike

LEMMA SavedSame ==
    ASSUME CleanInv, NEW i \in DIndexes, NEW s \in Ways
    PROVE  Follows(Saved(i, s)) /\ Alike(D, Saved(i, s))
<1>1. CASE ~MustWrite(i, s)
  BY <1>1, NothingFollows DEF Saved
<1>2. CASE MustWrite(i, s)
  <2> DEFINE l == D[i].dSet[s]
             base == makeDAddr(l.tag, i)
             m == WrittenBack(l, i)
  <2>1. Saved(i, s) = m /\ l.valid
    BY <1>2 DEF Saved, MustWrite
  <2>2. Good(D[i]) /\ l.tag \in Nat
    BY LineTyped DEF CleanInv
  <2>3. DSets > 0
    BY DataCacheAssumption DEF DIndexes
  <2>4. ASSUME NEW b \in Backed, b \in base..base + LineWords - 1
        PROVE  /\ m[b] = l.line[DWord(b)]
               /\ DIndex(b) = i /\ Holds(l, DTag(b))
    <3>1. m[b] = l.line[DWord(b)]
      BY <2>4 DEF WrittenBack
    <3>2. LineWords \in Nat \ {0} /\ b \in Nat /\ base \in Nat
      BY <2>2, BaseIsNat, DataCacheAssumption DEF Addr
    <3> HIDE DEF base, m
    <3>3. b - base \in Words /\ base + (b - base) = b
      BY <2>4, <3>2 DEF Words
    <3>4. DTag(b) = l.tag /\ DIndex(b) = i
      BY <2>2, <3>3, FieldsOfWord DEF base
    <3>5. QED BY <2>1, <3>1, <3>4 DEF Holds
  <2>5. ASSUME NEW b \in Backed, b \notin base..base + LineWords - 1
        PROVE  m[b] = mem[b]
    BY <2>5 DEF WrittenBack
  <2> HIDE DEF m, base
  <2>6. ASSUME NEW b \in Backed, b \in base..base + LineWords - 1, NEW n
        PROVE  Seen(D, n, b) = l.line[DWord(b)]
    BY <2>2, <2>3, <2>4, <2>6, HeldSeen DEF Seen
  <2> HIDE DEF l
  <2>7. Follows(m)
    BY <2>4, <2>5, <2>6 DEF Follows
  <2>8. ASSUME NEW b \in Addr PROVE Seen(D, m, b) = Seen(D, mem, b)
    <3>1. CASE b \in Backed /\ b \in base..base + LineWords - 1
      BY <2>6, <3>1
    <3>2. CASE ~(b \in Backed /\ b \in base..base + LineWords - 1)
      <4>1. Kept(m, b) = Kept(mem, b)
        BY <2>5, <3>2 DEF Kept
      <4>2. QED BY <4>1 DEF Seen, InEntry
    <3>3. QED BY <3>1, <3>2
  <2>9. QED BY <2>1, <2>7, <2>8 DEF Alike
<1>3. QED BY <1>1, <1>2

(* A line that could be written back if it had to be is in memory then.    *)
LEMMA SavedInMemory ==
    ASSUME CleanInv, NEW i \in DIndexes, NEW s \in Ways, D[i].dSet[s].valid,
           MustWrite(i, s) => CanWrite(i, s)
    PROVE  InMemory(D[i].dSet[s], i, Saved(i, s))
<1> DEFINE l == D[i].dSet[s]
           base == makeDAddr(l.tag, i)
           m == WrittenBack(l, i)
<1>1. CASE ~MustWrite(i, s)
  <2>1. ~l.dirty
    BY <1>1 DEF MustWrite
  <2>2. QED BY <1>1, <2>1, CleanInMemory DEF Saved
<1>2. CASE MustWrite(i, s)
  <2>1. Saved(i, s) = m
    BY <1>2 DEF Saved
  <2>2. Exists(base) /\ l.tag \in Nat /\ i \in Nat
    BY <1>2, LineTyped DEF CleanInv, CanWrite, DIndexes
  <2>3. ASSUME NEW w \in Words PROVE base + w \in Backed /\ m[base + w] = l.line[w]
    <3>1. base + w \in Backed
      BY <2>2, LineExists
    <3>2. DWord(base + w) = w
      BY <2>2, FieldsOfWord
    <3>3. LineWords \in Nat \ {0} /\ base \in Nat /\ w \in 0..LineWords - 1
      BY <2>2, DataCacheAssumption DEF Words, makeDAddr
    <3> HIDE DEF base, l
    <3>4. base + w \in base..base + LineWords - 1
      BY <3>3
    <3>5. QED BY <3>1, <3>2, <3>4 DEF WrittenBack, base
  <2> HIDE DEF m
  <2>4. QED BY <2>1, <2>3 DEF InMemory
<1>3. QED BY <1>1, <1>2

(* Replacing the entry of a set by one in which the same is seen.          *)
LEMMA ReplaceAlike ==
    ASSUME CleanInv, NEW i \in DIndexes, NEW f, NEW m, Alike(D, m),
           \A b \in Addr : DIndex(b) = i => InEntry(f, m, b) = InEntry(D[i], m, b)
    PROVE  Alike(Replaced(i, f), m)
<1>1. DSets > 0 /\ IInv
  BY DataCacheAssumption DEF DIndexes, CleanInv
<1>2. ASSUME NEW b \in Addr PROVE Seen(Replaced(i, f), m, b) = Seen(D, m, b)
  BY <1>1, ReplaceSeen DEF Seen
<1>3. QED BY <1>2 DEF Alike


(* A lookup changes nothing of what the program sees.                      *)
LEMMA SelectSame ==
    ASSUME CleanInv, DSets > 0, NEW a \in Addr
    PROVE  LET r == dCacheSelect(a)
           IN  Follows(r.mem) /\ Alike(Replaced(DIndex(a), r.entry), r.mem)
<1> DEFINE i == DIndex(a)
           e == D[i]
           t == DTag(a)
           s == WayOf(e, t)
           l == e.dSet[s]
           r == dCacheSelect(a)
<1>1. i \in DIndexes /\ CacheOK(D) /\ IInv /\ mem \in [Backed -> Values]
  BY FieldsTyped DEF CleanInv, IInv
<1>2. Good(e) /\ e \in DEntry /\ s \in Ways /\ l \in DSet
  BY <1>1, EntryGood, WayTyped DEF Good
<1>3. CASE Hits(e, t)
  <2>1. r = Selected(TRUE, s, e, mem)
    BY <1>3 DEF dCacheSelect
  <2>2. r.mem = mem /\ r.entry = e
    BY <2>1 DEF Selected
  <2> HIDE DEF r
  <2>3. Replaced(i, e) = D
    BY <1>1 DEF CacheOK, Replaced
  <2>4. QED BY <2>2, <2>3, NothingFollows DEF r
<1>4. CASE ~Hits(e, t) /\ l.valid /\ l.dirty /\ ~Exists(makeDAddr(l.tag, i))
  <2>1. r = Selected(FALSE, s, e, mem)
    BY <1>4 DEF dCacheSelect
  <2>2. r.mem = mem /\ r.entry = e
    BY <2>1 DEF Selected
  <2> HIDE DEF r
  <2>3. Replaced(i, e) = D
    BY <1>1 DEF CacheOK, Replaced
  <2>4. QED BY <2>2, <2>3, NothingFollows DEF r
<1>5. CASE ~Hits(e, t) /\ ~(l.valid /\ l.dirty)
  <2>1. r = Refill(e, s, a, mem)
    BY <1>5 DEF dCacheSelect
  <2>2. l.valid => InMemory(l, i, mem)
    BY <1>1, <1>2, <1>5, CleanInMemory
  <2>3. \A q \in Ways : ~Holds(e.dSet[q], t)
    BY <1>2, <1>5, WayTyped
  <2>4. r.mem = mem
    BY <2>1, RefillMemory
  <2> HIDE DEF r, s, t
  <2>5. ASSUME NEW b \in Addr, DIndex(b) = i
        PROVE  InEntry(r.entry, mem, b) = InEntry(D[i], mem, b)
    BY <1>1, <1>2, <2>1, <2>2, <2>3, <2>5, RefillSeen DEF t
  <2> HIDE DEF e, l, i
  <2>6. Alike(Replaced(i, r.entry), mem)
    BY <1>1, <2>5, NothingFollows, ReplaceAlike
  <2>7. QED BY <2>4, <2>6, NothingFollows DEF i, r
<1>6. CASE ~Hits(e, t) /\ l.valid /\ l.dirty /\ Exists(makeDAddr(l.tag, i))
  <2> DEFINE k == [l EXCEPT !.valid = FALSE]
             f == PutLine(e, s, k, e.lru)
             m == WrittenBack(l, i)
  <2>1. r = Refill(f, s, a, m)
    BY <1>6 DEF dCacheSelect
  <2>2. k \in DSet /\ ~k.valid
    BY <1>2 DEF DSet
  <2>3. m = Saved(i, s)
    BY <1>6 DEF Saved, MustWrite
  <2>4. CanWrite(i, s) /\ l.valid
    BY <1>6 DEF CanWrite
  <2>5. InMemory(l, i, m)
    BY <1>1, <1>2, <2>3, <2>4, SavedInMemory
  <2>6. m \in [Backed -> Values]
    BY <1>1, <1>2, WrittenBackTyped
  <2> HIDE DEF m
  <2>7. Follows(m) /\ Alike(D, m)
    BY <1>1, <1>2, <2>3, SavedSame
  <2>8. e.dSet \in [Ways -> DSet] /\ e.lru \in Ways
    BY <1>2 DEF DEntry
  <2>9. \A q \in Ways : ~Holds(e.dSet[q], t)
    BY <1>2, <1>6, WayTyped
  <2>10. r.mem = m
    BY <2>1, RefillMemory
  <2> HIDE DEF r, s, k, t, e, l
  <2>11. Good(f)
    BY <1>2, <2>2, <2>8, DropGood
  <2>12. f.dSet = [e.dSet EXCEPT ![s] = k]
    BY DEF PutLine
  <2>13. \A q \in Ways : ~Holds(f.dSet[q], t)
    BY <1>2, <2>2, <2>8, <2>9, <2>12 DEF Holds
  <2>14. ~f.dSet[s].valid
    BY <1>2, <2>2, <2>8, <2>12
  <2> HIDE DEF f
  <2>15. ASSUME NEW b \in Addr, DIndex(b) = i
         PROVE  InEntry(r.entry, m, b) = InEntry(D[i], m, b)
    <3>1. InEntry(r.entry, m, b) = InEntry(f, m, b)
      BY <1>2, <2>1, <2>6, <2>11, <2>13, <2>14, <2>15, RefillSeen DEF t
    <3>2. InEntry(f, m, b) = InEntry(e, m, b)
      BY <1>2, <2>2, <2>5, <2>8, <2>15, DropSeen DEF f, l
    <3>3. QED BY <3>1, <3>2 DEF e
  <2> HIDE DEF i
  <2>16. Alike(Replaced(i, r.entry), m)
    BY <1>1, <2>7, <2>15, ReplaceAlike
  <2>17. QED BY <2>7, <2>10, <2>16 DEF i, r
<1>7. QED BY <1>3, <1>4, <1>5, <1>6

(* Nor does pushing a line out, nor a flush.                               *)
LEMMA PushedOutSame ==
    ASSUME CleanInv, NEW i \in DIndexes, NEW s \in Ways
    PROVE  Follows(PushedOut(i, s).mem) /\ Alike(PushedOut(i, s).D, PushedOut(i, s).mem)
<1> DEFINE m == Saved(i, s)
<1>1. Follows(m) /\ Alike(D, m) /\ PushedOut(i, s).mem = m
  BY SavedSame DEF PushedOut
<1>2. CASE MustWrite(i, s) => CanWrite(i, s)
  <2> DEFINE l == [D[i].dSet[s] EXCEPT !.valid = FALSE]
  <2>1. Good(D[i]) /\ D[i].dSet[s] \in DSet /\ DSets > 0
    BY LineTyped, DataCacheAssumption DEF CleanInv, DIndexes
  <2>2. l \in DSet /\ ~l.valid
    BY <2>1 DEF DSet
  <2>3. PushedOut(i, s).D = Replaced(i, PutLine(D[i], s, l, s))
    BY <1>2 DEF PushedOut, Invalidated, Replaced
  <2>4. D[i].dSet[s].valid => InMemory(D[i].dSet[s], i, m)
    BY <1>2, SavedInMemory
  <2> HIDE DEF m, l
  <2>5. ASSUME NEW b \in Addr, DIndex(b) = i
        PROVE  InEntry(PutLine(D[i], s, l, s), m, b) = InEntry(D[i], m, b)
    BY <2>1, <2>2, <2>4, <2>5, DropSeen
  <2>6. Alike(Replaced(i, PutLine(D[i], s, l, s)), m)
    BY <1>1, <2>5, ReplaceAlike
  <2>7. QED BY <1>1, <2>3, <2>6
<1>3. CASE ~(MustWrite(i, s) => CanWrite(i, s))
  BY <1>1, <1>3 DEF PushedOut
<1>4. QED BY <1>2, <1>3

LEMMA FlushedSame ==
    ASSUME CleanInv, NEW a \in Addr
    PROVE  Follows(Flushed(a).mem) /\ Alike(Flushed(a).D, Flushed(a).mem)
<1> DEFINE i == DIndex(a)
           s == WayOf(D[i], DTag(a))
<1>1. CASE Present(a)
  <2>1. DSets > 0 /\ i \in DIndexes
    BY <1>1, FieldsTyped DEF Present
  <2>2. s \in Ways
    BY <2>1, EntryGood, WayTyped DEF CleanInv, IInv, Good
  <2>3. Flushed(a) = PushedOut(i, s)
    BY <1>1 DEF Flushed
  <2> HIDE DEF i, s
  <2>4. QED BY <2>1, <2>2, <2>3, PushedOutSame
<1>2. CASE ~Present(a)
  BY <1>2, NothingFollows DEF Flushed
<1>3. QED BY <1>1, <1>2


(***************************************************************************)
(* What a step of the cache is to AbstractMemory.                          *)
(***************************************************************************)
KeptNow == [a \in Addr |-> IF a \in Backed THEN mem[a] ELSE Absent]

LEMMA SeenTyped ==
    ASSUME IInv
    PROVE  \A a \in Addr : /\ Seen(D, mem, a) \in Values \cup {Absent}
                           /\ a \in Backed => Seen(D, mem, a) \in Values
<1>1. SUFFICES ASSUME NEW a \in Addr
               PROVE  /\ Seen(D, mem, a) \in Values \cup {Absent}
                      /\ a \in Backed => Seen(D, mem, a) \in Values
  OBVIOUS
<1>2. Kept(mem, a) \in Values \cup {Absent} /\ (a \in Backed => Kept(mem, a) \in Values)
  BY DEF IInv, Kept
<1>3. CASE DSets > 0 /\ Hits(D[DIndex(a)], DTag(a))
  <2> DEFINE e == D[DIndex(a)]
             l == e.dSet[WayOf(e, DTag(a))]
  <2>1. DIndex(a) \in DIndexes /\ DWord(a) \in Words
    BY <1>3, FieldsTyped
  <2>2. l \in DSet
    BY <2>1, EntryGood, WayTyped DEF IInv, Good
  <2>3. Seen(D, mem, a) = l.line[DWord(a)]
    BY <1>3 DEF Seen, InEntry
  <2> HIDE DEF l
  <2>4. QED BY <2>1, <2>2, <2>3 DEF DSet
<1>4. CASE ~(DSets > 0 /\ Hits(D[DIndex(a)], DTag(a)))
  BY <1>2, <1>4 DEF Seen, InEntry
<1>5. QED BY <1>3, <1>4

(* What goes past the cache is seen in memory.                             *)
LEMMA PastSeen ==
    ASSUME CleanInv, NEW a \in Addr, DSets > 0 => ~Hits(D[DIndex(a)], DTag(a))
    PROVE  Seen(D, mem, a) = Kept(mem, a)
  BY DEF Seen, InEntry

LEMMA KeptTyped == IInv' => KeptNow' \in Memory!Contents
  BY DEF IInv, KeptNow, Memory!Contents, Memory!Addr, Addr

LEMMA KeepsStep ==
    ASSUME IInv, IInv', NEW b \in Addr,
           b \in Backed => mem'[b] = mem[b] \/ mem'[b] = Seen(D, mem, b)
    PROVE  Memory!Keeps(b)
<1>1. ram[b] = Seen(D, mem, b)
  BY RamIsSeen
<1>2. CASE b \in Backed
  <2>1. mem[b] \in Values
    BY <1>2 DEF IInv
  <2>2. mem[b] # Absent
    BY <2>1, DataCacheAssumption
  <2>3. KeptNow[b] = mem[b] /\ KeptNow'[b] = mem'[b]
    BY <1>2 DEF KeptNow
  <2> HIDE DEF ram
  <2>4. QED BY <1>1, <1>2, <2>2, <2>3 DEF Memory!Keeps, KeptNow
<1>3. CASE b \notin Backed
  BY <1>3 DEF Memory!Keeps
<1>4. QED BY <1>2, <1>3

LEMMA WriteBackStep ==
    ASSUME IInv, IInv', Follows(mem'), Alike(D', mem'), op' = NoOp
    PROVE  Memory!WriteBack
<1>1. ram' = ram
  BY RamIsSeen DEF Alike
<1>2. \A b \in Addr : Memory!Keeps(b)
  BY KeepsStep DEF Follows
<1>3. KeptNow' \in Memory!Contents
  BY KeptTyped
<1>4. QED BY <1>1, <1>2, <1>3 DEF Memory!WriteBack, Memory!NoOp, NoOp, KeptNow, Memory!Addr, Addr


LEMMA LoadStep ==
    ASSUME IInv, IInv', Follows(mem'), Alike(D', mem'), NEW a \in Addr,
           Seen(D, mem, a) # Absent, op' = Load(a, Seen(D, mem, a))
    PROVE  Memory!LoadWord(a)
<1>1. ram' = ram /\ ram[a] = Seen(D, mem, a)
  BY RamIsSeen DEF Alike
<1>2. \A b \in Addr : Memory!Keeps(b)
  BY KeepsStep DEF Follows
<1>3. KeptNow' \in Memory!Contents
  BY KeptTyped
<1> HIDE DEF ram
<1>4. QED BY <1>1, <1>2, <1>3
          DEF Memory!LoadWord, Memory!Load, Load, KeptNow, Memory!Addr, Addr

LEMMA StoreStep ==
    ASSUME IInv, IInv', NEW a \in Addr, NEW v, Seen(D, mem, a) # Absent,
           \A b \in Addr : Seen(D', mem', b) = IF b = a THEN v ELSE Seen(D, mem, b),
           \A b \in Backed : mem'[b] = mem[b] \/ mem'[b] = Seen(D, mem, b)
                               \/ (b = a /\ mem'[b] = v),
           op' = Store(a, v)
    PROVE  Memory!StoreWord(a, v)
<1>1. ram = [b \in Addr |-> Seen(D, mem, b)] /\ ram' = [b \in Addr |-> Seen(D', mem', b)]
  BY RamIsSeen
<1>2. ram[a] = Seen(D, mem, a) /\ ram' = [ram EXCEPT ![a] = v]
  BY <1>1
<1>3. ASSUME NEW b \in Addr
      PROVE  Memory!Keeps(b) \/ (b = a /\ KeptNow'[b] = v)
  <2>1. CASE b \in Backed /\ b = a /\ mem'[b] = v
    BY <2>1 DEF KeptNow
  <2>2. CASE ~(b \in Backed /\ b = a /\ mem'[b] = v)
    BY <2>2, KeepsStep
  <2>3. QED BY <2>1, <2>2
<1>4. KeptNow' \in Memory!Contents
  BY KeptTyped
<1> HIDE DEF ram
<1>5. QED BY <1>2, <1>3, <1>4
          DEF Memory!StoreWord, Memory!Store, Store, KeptNow, Memory!Addr, Addr

LEMMA ZeroStep ==
    ASSUME IInv, IInv', Follows(mem'), NEW a \in Addr,
           \A b \in Addr : Seen(D', mem', b)
               = IF b \div LineWords = a \div LineWords THEN 0 ELSE Seen(D, mem, b),
           op' = Zero(a)
    PROVE  Memory!ZeroLine(a)
<1>1. ram = [b \in Addr |-> Seen(D, mem, b)] /\ ram' = [b \in Addr |-> Seen(D', mem', b)]
  BY RamIsSeen
<1>2. ram' = [b \in Addr |-> IF b \in Memory!LineAddrs(a) THEN 0 ELSE ram[b]]
  BY <1>1 DEF Memory!LineAddrs, Memory!Addr, Addr
<1>3. \A b \in Addr : Memory!Keeps(b)
  BY KeepsStep DEF Follows
<1>4. KeptNow' \in Memory!Contents
  BY KeptTyped
<1> HIDE DEF ram
<1>5. QED BY <1>2, <1>3, <1>4
          DEF Memory!ZeroLine, Memory!Zero, Zero, KeptNow, Memory!Addr, Addr

LEMMA DiscardStep ==
    ASSUME NEW a \in Addr, mem' = mem,
           \A b \in Addr : Seen(D', mem', b)
               = IF b \div LineWords = a \div LineWords THEN Kept(mem, b)
                 ELSE Seen(D, mem, b),
           op' = Discard(a)
    PROVE  Memory!DiscardLine(a)
<1>1. ram = [b \in Addr |-> Seen(D, mem, b)] /\ ram' = [b \in Addr |-> Seen(D', mem', b)]
  BY RamIsSeen
<1>2. ram' = [b \in Addr |-> IF b \in Memory!LineAddrs(a) THEN KeptNow[b] ELSE ram[b]]
  BY <1>1 DEF Memory!LineAddrs, Memory!Addr, Addr, KeptNow, Kept
<1>3. KeptNow' = KeptNow
  BY DEF KeptNow
<1> HIDE DEF ram
<1>4. QED BY <1>2, <1>3
          DEF Memory!DiscardLine, Memory!Discard, Discard, KeptNow, Memory!Addr, Addr


(***************************************************************************)
(* One lemma per operation.                                                *)
(***************************************************************************)
LEMMA SameLine ==
    ASSUME DSets > 0, NEW a \in Addr, NEW b \in Addr
    PROVE  b \div LineWords = a \div LineWords
             <=> DTag(b) = DTag(a) /\ DIndex(b) = DIndex(a)
  BY AddressOfFields DEF DTag, DIndex

(* A store past the cache: a is in neither way of d, n is m but for a.      *)
Away(d, a) == DSets > 0 => ~Hits(d[DIndex(a)], DTag(a))
StoredAt(n, m, a, v) == \A x \in Backed : n[x] = IF x = a THEN v ELSE m[x]

LEMMA PastStore ==
    ASSUME NEW d, NEW m, NEW a \in Backed, NEW v, Away(d, a),
           NEW n, StoredAt(n, m, a, v), NEW b \in Addr
    PROVE  Seen(d, n, b) = IF b = a THEN v ELSE Seen(d, m, b)
<1>1. Kept(n, b) = IF b = a THEN v ELSE Kept(m, b)
  BY DEF Kept, StoredAt
<1>2. CASE b = a
  BY <1>1, <1>2 DEF Seen, InEntry, Away
<1>3. CASE b # a
  BY <1>1, <1>3 DEF Seen, InEntry
<1>4. QED BY <1>2, <1>3

(* A lookup that succeeds finds what the program sees.                     *)
LEMMA SelectSeen ==
    ASSUME CleanInv, DSets > 0, NEW a \in Addr, dCacheSelect(a).ok
    PROVE  LET r == dCacheSelect(a)
           IN  /\ Seen(D, mem, a) = r.entry.dSet[r.set].line[DWord(a)]
               /\ Seen(D, mem, a) # Absent
<1> DEFINE r == dCacheSelect(a)
           i == DIndex(a)
           f == r.entry
<1>1. CacheOK(D) /\ IInv
  BY DEF CleanInv, IInv
<1>2. i \in DIndexes /\ Good(f) /\ Holds(f.dSet[r.set], DTag(a)) /\ r.set \in Ways
  BY <1>1, LookupGood DEF Result
<1>3. Seen(Replaced(i, f), r.mem, a) = Seen(D, mem, a)
  BY SelectSame DEF Alike
<1> HIDE DEF r
<1>4. Seen(Replaced(i, f), r.mem, a)
        = IF DIndex(a) = i THEN InEntry(f, r.mem, a) ELSE Seen(D, r.mem, a)
  BY <1>1, <1>2, ReplaceSeen
<1>5. InEntry(f, r.mem, a) = f.dSet[r.set].line[DWord(a)]
  BY <1>2, HeldSeen
<1>6. f.dSet[r.set].line[DWord(a)] \in Values
  <2>1. f.dSet[r.set] \in DSet
    BY <1>2 DEF Good, DEntry
  <2> HIDE DEF f
  <2>2. QED BY <2>1, FieldsTyped DEF DSet
<1>7. QED BY <1>3, <1>4, <1>5, <1>6, DataCacheAssumption DEF r

LEMMA ReadRefines ==
    ASSUME CleanInv, IInv', NEW a \in Addr, NEW dribble, javaMemRead(a, dribble)
    PROVE  Memory!WriteBack \/ Memory!LoadWord(a)
<1>1. IInv
  BY DEF CleanInv
<1>2. CASE Cached(a)
  <2> DEFINE r == dCacheSelect(a)
  <2>1. DSets > 0 /\ Enter(a, r)
    BY <1>2 DEF Cached, javaMemRead
  <2>2. Follows(r.mem) /\ Alike(Replaced(DIndex(a), r.entry), r.mem)
    BY <2>1, SelectSame
  <2>3. mem' = r.mem /\ D' = Replaced(DIndex(a), r.entry)
    BY <2>1 DEF Enter, Replaced
  <2>4. Follows(mem') /\ Alike(D', mem')
    BY <2>2, <2>3
  <2>5. CASE r.ok
    <3>1. op' = Load(a, r.entry.dSet[r.set].line[DWord(a)])
      BY <1>2, <2>5 DEF javaMemRead
    <3>2. op' = Load(a, Seen(D, mem, a)) /\ Seen(D, mem, a) # Absent
      BY <2>1, <2>5, <3>1, SelectSeen
    <3>3. QED BY <1>1, <2>4, <3>2, LoadStep
  <2>6. CASE ~r.ok
    <3>1. op' = NoOp
      BY <1>2, <2>6 DEF javaMemRead
    <3>2. QED BY <1>1, <2>4, <3>1, WriteBackStep
  <2>7. QED BY <2>5, <2>6
<1>3. CASE ~Cached(a)
  <2>1. UNCHANGED <<mem, D>>
    BY <1>3 DEF javaMemRead
  <2>2. Follows(mem') /\ Alike(D', mem')
    BY <2>1, NothingFollows
  <2>3. CASE a \in Backed
    <3>1. op' = Load(a, mem[a])
      BY <1>3, <2>3 DEF javaMemRead
    <3>2. Seen(D, mem, a) = mem[a]
      BY <1>3, <2>3, UncachedIsAway, PastSeen DEF Kept
    <3>3. mem[a] \in Values
      BY <1>1, <2>3 DEF IInv
    <3>4. QED BY <1>1, <2>2, <3>1, <3>2, <3>3, LoadStep, DataCacheAssumption
  <2>4. CASE a \notin Backed
    <3>1. op' = NoOp
      BY <1>3, <2>4 DEF javaMemRead
    <3>2. QED BY <1>1, <2>2, <3>1, WriteBackStep
  <2>5. QED BY <2>3, <2>4
<1>4. QED BY <1>2, <1>3

LEMMA MemoryWriteRefines ==
    ASSUME CleanInv, IInv', NEW a \in Addr, NEW v, cmMemoryWrite(a, v),
           DSets > 0 => ~Hits(D[DIndex(a)], DTag(a))
    PROVE  Memory!WriteBack \/ Memory!StoreWord(a, v)
<1>1. IInv /\ mem \in [Backed -> Values]
  BY DEF CleanInv, IInv
<1>2. CASE a \in Backed
  <2>1. mem' = [mem EXCEPT ![a] = v] /\ D' = D /\ op' = Store(a, v)
    BY <1>2 DEF cmMemoryWrite
  <2>2. ASSUME NEW b \in Addr
        PROVE  Seen(D', mem', b) = IF b = a THEN v ELSE Seen(D, mem, b)
    <3>1. StoredAt(mem', mem, a, v)
      BY <1>1, <2>1 DEF StoredAt
    <3>2. Away(D, a)
      BY DEF Away
    <3>3. Seen(D, mem', b) = IF b = a THEN v ELSE Seen(D, mem, b)
      BY <1>2, <3>1, <3>2, PastStore
    <3>4. QED BY <2>1, <3>3
  <2>3. Seen(D, mem, a) = mem[a]
    BY <1>2, PastSeen DEF Kept
  <2>4. Seen(D, mem, a) # Absent
    BY <1>1, <1>2, <2>3, DataCacheAssumption
  <2>5. \A b \in Backed : mem'[b] = mem[b] \/ (b = a /\ mem'[b] = v)
    BY <1>1, <2>1
  <2>6. QED BY <1>1, <2>1, <2>2, <2>4, <2>5, StoreStep
<1>3. CASE a \notin Backed
  <2>1. mem' = mem /\ D' = D /\ op' = NoOp
    BY <1>3 DEF cmMemoryWrite
  <2>2. QED BY <1>1, <2>1, NothingFollows, WriteBackStep
<1>4. QED BY <1>2, <1>3


(* A store into the way of the cache that holds the line.                  *)
LEMMA StoreInto ==
    ASSUME CleanInv, DSets > 0, NEW a \in Addr, NEW v \in Values, NEW f, Good(f),
           NEW s \in Ways, Holds(f.dSet[s], DTag(a)), NEW m,
           Alike(Replaced(DIndex(a), f), m), NEW b \in Addr
    PROVE  Seen(Replaced(DIndex(a), StoredIn(f, s, a, v)), m, b)
             = IF b = a THEN v ELSE Seen(D, mem, b)
<1> DEFINE i == DIndex(a)
           g == StoredIn(f, s, a, v)
<1>1. IInv /\ i \in DIndexes
  BY FieldsTyped DEF CleanInv
<1>2. Seen(Replaced(i, f), m, b) = Seen(D, mem, b)
  BY DEF Alike
<1> HIDE DEF g
<1>3. CASE DIndex(b) = i
  <2>1. Seen(Replaced(i, g), m, b) = InEntry(g, m, b)
    BY <1>1, <1>3, ReplaceSeen
  <2>2. Seen(Replaced(i, f), m, b) = InEntry(f, m, b)
    BY <1>1, <1>3, ReplaceSeen
  <2>3. InEntry(g, m, b) = IF b = a THEN v ELSE InEntry(f, m, b)
    BY <1>3, StoredSeen DEF g
  <2>4. QED BY <1>2, <2>1, <2>2, <2>3 DEF g
<1>4. CASE DIndex(b) # i
  <2>1. Seen(Replaced(i, g), m, b) = Seen(D, m, b)
    BY <1>1, <1>4, ReplaceSeen
  <2>2. Seen(Replaced(i, f), m, b) = Seen(D, m, b)
    BY <1>1, <1>4, ReplaceSeen
  <2>3. b # a
    BY <1>4
  <2>4. QED BY <1>2, <2>1, <2>2, <2>3 DEF g
<1>5. QED BY <1>3, <1>4

LEMMA CacheWriteRefines ==
    ASSUME CleanInv, IInv', NEW a \in Addr, Cached(a), NEW v \in Values, dCacheWrite(a, v)
    PROVE  Memory!WriteBack \/ Memory!StoreWord(a, v)
<1> DEFINE r == dCacheSelect(a)
           f == StoredIn(r.entry, r.set, a, v)
<1>1. DSets > 0 /\ IInv
  BY DEF Cached, CleanInv
<1>2. Follows(r.mem) /\ Alike(Replaced(DIndex(a), r.entry), r.mem)
  BY <1>1, SelectSame
<1>3. r \in Result
  BY <1>1, LookupGood
<1>4. CASE r.ok
  <2>1. Enter(a, [r EXCEPT !.entry = f]) /\ op' = Store(a, v)
    BY <1>4 DEF dCacheWrite
  <2>2. Good(r.entry) /\ r.set \in Ways /\ Holds(r.entry.dSet[r.set], DTag(a))
    BY <1>1, <1>3, <1>4, LookupGood DEF Result
  <2>3. Seen(D, mem, a) # Absent
    BY <1>1, <1>4, SelectSeen
  <2> HIDE DEF r
  <2>4. [r EXCEPT !.entry = f].entry = f /\ [r EXCEPT !.entry = f].mem = r.mem
    <3> HIDE DEF f
    <3>1. QED BY <1>3 DEF Result
  <2>5. D' = Replaced(DIndex(a), f) /\ mem' = r.mem
    BY <2>1, <2>4 DEF Enter, Replaced
  <2>6. ASSUME NEW b \in Addr
        PROVE  Seen(D', mem', b) = IF b = a THEN v ELSE Seen(D, mem, b)
    <3>1. Seen(Replaced(DIndex(a), f), r.mem, b) = IF b = a THEN v ELSE Seen(D, mem, b)
      BY <1>1, <1>2, <2>2, StoreInto
    <3>2. QED BY <2>5, <3>1
  <2>7. \A b \in Backed : mem'[b] = mem[b] \/ mem'[b] = Seen(D, mem, b)
    BY <1>2, <2>5 DEF Follows
  <2>8. QED BY <1>1, <2>1, <2>3, <2>6, <2>7, StoreStep
<1>5. CASE ~r.ok
  <2>1. Enter(a, r) /\ op' = NoOp
    BY <1>5 DEF dCacheWrite
  <2>2. D' = Replaced(DIndex(a), r.entry) /\ mem' = r.mem
    BY <2>1 DEF Enter, Replaced
  <2> HIDE DEF r
  <2>3. QED BY <1>1, <1>2, <2>1, <2>2, WriteBackStep
<1>6. QED BY <1>4, <1>5

LEMMA NAWriteRefines ==
    ASSUME CleanInv, IInv', NEW a \in Addr, Cached(a), NEW v \in Values, dCacheNAWrite(a, v)
    PROVE  Memory!WriteBack \/ Memory!StoreWord(a, v)
<1> DEFINE i == DIndex(a)
           e == D[i]
           s == WayOf(e, DTag(a))
<1>1. CASE Hits(e, DTag(a))
  <2>1. DSets > 0 /\ IInv /\ i \in DIndexes /\ CacheOK(D)
    BY FieldsTyped DEF Cached, CleanInv, IInv
  <2>2. Good(e) /\ s \in Ways /\ e.dSet[s] \in DSet /\ Holds(e.dSet[s], DTag(a))
    BY <1>1, <2>1, EntryGood, WayTyped DEF Good
  <2>3. D' = Replaced(i, StoredIn(e, s, a, v)) /\ mem' = mem /\ op' = Store(a, v)
    BY <1>1 DEF dCacheNAWrite, Replaced
  <2>4. Replaced(i, e) = D
    BY <2>1 DEF CacheOK, Replaced
  <2>5. Seen(D, mem, a) = e.dSet[s].line[DWord(a)]
    BY <1>1, <2>1 DEF Seen, InEntry
  <2>6. e.dSet[s].line[DWord(a)] \in Values
    <3> HIDE DEF e, s
    <3>1. QED BY <2>1, <2>2, FieldsTyped DEF DSet
  <2>7. Alike(Replaced(i, e), mem)
    BY <2>4, NothingFollows
  <2> HIDE DEF e, s
  <2>8. ASSUME NEW b \in Addr
        PROVE  Seen(D', mem', b) = IF b = a THEN v ELSE Seen(D, mem, b)
    <3>1. Seen(Replaced(i, StoredIn(e, s, a, v)), mem, b)
            = IF b = a THEN v ELSE Seen(D, mem, b)
      BY <2>1, <2>2, <2>7, StoreInto
    <3>2. QED BY <2>3, <3>1
  <2>9. Seen(D, mem, a) # Absent
    BY <2>5, <2>6, DataCacheAssumption
  <2>10. QED BY <2>1, <2>3, <2>8, <2>9, StoreStep
<1>2. CASE ~Hits(e, DTag(a))
  BY <1>2, MemoryWriteRefines DEF dCacheNAWrite
<1>3. QED BY <1>1, <1>2

LEMMA WriteRefines ==
    ASSUME CleanInv, IInv', NEW a \in Addr, NEW v \in Values, javaMemWrite(a, v)
    PROVE  Memory!WriteBack \/ Memory!StoreWord(a, v)
<1>1. CASE op' = NoOp /\ UNCHANGED dvars
  <2>1. IInv /\ mem' = mem /\ D' = D
    BY <1>1 DEF dvars, CleanInv
  <2>2. Follows(mem') /\ Alike(D', mem')
    BY <2>1, NothingFollows
  <2>3. QED BY <1>1, <2>1, <2>2, WriteBackStep
<1>2. CASE Cached(a) /\ dCacheWrite(a, v)
  BY <1>2, CacheWriteRefines
<1>3. CASE Cached(a) /\ dCacheNAWrite(a, v)
  BY <1>3, NAWriteRefines
<1>4. CASE ~Cached(a) /\ cmMemoryWrite(a, v)
  BY <1>4, UncachedIsAway, MemoryWriteRefines
<1>5. QED BY <1>1, <1>2, <1>3, <1>4 DEF javaMemWrite

(* If way s holds a tag, the other does not.                               *)
LEMMA OnlyWay ==
    ASSUME NEW e, Good(e), NEW s \in Ways, NEW t, Holds(e.dSet[s], t)
    PROVE  ~Holds(e.dSet[1 - s], t)
<1>1. s = 0 \/ s = 1
  BY DEF Ways
<1>2. CASE s = 0
  <2>1. 1 - s = 1
    BY <1>2
  <2>2. QED BY <1>2, <2>1 DEF Good, Distinct, Holds
<1>3. CASE s = 1
  <2>1. 1 - s = 0
    BY <1>3
  <2>2. QED BY <1>3, <2>1 DEF Good, Distinct, Holds
<1>4. QED BY <1>1, <1>2, <1>3

LEMMA FlushRefines ==
    ASSUME CleanInv, IInv', NEW a \in Addr, cacheFlush(a)
    PROVE  Memory!WriteBack
  BY FlushedSame, WriteBackStep DEF cacheFlush, CleanInv

LEMMA IndexFlushRefines ==
    ASSUME CleanInv, IInv', NEW a \in Addr, NEW s \in Ways, cacheIndexFlush(a, s)
    PROVE  Memory!WriteBack
<1>1. IInv
  BY DEF CleanInv
<1>2. CASE dce /\ DSets > 0
  <2>1. mem' = PushedOut(DIndex(a), s).mem /\ D' = PushedOut(DIndex(a), s).D /\ op' = NoOp
    BY <1>2 DEF cacheIndexFlush
  <2>2. DIndex(a) \in DIndexes
    BY <1>2, FieldsTyped
  <2>3. QED BY <1>1, <2>1, <2>2, PushedOutSame, WriteBackStep
<1>3. CASE ~(dce /\ DSets > 0)
  <2>1. mem' = mem /\ D' = D /\ op' = NoOp
    BY <1>3 DEF cacheIndexFlush
  <2>2. QED BY <1>1, <2>1, NothingFollows, WriteBackStep
<1>4. QED BY <1>2, <1>3

(* A word no way of its set holds is seen in memory.                       *)
LEMMA AbsentSeen ==
    ASSUME CleanInv, NEW a \in Addr, ~Present(a), NEW b \in Addr,
           b \div LineWords = a \div LineWords
    PROVE  Seen(D, mem, b) = Kept(mem, b)
<1>1. CASE DSets > 0
  <2>1. DTag(b) = DTag(a) /\ DIndex(b) = DIndex(a) /\ DIndex(a) \in DIndexes
    BY <1>1, SameLine, FieldsTyped
  <2>2. ASSUME NEW s \in Ways, Holds(D[DIndex(a)].dSet[s], DTag(a)) PROVE FALSE
    <3>1. dce
      BY <2>1, <2>2 DEF CleanInv, SoundCache, SoundEntry, Sound, Holds
    <3>2. QED BY <1>1, <2>2, <3>1 DEF Present, Hits
  <2>3. QED BY <1>1, <2>1, <2>2, AwaySeen DEF Seen
<1>2. CASE ~(DSets > 0)
  BY <1>2 DEF Seen
<1>3. QED BY <1>1, <1>2

LEMMA InvalidateRefines ==
    ASSUME CleanInv, NEW a \in Addr, cacheInvalidate(a)
    PROVE  Memory!DiscardLine(a)
<1> DEFINE i == DIndex(a)
           e == D[i]
           s == WayOf(e, DTag(a))
           l == [e.dSet[s] EXCEPT !.valid = FALSE]
           f == PutLine(e, s, l, s)
<1>1. mem' = mem /\ op' = Discard(a)
  BY DEF cacheInvalidate
<1>2. CASE Present(a)
  <2>1. DSets > 0 /\ i \in DIndexes /\ IInv
    BY <1>2, FieldsTyped DEF Present, CleanInv
  <2>2. Good(e) /\ s \in Ways /\ e.dSet[s] \in DSet /\ Holds(e.dSet[s], DTag(a))
    BY <1>2, <2>1, EntryGood, WayTyped DEF Present, IInv, Good
  <2>3. l \in DSet /\ ~l.valid
    BY <2>2 DEF DSet
  <2>4. D' = Replaced(i, f)
    BY <1>2 DEF cacheInvalidate, Invalidated, Replaced
  <2> HIDE DEF l
  <2>5. Good(f) /\ ~Holds(l, DTag(a))
    BY <2>2, <2>3, DropGood DEF Holds
  <2>6. e.dSet \in [Ways -> DSet] /\ Ways = {s, 1 - s} /\ s # 1 - s
    BY <2>2, OtherWay DEF Good, DEntry
  <2>7. \A q \in Ways : ~Holds(f.dSet[q], DTag(a))
    <3>1. ~Holds(e.dSet[1 - s], DTag(a))
      BY <2>2, OnlyWay
    <3>2. f.dSet[s] = l /\ f.dSet[1 - s] = e.dSet[1 - s]
      <4> HIDE DEF e, s
      <4>1. QED BY <2>6 DEF PutLine
    <3> HIDE DEF e, s, f
    <3>3. QED BY <2>5, <2>6, <3>1, <3>2
  <2> HIDE DEF f
  <2>8. ASSUME NEW b \in Addr
        PROVE  Seen(D', mem', b)
                 = IF b \div LineWords = a \div LineWords THEN Kept(mem, b)
                   ELSE Seen(D, mem, b)
    <3>1. Seen(Replaced(i, f), mem, b)
            = IF DIndex(b) = i THEN InEntry(f, mem, b) ELSE Seen(D, mem, b)
      BY <2>1, ReplaceSeen
    <3>2. CASE b \div LineWords = a \div LineWords
      <4>1. DTag(b) = DTag(a) /\ DIndex(b) = i
        BY <2>1, <3>2, SameLine
      <4>2. InEntry(f, mem, b) = Kept(mem, b)
        BY <2>7, <4>1, AwaySeen
      <4>3. QED BY <1>1, <2>4, <3>1, <3>2, <4>1, <4>2
    <3>3. CASE b \div LineWords # a \div LineWords
      <4>1. DIndex(b) = i => DTag(b) # DTag(a)
        BY <2>1, <3>3, SameLine
      <4>2. ASSUME DIndex(b) = i PROVE InEntry(f, mem, b) = InEntry(e, mem, b)
        <5>1. ~Holds(l, DTag(b)) /\ ~Holds(e.dSet[s], DTag(b))
          BY <2>2, <2>3, <4>1, <4>2 DEF Holds
        <5> HIDE DEF e, s
        <5>2. QED BY <2>2, <2>5, <5>1, PutSeen DEF f
      <4>3. DIndex(b) = i => Seen(D, mem, b) = InEntry(e, mem, b)
        BY <2>1 DEF Seen
      <4>4. QED BY <1>1, <2>4, <3>1, <3>3, <4>2, <4>3
    <3>4. QED BY <3>2, <3>3
  <2>9. QED BY <1>1, <2>8, DiscardStep
<1>3. CASE ~Present(a)
  <2>1. D' = D
    BY <1>3 DEF cacheInvalidate
  <2>2. \A b \in Addr : Seen(D', mem', b)
            = IF b \div LineWords = a \div LineWords THEN Kept(mem, b)
              ELSE Seen(D, mem, b)
    BY <1>1, <1>3, <2>1, AbsentSeen
  <2>3. QED BY <1>1, <2>2, DiscardStep
<1>4. QED BY <1>2, <1>3


(* The line that comes in is zero, what goes out is in memory.             *)
LEMMA ZeroedSeen ==
    ASSUME CleanInv, DSets > 0, NEW a \in Addr, NEW s \in Ways,
           LET e == D[DIndex(a)]
           IN  \/ Holds(e.dSet[s], DTag(a))
               \/ /\ e.dSet[s].valid => InMemory(e.dSet[s], DIndex(a), mem')
           , Alike(D, mem'),
           D' = Replaced(DIndex(a), ZeroedEntry(D[DIndex(a)], s, a)), CacheOK(D'),
           NEW b \in Addr
    PROVE  Seen(D', mem', b)
             = IF b \div LineWords = a \div LineWords THEN 0 ELSE Seen(D, mem, b)
<1> DEFINE i == DIndex(a)
           e == D[i]
           l == [tag |-> DTag(a), valid |-> TRUE, dirty |-> TRUE,
                 line |-> [w \in Words |-> 0]]
           f == PutLine(e, s, l, 1 - s)
<1>1. i \in DIndexes /\ IInv /\ Good(e) /\ DWord(b) \in Words
  BY FieldsTyped, EntryGood DEF CleanInv, IInv
<1>2. D' = Replaced(i, f)
  BY DEF ZeroedEntry
<1>3. Good(f)
  <2>1. D'[i] = f
    BY <1>1, <1>2 DEF Replaced, IInv, CacheOK
  <2> HIDE DEF f
  <2>2. QED BY <1>1, <2>1, EntryGood
<1>4. /\ Holds(l, DTag(b)) <=> DTag(b) = DTag(a)
      /\ l.line[DWord(b)] = 0
  BY <1>1 DEF Holds
<1>5. \/ Holds(e.dSet[s], DTag(a))
      \/ e.dSet[s].valid => InMemory(e.dSet[s], i, mem')
  OBVIOUS
<1> HIDE DEF l, e
<1>6. Seen(D', mem', b) = IF DIndex(b) = i THEN InEntry(f, mem', b) ELSE Seen(D, mem', b)
  BY <1>1, <1>2, ReplaceSeen
<1>7. Seen(D, mem', b) = Seen(D, mem, b)
  BY DEF Alike
<1>8. CASE b \div LineWords = a \div LineWords
  <2>1. DTag(b) = DTag(a) /\ DIndex(b) = i
    BY <1>8, SameLine
  <2>2. InEntry(f, mem', b) = 0
    BY <1>1, <1>3, <1>4, <2>1, PutSeen
  <2>3. QED BY <1>6, <1>8, <2>1, <2>2
<1>9. CASE b \div LineWords # a \div LineWords
  <2>1. DIndex(b) = i => DTag(b) # DTag(a)
    BY <1>9, SameLine
  <2>2. ASSUME DIndex(b) = i PROVE InEntry(f, mem', b) = InEntry(e, mem', b)
    <3>1. ~Holds(l, DTag(b))
      BY <1>4, <2>1, <2>2
    <3>2. Holds(e.dSet[s], DTag(b)) => e.dSet[s].line[DWord(b)] = Kept(mem', b)
      BY <1>5, <2>1, <2>2, InMemoryKept DEF Holds
    <3>3. QED BY <1>1, <1>3, <3>1, <3>2, PutSeen
  <2>3. DIndex(b) = i => Seen(D, mem', b) = InEntry(e, mem', b)
    BY DEF Seen, e
  <2>4. QED BY <1>6, <1>7, <1>9, <2>2, <2>3
<1>10. QED BY <1>8, <1>9

LEMMA ZeroLineRefines ==
    ASSUME CleanInv, IInv', NEW a \in Addr, zero_line(a)
    PROVE  Memory!WriteBack \/ Memory!ZeroLine(a)
<1>1. IInv
  BY DEF CleanInv
<1>2. CASE ~(DSets > 0)
  <2>1. mem' = mem /\ D' = D /\ op' = NoOp
    BY <1>2 DEF zero_line
  <2>2. QED BY <1>1, <2>1, NothingFollows, WriteBackStep
<1>3. CASE DSets > 0
  <2> DEFINE i == DIndex(a)
             e == D[i]
             s == WayOf(e, DTag(a))
             hit == Hits(e, DTag(a))
             ok == hit \/ (MustWrite(i, s) => CanWrite(i, s))
  <2>1. /\ mem' = IF hit THEN mem ELSE Saved(i, s)
        /\ D' = IF ok THEN Replaced(i, ZeroedEntry(e, s, a)) ELSE D
        /\ op' = IF ok THEN Zero(a) ELSE NoOp
    BY <1>3 DEF zero_line, dCacheZeroLine, Replaced
  <2>2. i \in DIndexes /\ Good(e) /\ e \in DEntry
    BY <1>1, <1>3, FieldsTyped, EntryGood DEF IInv, Good
  <2>3. s \in Ways /\ (hit => Holds(e.dSet[s], DTag(a)))
    BY <2>2, WayTyped
  <2>4. CacheOK(D')
    BY DEF IInv
  <2> HIDE DEF s
  <2>5. Follows(mem') /\ Alike(D, mem')
    <3>1. CASE hit
      BY <2>1, <3>1, NothingFollows
    <3>2. CASE ~hit
      <4> HIDE DEF i, e
      <4>1. QED BY <2>1, <2>2, <2>3, <3>2, SavedSame
    <3>3. QED BY <3>1, <3>2
  <2>6. CASE ok
    <3>1. Holds(e.dSet[s], DTag(a)) \/ (e.dSet[s].valid => InMemory(e.dSet[s], i, mem'))
      <4>1. CASE hit
        BY <2>3, <4>1
      <4>2. CASE ~hit
        <5>1. mem' = Saved(i, s) /\ (MustWrite(i, s) => CanWrite(i, s))
          BY <2>1, <2>6, <4>2
        <5> HIDE DEF i
        <5>2. QED BY <2>2, <2>3, <5>1, SavedInMemory
      <4>3. QED BY <4>1, <4>2
    <3>2. D' = Replaced(i, ZeroedEntry(e, s, a)) /\ op' = Zero(a)
      BY <2>1, <2>6
    <3>3. \A b \in Addr : Seen(D', mem', b)
            = IF b \div LineWords = a \div LineWords THEN 0 ELSE Seen(D, mem, b)
      BY <1>3, <2>3, <2>4, <2>5, <3>1, <3>2, ZeroedSeen
    <3>4. QED BY <1>1, <2>5, <3>2, <3>3, ZeroStep
  <2>7. CASE ~ok
    <3>1. D' = D /\ op' = NoOp
      BY <2>1, <2>7
    <3>2. QED BY <1>1, <2>5, <3>1, WriteBackStep
  <2>8. QED BY <2>6, <2>7
<1>4. QED BY <1>2, <1>3

(* Tags are cleared while the cache is off, when it holds no valid line.   *)
LEMMA TagWriteRefines ==
    ASSUME CleanInv, IInv', NEW i \in DIndexes, NEW s \in Ways, priv_write_dcache_tag(i, s)
    PROVE  Memory!WriteBack
<1> DEFINE e == D[i]
           l == [e.dSet[s] EXCEPT !.tag = 0, !.valid = FALSE, !.dirty = FALSE]
           f == PutLine(e, s, l, 0)
<1>1. IInv /\ Good(e) /\ e.dSet[s] \in DSet /\ i \in DIndexes
  BY LineTyped DEF CleanInv
<1>2. ~l.valid /\ ~e.dSet[s].valid
  <2>1. ~l.valid
    BY <1>1 DEF DSet
  <2>2. ~e.dSet[s].valid
    BY DEF CleanInv, SoundCache, SoundEntry, Sound, priv_write_dcache_tag
  <2>3. QED BY <2>1, <2>2
<1>3. D' = Replaced(i, f) /\ mem' = mem /\ op' = NoOp
  BY DEF priv_write_dcache_tag, Replaced
<1>4. Good(f)
  <2>1. CacheOK(D') /\ D'[i] = f
    BY <1>1, <1>3 DEF Replaced, IInv, CacheOK
  <2> HIDE DEF f
  <2>2. QED BY <1>1, <2>1, EntryGood
<1> HIDE DEF e, l
<1>5. ASSUME NEW b \in Addr, DIndex(b) = i
      PROVE  InEntry(f, mem, b) = InEntry(D[i], mem, b)
  BY <1>1, <1>2, <1>4, PutSeen DEF Holds, e
<1> HIDE DEF f
<1>6. Alike(Replaced(i, f), mem)
  BY <1>1, <1>5, NothingFollows, ReplaceAlike
<1>7. QED BY <1>1, <1>3, <1>6, NothingFollows, WriteBackStep

(* The debugger's flush may write the line back and let go of it before    *)
(* the word goes to memory.                                                *)
LEMMA DebuggerRefines ==
    ASSUME CleanInv, IInv', NEW a \in Addr, NEW v, sim_write(a, v)
    PROVE  Memory!WriteBack \/ Memory!StoreWord(a, v)
<1> DEFINE d == Flushed(a).D
           m == Flushed(a).mem
<1>1. IInv /\ Follows(m) /\ Alike(d, m) /\ m \in [Backed -> Values]
  BY FlushedSame, FlushedGood DEF CleanInv
<1>2. CASE a \in Backed
  <2>1. mem' = [m EXCEPT ![a] = v] /\ D' = d /\ op' = Store(a, v)
    BY <1>2 DEF sim_write
  <2>2. Away(d, a)
    BY <1>2, FlushedIsAway DEF Away
  <2> HIDE DEF m, d
  <2>3. StoredAt(mem', m, a, v)
    BY <1>1, <2>1 DEF StoredAt
  <2>4. ASSUME NEW b \in Addr
        PROVE  Seen(D', mem', b) = IF b = a THEN v ELSE Seen(D, mem, b)
    <3>1. Seen(d, mem', b) = IF b = a THEN v ELSE Seen(d, m, b)
      BY <1>2, <2>2, <2>3, PastStore
    <3>2. QED BY <1>1, <2>1, <3>1 DEF Alike
  <2>5. \A b \in Backed : mem'[b] = mem[b] \/ mem'[b] = Seen(D, mem, b)
                            \/ (b = a /\ mem'[b] = v)
    BY <1>1, <2>3 DEF StoredAt, Follows
  <2>6. Seen(D, mem, a) # Absent
    BY <1>1, <1>2, SeenTyped, DataCacheAssumption
  <2>7. QED BY <1>1, <2>1, <2>4, <2>5, <2>6, StoreStep
<1>3. CASE a \notin Backed
  <2>1. mem' = m /\ D' = d /\ op' = NoOp
    BY <1>3 DEF sim_write
  <2>2. QED BY <1>1, <2>1, WriteBackStep
<1>4. QED BY <1>2, <1>3

(***************************************************************************)
(* The refinement.                                                         *)
(***************************************************************************)
LEMMA InitRefines == Init => Memory!Init
<1> SUFFICES ASSUME Init PROVE Memory!Init
  OBVIOUS
<1>1. IInv
  BY InitIInv
<1>2. ASSUME NEW a \in Addr PROVE Seen(D, mem, a) = Kept(mem, a)
  <2>1. CASE DSets > 0
    <3>1. \A s \in Ways : ~D[DIndex(a)].dSet[s].valid
      BY <2>1, FieldsTyped DEF Init, EmptyEntry, EmptyLine
    <3>2. QED BY <2>1, <3>1, AwaySeen DEF Holds, Seen
  <2>2. CASE ~(DSets > 0)
    BY <2>2 DEF Seen
  <2>3. QED BY <2>1, <2>2
<1>3. ram = [a \in Addr |-> Seen(D, mem, a)]
  BY RamIsSeen
<1>4. ram = KeptNow
  BY <1>2, <1>3 DEF KeptNow, Kept
<1>5. KeptNow \in Memory!Contents
  BY <1>1 DEF IInv, KeptNow, Memory!Contents, Memory!Addr, Addr
<1>6. op = NoOp
  BY DEF Init
<1> HIDE DEF ram
<1>7. QED BY <1>4, <1>5, <1>6 DEF Memory!Init, Memory!NoOp, NoOp, KeptNow, Memory!Addr, Addr

LEMMA NextRefines ==
    CleanInv /\ CleanInv' /\ [Next]_<<dvars, op>> => [Memory!Next]_<<ram, KeptNow, op>>
<1> SUFFICES ASSUME CleanInv, CleanInv', [Next]_<<dvars, op>>
             PROVE  [Memory!Next]_<<ram, KeptNow, op>>
  OBVIOUS
<1>1. IInv /\ IInv'
  BY DEF CleanInv
<1>2. Memory!Addr = Addr
  BY DEF Memory!Addr, Addr
<1>3. CASE Access
  <2>1. ASSUME NEW a \in Addr, NEW dribble \in BOOLEAN, javaMemRead(a, dribble)
        PROVE  Memory!Next
    BY <1>1, <1>2, <2>1, ReadRefines DEF Memory!Next
  <2>2. ASSUME NEW a \in Addr, NEW v \in Data(a), javaMemWrite(a, v)
        PROVE  Memory!Next
    <3>1. v \in Values
      BY DataTyped
    <3>2. QED BY <1>1, <1>2, <2>2, <3>1, WriteRefines DEF Memory!Next
  <2>3. QED BY <1>3, <2>1, <2>2 DEF Access
<1>4. CASE CheckExceptions
  <2>1. mem' = mem /\ D' = D /\ op' = NoOp
    BY <1>4 DEF CheckExceptions
  <2>2. Memory!WriteBack
    BY <1>1, <2>1, NothingFollows, WriteBackStep
  <2>3. QED BY <2>2 DEF Memory!Next
<1>5. CASE CacheInstruction
  <2>1. ASSUME NEW a \in Addr, zero_line(a) \/ cacheFlush(a) \/ cacheInvalidate(a)
        PROVE  Memory!Next
    BY <1>1, <1>2, <2>1, ZeroLineRefines, FlushRefines, InvalidateRefines DEF Memory!Next
  <2>2. ASSUME NEW a \in Addr, NEW s \in Ways, cacheIndexFlush(a, s)
        PROVE  Memory!Next
    BY <1>1, <2>2, IndexFlushRefines DEF Memory!Next
  <2>3. ASSUME NEW i \in DIndexes, NEW s \in Ways, priv_write_dcache_tag(i, s)
        PROVE  Memory!Next
    BY <1>1, <2>3, TagWriteRefines DEF Memory!Next
  <2>4. ASSUME priv_write_psr PROVE Memory!Next
    <3>1. mem' = mem /\ D' = D /\ op' = NoOp
      BY <2>4 DEF priv_write_psr
    <3>2. Memory!WriteBack
      BY <1>1, <3>1, NothingFollows, WriteBackStep
    <3>3. QED BY <3>2 DEF Memory!Next
  <2>5. QED BY <1>5, <2>1, <2>2, <2>3, <2>4 DEF CacheInstruction
<1>6. CASE Debugger
  <2>1. PICK a \in Addr : \E v \in Data(a) : sim_write(a, v)
    BY <1>6 DEF Debugger
  <2>2. PICK v \in Data(a) : sim_write(a, v)
    BY <2>1
  <2>3. v \in Values
    BY DataTyped
  <2>4. QED BY <1>1, <1>2, <2>2, <2>3, DebuggerRefines DEF Memory!Next
<1>7. CASE UNCHANGED <<dvars, op>>
  <2>1. UNCHANGED <<ram, KeptNow, op>>
    BY <1>7 DEF dvars, ram, KeptNow, debug_dCacheRead
  <2>2. QED BY <2>1
<1>8. QED BY <1>3, <1>4, <1>5, <1>6, <1>7 DEF Next

(* Whatever is looked up, evicted, refilled, flushed and failed, the data  *)
(* cache is a memory that writes back: nothing stored is lost or mixed up. *)
THEOREM MemoryRefined == Spec => ImplementsMemory
<1>1. CleanInv /\ [Next]_<<dvars, op>> => [Memory!Next]_<<ram, KeptNow, op>>
  BY NextCleanInv, NextRefines
<1>2. QED BY InitCleanInv, NextCleanInv, InitRefines, <1>1, PTL
          DEF Spec, ImplementsMemory, Memory!Spec, KeptNow


(***************************************************************************)
(* Faults.  A step that leaves an exception pending carries out no store:  *)
(* it is NoOp or a load, and those leave what the program sees alone.      *)
(***************************************************************************)
LEMMA LookingOn ==
    ASSUME NEW a \in Addr, Memory!WriteBack \/ Memory!LoadWord(a)
    PROVE  ram' = ram
<1> HIDE DEF ram
<1>1. QED BY DEF Memory!WriteBack, Memory!LoadWord

LEMMA StoreIsSeen ==
    ASSUME NEW a \in Addr, NEW v, Memory!WriteBack \/ Memory!StoreWord(a, v), op' = NoOp
    PROVE  ram' = ram
<1>1. ~Memory!StoreWord(a, v)
  BY DEF Memory!StoreWord, Memory!Store, NoOp
<1> HIDE DEF ram
<1>2. QED BY <1>1 DEF Memory!WriteBack

LEMMA FaultyWrite ==
    ASSUME NEW a \in Addr, NEW v, javaMemWrite(a, v), eid' # NO_EXCEPTION
    PROVE  op' = NoOp
<1>1. CASE eid # NO_EXCEPTION
  BY <1>1 DEF javaMemWrite
<1>2. CASE eid = NO_EXCEPTION
  <2>1. CASE cmMemoryWrite(a, v)
    BY <1>2, <2>1 DEF cmMemoryWrite
  <2>2. CASE dCacheWrite(a, v)
    <3>1. ~dCacheSelect(a).ok
      BY <1>2, <2>2 DEF dCacheWrite
    <3>2. QED BY <2>2, <3>1 DEF dCacheWrite
  <2>3. CASE dCacheNAWrite(a, v)
    <3>1. cmMemoryWrite(a, v)
      BY <1>2, <2>3 DEF dCacheNAWrite
    <3>2. QED BY <1>2, <3>1 DEF cmMemoryWrite
  <2>4. QED BY <1>2, <2>1, <2>2, <2>3 DEF javaMemWrite
<1>3. QED BY <1>1, <1>2

LEMMA FaultStep ==
    CleanInv /\ CleanInv' /\ [Next]_<<dvars, op>>
        => [eid' # NO_EXCEPTION => ram' = ram]_dvars
<1> SUFFICES ASSUME CleanInv, CleanInv', Next, eid' # NO_EXCEPTION
             PROVE  ram' = ram
  BY DEF dvars
<1>1. IInv /\ IInv'
  BY DEF CleanInv
<1>2. CASE Access
  <2>1. ASSUME NEW a \in Addr, NEW dribble \in BOOLEAN, javaMemRead(a, dribble)
        PROVE  ram' = ram
    <3>1. Memory!WriteBack \/ Memory!LoadWord(a)
      BY <1>1, <2>1, ReadRefines
    <3>2. QED BY <3>1, LookingOn
  <2>2. ASSUME NEW a \in Addr, NEW v \in Data(a), javaMemWrite(a, v)
        PROVE  ram' = ram
    <3>1. v \in Values /\ op' = NoOp
      BY <2>2, DataTyped, FaultyWrite
    <3>2. Memory!WriteBack \/ Memory!StoreWord(a, v)
      BY <1>1, <2>2, <3>1, WriteRefines
    <3>3. QED BY <3>1, <3>2, StoreIsSeen
  <2> HIDE DEF ram
  <2>3. QED BY <1>2, <2>1, <2>2 DEF Access
<1>3. CASE Debugger
  <2>1. PICK a \in Addr : \E v \in Data(a) : eid = NO_EXCEPTION /\ sim_write(a, v)
    BY <1>3 DEF Debugger
  <2>2. PICK v \in Data(a) : eid = NO_EXCEPTION /\ sim_write(a, v)
    BY <2>1
  <2>3. op' = NoOp
    BY <2>2 DEF sim_write
  <2>4. Memory!WriteBack \/ Memory!StoreWord(a, v)
    BY <1>1, <2>2, DebuggerRefines
  <2>5. QED BY <2>3, <2>4, StoreIsSeen
<1> HIDE DEF ram
<1>4. QED BY <1>2, <1>3 DEF Next, CheckExceptions, CacheInstruction

(* A failed store, write-back or refill, and whatever the instruction does *)
(* after it, leave what the program sees alone.                            *)
THEOREM FaultsChangeNothing == Spec => FaultChangesNothing
<1>1. CleanInv /\ [Next]_<<dvars, op>> => [eid' # NO_EXCEPTION => ram' = ram]_dvars
  BY NextCleanInv, FaultStep
<1>2. QED BY InitCleanInv, NextCleanInv, <1>1, PTL DEF Spec, FaultChangesNothing
=============================================================================
