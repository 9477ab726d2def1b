--------------------------- MODULE DebuggerProofs ---------------------------
(***************************************************************************)
(* Proofs about module Debugger, for any size of the table, any ignore     *)
(* counts, any addresses and any program: the type invariant, that the     *)
(* count of enabled breakpoints is right, and, resting on both, that no    *)
(* instruction is executed past a code or a data breakpoint.               *)
(***************************************************************************)
EXTENDS Debugger, FiniteSetTheorems, TLAPS

\* What the commands and the matches leave of a table: entries are where they
\* were, for the same accesses, and enabled as before; only the ignore counts differ.
SameButIgnored(t, u) ==
    /\ u \in Seq(Entry) /\ Len(u) = Len(t) /\ DOMAIN u = DOMAIN t
    /\ \A i \in DOMAIN t : /\ u[i].addr = t[i].addr
                           /\ u[i].kind = t[i].kind
                           /\ u[i].enabled = t[i].enabled

-----------------------------------------------------------------------------
(* Tables and their entries. *)

LEMMA EntryFields ==
    ASSUME NEW t \in Seq(Entry), NEW i \in DOMAIN t
    PROVE  /\ i \in Nat /\ i \in 1..Len(t)
           /\ t[i] \in Entry
           /\ t[i].addr \in Addrs /\ t[i].kind \in Kinds
           /\ t[i].enabled \in BOOLEAN /\ t[i].ignore \in 0..MaxIgnore
<1>1. t[i] \in Entry /\ i \in 1..Len(t)
  OBVIOUS
<1>2. QED BY <1>1 DEF Entry

(* A function over the places of a table is a table. *)
LEMMA TableOf ==
    ASSUME NEW t \in Seq(Entry), NEW u, DOMAIN u = DOMAIN t,
           u = [i \in DOMAIN t |-> u[i]], \A i \in DOMAIN t : u[i] \in Entry
    PROVE  u \in Seq(Entry) /\ Len(u) = Len(t)
<1>1. DOMAIN t = 1..Len(t) /\ Len(t) \in Nat
  OBVIOUS
<1>2. u \in [1..Len(t) -> Entry]
  BY <1>1
<1>3. u \in Seq(Entry)
  BY <1>1, <1>2
<1>4. QED BY <1>1, <1>3

LEMMA IgnoreEdited ==
    ASSUME NEW e \in Entry, NEW n \in 0..MaxIgnore
    PROVE  LET f == [e EXCEPT !.ignore = n]
           IN  /\ f \in Entry /\ f.addr = e.addr /\ f.kind = e.kind
               /\ f.enabled = e.enabled /\ f.ignore = n
  BY DEF Entry

LEMMA EnabledEdited ==
    ASSUME NEW e \in Entry, NEW b \in BOOLEAN
    PROVE  LET f == [e EXCEPT !.enabled = b]
           IN  /\ f \in Entry /\ f.addr = e.addr /\ f.kind = e.kind
               /\ f.enabled = b /\ f.ignore = e.ignore
  BY DEF Entry

LEMMA EnabledFinite ==
    ASSUME NEW t \in Seq(Entry)
    PROVE  /\ IsFiniteSet(DOMAIN t) /\ IsFiniteSet(Enabled(t))
           /\ Cardinality(Enabled(t)) \in Nat
<1>1. DOMAIN t = 1..Len(t) /\ Len(t) \in Nat
  OBVIOUS
<1>2. IsFiniteSet(DOMAIN t)
  BY <1>1, FS_Interval
<1>3. Enabled(t) \in SUBSET DOMAIN t
  BY DEF Enabled
<1>4. IsFiniteSet(Enabled(t))
  BY <1>2, <1>3, FS_Subset
<1>5. QED BY <1>2, <1>4, FS_CardinalityType

LEMMA SameEnabled ==
    ASSUME NEW t \in Seq(Entry), NEW u, SameButIgnored(t, u)
    PROVE  Enabled(u) = Enabled(t)
  BY DEF SameButIgnored, Enabled

LEMMA SameSelf ==
    ASSUME NEW t \in Seq(Entry)
    PROVE  SameButIgnored(t, t)
  BY DEF SameButIgnored

LEMMA SameSame ==
    ASSUME NEW t \in Seq(Entry), NEW u, NEW v,
           SameButIgnored(t, u), SameButIgnored(u, v)
    PROVE  SameButIgnored(t, v)
  BY DEF SameButIgnored

-----------------------------------------------------------------------------
(* Counting down ignores no entry that is not to be ignored. *)
LEMMA CountedDownTable ==
    ASSUME NEW t \in Seq(Entry), NEW ids,
           \A i \in ids : i \in DOMAIN t => t[i].ignore # 0
    PROVE  /\ SameButIgnored(t, CountedDown(t, ids))
           /\ \A i \in DOMAIN t : i \notin ids => CountedDown(t, ids)[i] = t[i]
<1> DEFINE F(i) == IF i \in ids THEN [t[i] EXCEPT !.ignore = @ - 1] ELSE t[i]
           u == CountedDown(t, ids)
<1>1. u = [i \in DOMAIN t |-> F(i)]
  BY DEF CountedDown
<1>2. ASSUME NEW i \in DOMAIN t
      PROVE  /\ F(i) \in Entry /\ F(i).addr = t[i].addr /\ F(i).kind = t[i].kind
             /\ F(i).enabled = t[i].enabled
             /\ i \notin ids => F(i) = t[i]
  <2>1. t[i] \in Entry /\ t[i].ignore \in 0..MaxIgnore
    BY EntryFields
  <2>2. CASE i \notin ids
    BY <2>1, <2>2
  <2>3. CASE i \in ids
    <3>1. t[i].ignore - 1 \in 0..MaxIgnore
      BY <2>1, <2>3, DebuggerAssumption
    <3>2. QED BY <2>1, <2>3, <3>1, IgnoreEdited
  <2>4. QED BY <2>2, <2>3
<1> HIDE DEF F
<1>3. DOMAIN u = DOMAIN t /\ \A i \in DOMAIN t : u[i] = F(i)
  BY <1>1
<1>4. u \in Seq(Entry) /\ Len(u) = Len(t)
  BY <1>1, <1>2, <1>3, TableOf
<1>5. QED BY <1>2, <1>3, <1>4 DEF SameButIgnored

(* brkpt_match changes ignore counts of matching entries only, and finds a  *)
(* breakpoint exactly when one matches that is not to be ignored.           *)
LEMMA MatchTable ==
    ASSUME NEW t \in Seq(Entry), NEW count, NEW addr, NEW size, NEW kind
    PROVE  LET m == brkpt_match(t, count, addr, size, kind)
           IN  /\ SameButIgnored(t, m.table)
               /\ \A i \in DOMAIN t : t[i].kind # kind => m.table[i] = t[i]
               /\ m.found <=> /\ count # 0
                              /\ \E i \in Matching(t, addr, size, kind) : t[i].ignore = 0
<1> DEFINE all   == Matching(t, addr, size, kind)
           ready == {i \in all : t[i].ignore = 0}
           past  == {i \in all : \A j \in ready : i < j}
           m     == brkpt_match(t, count, addr, size, kind)
<1>1. CASE count = 0
  <2>1. m = [found |-> FALSE, table |-> t]
    BY <1>1 DEF brkpt_match
  <2>2. QED BY <1>1, <2>1, SameSelf
<1>2. CASE count # 0
  <2>1. m = [found |-> ready # {}, table |-> CountedDown(t, past)]
    BY <1>2 DEF brkpt_match
  <2>2. m.table = CountedDown(t, past) /\ (m.found <=> ready # {})
    <3> HIDE DEF m, past, ready
    <3>1. m.table = CountedDown(t, past)
      BY <2>1
    <3>2. m.found = (ready # {})
      BY <2>1, Zenon
    <3>3. QED BY <3>1, <3>2
  <2>3. \A i \in past : i \in DOMAIN t /\ t[i].ignore # 0 /\ t[i].kind = kind
    <3>1. ASSUME NEW i \in past
          PROVE  i \in DOMAIN t /\ t[i].kind = kind /\ i \in Nat
      BY <3>1, EntryFields DEF Matching, Enabled
    <3>2. ASSUME NEW i \in past, t[i].ignore = 0 PROVE FALSE
      <4>1. i \in ready
        BY <3>2
      <4>2. i < i
        BY <3>2, <4>1
      <4>3. QED BY <3>1, <4>2
    <3>3. QED BY <3>1, <3>2
  <2>4. /\ SameButIgnored(t, m.table)
        /\ \A i \in DOMAIN t : i \notin past => m.table[i] = t[i]
    BY <2>2, <2>3, CountedDownTable
  <2>5. (ready # {}) <=> \E i \in all : t[i].ignore = 0
    OBVIOUS
  <2>6. QED BY <1>2, <2>2, <2>3, <2>4, <2>5
<1>3. QED BY <1>1, <1>2

-----------------------------------------------------------------------------
(* The commands on the table and its count. *)

TableState == [table : Seq(Entry), count : Int]

\* The count is that of the enabled entries.
Counted(t) == t.count = Cardinality(Enabled(t.table))

LEMMA NewEntryTyped ==
    ASSUME NEW addr \in Addrs, NEW kind \in Kinds
    PROVE  NewEntry(addr, kind) \in Entry /\ NewEntry(addr, kind).enabled
<1>1. 0 \in 0..MaxIgnore
  BY DebuggerAssumption
<1>2. QED BY <1>1 DEF NewEntry, Entry

(* A new entry is enabled and the others stay as they are. *)
LEMMA Appended ==
    ASSUME NEW t \in Seq(Entry), NEW e \in Entry, e.enabled
    PROVE  /\ Append(t, e) \in Seq(Entry) /\ Len(Append(t, e)) = Len(t) + 1
           /\ Cardinality(Enabled(Append(t, e))) = Cardinality(Enabled(t)) + 1
<1> DEFINE u == Append(t, e)
<1>1. /\ u \in Seq(Entry) /\ Len(u) = Len(t) + 1 /\ Len(t) \in Nat
      /\ DOMAIN u = 1..(Len(t) + 1) /\ DOMAIN t = 1..Len(t)
  OBVIOUS
<1>2. u[Len(t) + 1] = e /\ \A i \in 1..Len(t) : u[i] = t[i]
  OBVIOUS
<1> HIDE DEF u
<1>3. Enabled(u) = Enabled(t) \cup {Len(t) + 1}
  BY <1>1, <1>2 DEF Enabled
<1>4. Len(t) + 1 \notin Enabled(t)
  BY <1>1 DEF Enabled
<1>5. Cardinality(Enabled(u)) = Cardinality(Enabled(t)) + 1
  BY <1>3, <1>4, EnabledFinite, FS_AddElement
<1>6. QED BY <1>1, <1>5 DEF u

LEMMA AddKeeps ==
    ASSUME NEW t \in TableState, NEW addr \in Addrs, NEW kind \in Kinds
    PROVE  LET n == brkpt_add(t, addr, kind)
           IN  /\ n \in TableState /\ Len(n.table) <= Len(t.table) + 1
               /\ Counted(t) => Counted(n)
<1> DEFINE once  == brkpt_match(t.table, t.count, addr, 0, kind)
           twice == brkpt_match(once.table, t.count, addr, 0, kind)
           n     == brkpt_add(t, addr, kind)
           e     == NewEntry(addr, kind)
<1>1. t.table \in Seq(Entry) /\ t.count \in Int /\ Len(t.table) \in Nat
  BY DEF TableState
<1>2. SameButIgnored(t.table, once.table)
  BY <1>1, MatchTable
<1>3. once.table \in Seq(Entry)
  BY <1>2 DEF SameButIgnored
<1>4. SameButIgnored(once.table, twice.table)
  BY <1>3, MatchTable
<1>5. SameButIgnored(t.table, twice.table)
  BY <1>1, <1>2, <1>4, SameSame
<1>6. twice.table \in Seq(Entry)
  BY <1>4 DEF SameButIgnored
<1> HIDE DEF once, twice
<1>7. ASSUME NEW u, SameButIgnored(t.table, u), n = [t EXCEPT !.table = u]
      PROVE  /\ n \in TableState /\ Len(n.table) <= Len(t.table) + 1
             /\ Counted(t) => Counted(n)
  <2>1. n = [table |-> u, count |-> t.count]
    BY <1>7 DEF TableState
  <2>2. u \in Seq(Entry) /\ Len(u) = Len(t.table)
    BY <1>7 DEF SameButIgnored
  <2>3. Enabled(u) = Enabled(t.table)
    BY <1>1, <1>7, SameEnabled
  <2> HIDE DEF n
  <2>4. n.table = u /\ n.count = t.count /\ n \in TableState
    BY <1>1, <2>1, <2>2 DEF TableState
  <2>5. QED BY <1>1, <2>2, <2>3, <2>4 DEF Counted
<1>8. ASSUME n = [table |-> Append(twice.table, e), count |-> t.count + 1]
      PROVE  /\ n \in TableState /\ Len(n.table) <= Len(t.table) + 1
             /\ Counted(t) => Counted(n)
  <2>1. e \in Entry /\ e.enabled
    BY NewEntryTyped
  <2> HIDE DEF n, e
  <2>2. /\ Append(twice.table, e) \in Seq(Entry)
        /\ Len(Append(twice.table, e)) = Len(twice.table) + 1
        /\ Cardinality(Enabled(Append(twice.table, e)))
              = Cardinality(Enabled(twice.table)) + 1
    BY <1>6, <2>1, Appended
  <2>3. Len(twice.table) = Len(t.table) /\ Enabled(twice.table) = Enabled(t.table)
    BY <1>1, <1>5, SameEnabled DEF SameButIgnored
  <2>4. /\ n.table = Append(twice.table, e) /\ n.count = t.count + 1
        /\ n \in TableState
    BY <1>1, <1>8, <2>2 DEF TableState
  <2>5. QED BY <1>1, <2>2, <2>3, <2>4 DEF Counted
<1>9. \/ n = [t EXCEPT !.table = once.table]
      \/ n = [t EXCEPT !.table = twice.table]
      \/ n = [table |-> Append(twice.table, e), count |-> t.count + 1]
  BY DEF brkpt_add, once, twice
<1> HIDE DEF n
<1>10. QED BY <1>2, <1>5, <1>7, <1>8, <1>9 DEF n

(* Entries that are enabled or disabled, all to the same. *)
LEMMA SetEnabled ==
    ASSUME NEW t \in Seq(Entry), NEW ids \in SUBSET DOMAIN t, NEW b \in BOOLEAN
    PROVE  LET u == WithEnabled(t, ids, b)
           IN  /\ u \in Seq(Entry) /\ Len(u) = Len(t)
               /\ b => Enabled(u) = Enabled(t) \cup ids
               /\ ~b => Enabled(u) = Enabled(t) \ ids
<1> DEFINE F(i) == IF i \in ids THEN [t[i] EXCEPT !.enabled = b] ELSE t[i]
           u == WithEnabled(t, ids, b)
<1>1. u = [i \in DOMAIN t |-> F(i)]
  BY DEF WithEnabled
<1>2. ASSUME NEW i \in DOMAIN t
      PROVE  /\ F(i) \in Entry
             /\ i \in ids => F(i).enabled = b
             /\ i \notin ids => F(i) = t[i]
  BY EntryFields, EnabledEdited
<1> HIDE DEF F, u
<1>3. DOMAIN u = DOMAIN t /\ \A i \in DOMAIN t : u[i] = F(i)
  BY <1>1
<1>4. u \in Seq(Entry) /\ Len(u) = Len(t)
  BY <1>1, <1>2, <1>3, TableOf
<1>5. ASSUME b PROVE Enabled(u) = Enabled(t) \cup ids
  <2>1. \A i \in DOMAIN t : u[i].enabled <=> (t[i].enabled \/ i \in ids)
    BY <1>2, <1>3, <1>5
  <2>2. QED BY <1>3, <2>1 DEF Enabled
<1>6. ASSUME ~b PROVE Enabled(u) = Enabled(t) \ ids
  <2>1. \A i \in DOMAIN t : u[i].enabled <=> (t[i].enabled /\ i \notin ids)
    BY <1>2, <1>3, <1>6
  <2>2. QED BY <1>3, <2>1 DEF Enabled
<1>7. QED BY <1>4, <1>5, <1>6 DEF u

LEMMA EnableKeeps ==
    ASSUME NEW t \in TableState, NEW i \in DOMAIN t.table
    PROVE  LET n == brkpt_enable(t, i)
           IN  /\ n \in TableState /\ Len(n.table) = Len(t.table)
               /\ Counted(t) /\ ~t.table[i].enabled => Counted(n)
<1> DEFINE u == WithEnabled(t.table, {i}, TRUE)
           n == brkpt_enable(t, i)
<1>1. t.table \in Seq(Entry) /\ t.count \in Int
  BY DEF TableState
<1>2. u \in Seq(Entry) /\ Len(u) = Len(t.table) /\ Enabled(u) = Enabled(t.table) \cup {i}
  <2>1. {i} \in SUBSET DOMAIN t.table /\ TRUE \in BOOLEAN
    OBVIOUS
  <2>2. QED BY <1>1, <2>1, SetEnabled
<1>3. n = [table |-> u, count |-> t.count + 1]
  BY DEF brkpt_enable
<1>4. ~t.table[i].enabled => i \notin Enabled(t.table)
  BY DEF Enabled
<1>5. ~t.table[i].enabled => Cardinality(Enabled(u)) = Cardinality(Enabled(t.table)) + 1
  BY <1>1, <1>2, <1>4, EnabledFinite, FS_AddElement
<1> HIDE DEF u, n
<1>6. n.table = u /\ n.count = t.count + 1 /\ n \in TableState
  BY <1>1, <1>2, <1>3 DEF TableState
<1>7. QED BY <1>2, <1>5, <1>6 DEF Counted, n

LEMMA DisableKeeps ==
    ASSUME NEW t \in TableState, NEW i \in DOMAIN t.table
    PROVE  LET n == brkpt_disable(t, i)
           IN  /\ n \in TableState /\ Len(n.table) = Len(t.table)
               /\ Counted(t) /\ t.table[i].enabled => Counted(n)
<1> DEFINE u == WithEnabled(t.table, {i}, FALSE)
           n == brkpt_disable(t, i)
<1>1. t.table \in Seq(Entry) /\ t.count \in Int
  BY DEF TableState
<1>2. u \in Seq(Entry) /\ Len(u) = Len(t.table) /\ Enabled(u) = Enabled(t.table) \ {i}
  <2>1. {i} \in SUBSET DOMAIN t.table /\ FALSE \in BOOLEAN
    OBVIOUS
  <2>2. QED BY <1>1, <2>1, SetEnabled
<1>3. n = [table |-> u, count |-> t.count - 1]
  BY DEF brkpt_disable
<1>4. t.table[i].enabled => i \in Enabled(t.table)
  BY DEF Enabled
<1>5. t.table[i].enabled => Cardinality(Enabled(u)) = Cardinality(Enabled(t.table)) - 1
  BY <1>1, <1>2, <1>4, EnabledFinite, FS_RemoveElement
<1> HIDE DEF u, n
<1>6. n.table = u /\ n.count = t.count - 1 /\ n \in TableState
  BY <1>1, <1>2, <1>3 DEF TableState
<1>7. QED BY <1>2, <1>5, <1>6 DEF Counted, n

(* Disabling by address counts each enabled entry it disables once. *)
LEMMA DisableAddrKeeps ==
    ASSUME NEW t \in TableState, NEW addr, NEW kind
    PROVE  LET n == brkpt_disable_addr(t, addr, kind)
           IN  /\ n \in TableState /\ Len(n.table) = Len(t.table)
               /\ Counted(t) => Counted(n)
<1> DEFINE all == Matching(t.table, addr, 0, kind)
           u == WithEnabled(t.table, all, FALSE)
           n == brkpt_disable_addr(t, addr, kind)
<1>1. t.table \in Seq(Entry) /\ t.count \in Int
  BY DEF TableState
<1>2. all \in SUBSET Enabled(t.table) /\ Enabled(t.table) \in SUBSET DOMAIN t.table
  BY DEF Matching, Enabled
<1>3. n = [table |-> u, count |-> t.count - Cardinality(all)]
  BY DEF brkpt_disable_addr
<1>4. u \in Seq(Entry) /\ Len(u) = Len(t.table) /\ Enabled(u) = Enabled(t.table) \ all
  <2> HIDE DEF all
  <2>1. QED BY <1>1, <1>2, SetEnabled
<1>5. /\ Cardinality(Enabled(u)) = Cardinality(Enabled(t.table)) - Cardinality(all)
      /\ Cardinality(all) \in Nat
  <2>1. IsFiniteSet(Enabled(t.table))
    BY <1>1, EnabledFinite
  <2>2. Enabled(t.table) \cap all = all
    BY <1>2
  <2>3. IsFiniteSet(all)
    BY <1>2, <2>1, FS_Subset
  <2> HIDE DEF all, u
  <2>4. Cardinality(Enabled(t.table) \ all)
          = Cardinality(Enabled(t.table)) - Cardinality(Enabled(t.table) \cap all)
    BY <2>1, FS_Difference
  <2>5. QED BY <1>4, <2>2, <2>3, <2>4, FS_CardinalityType
<1> HIDE DEF u, n, all
<1>6. n.table = u /\ n.count = t.count - Cardinality(all) /\ n \in TableState
  BY <1>1, <1>3, <1>4, <1>5 DEF TableState
<1>7. QED BY <1>4, <1>5, <1>6 DEF Counted, n

(* An ignore count set by the user. *)
LEMMA IgnoreKeeps ==
    ASSUME NEW t \in Seq(Entry), NEW i \in DOMAIN t, NEW n \in 0..MaxIgnore
    PROVE  SameButIgnored(t, [t EXCEPT ![i].ignore = n])
<1> DEFINE u == [t EXCEPT ![i].ignore = n]
           f == [t[i] EXCEPT !.ignore = n]
<1>1. /\ f \in Entry /\ f.addr = t[i].addr /\ f.kind = t[i].kind
      /\ f.enabled = t[i].enabled
  BY EntryFields, IgnoreEdited
<1>2. u = [t EXCEPT ![i] = f]
  OBVIOUS
<1> HIDE DEF f
<1>3. DOMAIN u = DOMAIN t /\ u = [j \in DOMAIN t |-> u[j]]
  OBVIOUS
<1>4. \A j \in DOMAIN t : u[j] = IF j = i THEN f ELSE t[j]
  BY <1>2
<1> HIDE DEF u
<1>5. u \in Seq(Entry) /\ Len(u) = Len(t)
  <2>1. \A j \in DOMAIN t : u[j] \in Entry
    BY <1>1, <1>4, EntryFields
  <2>2. QED BY <1>3, <2>1, TableOf
<1>6. SameButIgnored(t, u)
  BY <1>1, <1>3, <1>4, <1>5 DEF SameButIgnored
<1>7. QED BY <1>6 DEF u

-----------------------------------------------------------------------------
(* The run's record. *)

Sims == [mode : {"stopped", "running", "exited"}, pc : Addrs,
         steps : {Forever} \cup 0..MaxSteps, first : BOOLEAN,
         pending : SUBSET {"read", "write"}, hit : BOOLEAN,
         interrupted : BOOLEAN, ended : BOOLEAN]

LEMMA SimTyped == TypeOK => /\ sim \in Sims /\ brkpts \in Seq(Entry)
                            /\ Table \in TableState
                            /\ Table.table = brkpts /\ Table.count = nbrkpts_enabled
  BY DEF TypeOK, Sims, Table, TableState

LEMMA StoppedTyped ==
    ASSUME NEW pc \in Addrs
    PROVE  Stopped(pc) \in Sims
<1>1. 0 \in 0..MaxSteps
  BY DebuggerAssumption
<1>2. QED BY <1>1 DEF Stopped, Sims

LEMMA StepsTyped ==
    ASSUME NEW s \in Sims, NEW n \in {Forever} \cup 0..MaxSteps, NEW b \in BOOLEAN
    PROVE  /\ [s EXCEPT !.steps = n] \in Sims /\ [s EXCEPT !.first = b] \in Sims
           /\ [s EXCEPT !.mode = "running"] \in Sims
           /\ [s EXCEPT !.steps = n].mode = s.mode
           /\ [s EXCEPT !.first = b].mode = s.mode
           /\ [s EXCEPT !.steps = n].pending = s.pending
           /\ [s EXCEPT !.first = b].pending = s.pending
  BY DEF Sims

LEMMA StartTyped ==
    ASSUME NEW pc \in Addrs, NEW n \in {Forever} \cup 0..MaxSteps
    PROVE  [Stopped(pc) EXCEPT !.mode = "running", !.steps = n, !.first = TRUE] \in Sims
<1> DEFINE s == [Stopped(pc) EXCEPT !.mode = "running"]
           t == [s EXCEPT !.steps = n]
           u == [t EXCEPT !.first = TRUE]
<1>1. s \in Sims
  BY StoppedTyped, StepsTyped
<1> HIDE DEF s
<1>2. t \in Sims
  BY <1>1, StepsTyped
<1> HIDE DEF t
<1>3. u \in Sims
  BY <1>2, StepsTyped
<1>4. QED BY <1>3 DEF u, t, s

LEMMA ModeTyped ==
    ASSUME NEW s \in Sims, NEW b \in BOOLEAN
    PROVE  /\ [s EXCEPT !.mode = "stopped", !.hit = b] \in Sims
           /\ [s EXCEPT !.mode = "exited"] \in Sims
           /\ [s EXCEPT !.interrupted = TRUE] \in Sims
           /\ [s EXCEPT !.mode = "stopped", !.hit = b].mode = "stopped"
           /\ [s EXCEPT !.mode = "exited"].mode = "exited"
           /\ [s EXCEPT !.interrupted = TRUE].pending = s.pending
           /\ [s EXCEPT !.interrupted = TRUE].mode = s.mode
  BY DEF Sims

LEMMA PlaceTyped ==
    ASSUME NEW s \in Sims, NEW pc \in Addrs, NEW p \in SUBSET {"read", "write"}
    PROVE  /\ [s EXCEPT !.pc = pc] \in Sims /\ [s EXCEPT !.pending = p] \in Sims
           /\ [s EXCEPT !.pc = pc].mode = s.mode
           /\ [s EXCEPT !.pending = p].mode = s.mode
  BY DEF Sims

(* A turn that is not stopped has a step left. *)
LEMMA TurnedTyped ==
    ASSUME sim \in Sims, sim.steps # 0, NEW pc \in Addrs
    PROVE  /\ Turned(pc) \in Sims
           /\ Turned(pc).mode = sim.mode /\ Turned(pc).pending = sim.pending
<1> DEFINE k == StepsLeft(sim.steps)
           s == [sim EXCEPT !.pc = pc]
           t == [s EXCEPT !.first = FALSE]
           u == [t EXCEPT !.steps = k]
<1>1. k \in {Forever} \cup 0..MaxSteps
  BY DebuggerAssumption DEF StepsLeft, Sims, Forever
<1>2. Turned(pc) = u
  <2>1. t.steps = sim.steps
    BY DEF Sims
  <2>2. QED BY <2>1 DEF Turned
<1> HIDE DEF k
<1>3. s \in Sims /\ s.mode = sim.mode /\ s.pending = sim.pending
  BY DEF Sims
<1> HIDE DEF s
<1>4. t \in Sims /\ t.mode = sim.mode /\ t.pending = sim.pending
  BY <1>3, StepsTyped
<1> HIDE DEF t
<1>5. u \in Sims /\ u.mode = sim.mode /\ u.pending = sim.pending
  BY <1>1, <1>4, StepsTyped
<1> HIDE DEF u
<1>6. QED BY <1>2, <1>5

-----------------------------------------------------------------------------
(* Why a data breakpoint stops the run: what touches one stays pending. *)
TouchedPends == sim.mode = "running" /\ touched => sim.pending # {}

Inv == TypeOK /\ EnabledCountRight /\ TouchedPends

LEMMA InvInit == Init => Inv
<1> SUFFICES ASSUME Init PROVE Inv
  OBVIOUS
<1>1. sim = Stopped(0) /\ sim.mode = "stopped"
  BY DEF Init, Stopped
<1>2. sim \in Sims
  BY <1>1, StoppedTyped, DebuggerAssumption
<1>3. /\ brkpts \in Seq(Entry) /\ Len(brkpts) = 0 /\ nbrkpts_enabled = 0
      /\ patched = {} /\ icount = 0 /\ DOMAIN brkpts = {}
  BY DEF Init
<1>4. TypeOK
  BY <1>2, <1>3, DebuggerAssumption DEF TypeOK, Sims
<1>5. Enabled(brkpts) = {}
  BY <1>3 DEF Enabled
<1>6. EnabledCountRight
  BY <1>3, <1>5, FS_EmptySet DEF EnabledCountRight
<1>7. QED BY <1>1, <1>4, <1>6 DEF Inv, TouchedPends

(* A command on the table that keeps it a table and its count right. *)
LEMMA SetTableKeeps ==
    ASSUME Inv, ~miscounted, NEW t \in TableState, Len(t.table) <= MAX_BRKPTS,
           SetTable(t), miscounted' \/ (Counted(Table) => Counted(t))
    PROVE  Inv'
<1>1. /\ brkpts' = t.table /\ nbrkpts_enabled' = t.count /\ sim' = sim
      /\ patched' = patched /\ icount' = icount /\ touched' = touched
  BY DEF SetTable
<1>2. brkpts' \in Seq(Entry) /\ nbrkpts_enabled' \in Int
  BY <1>1 DEF TableState
<1>3. TypeOK'
  BY <1>1, <1>2 DEF Inv, TypeOK
<1>4. Counted(Table)
  BY DEF Inv, EnabledCountRight, Counted, Table
<1>5. EnabledCountRight'
  BY <1>1, <1>4 DEF EnabledCountRight, Counted
<1>6. QED BY <1>1, <1>3, <1>5 DEF Inv, TouchedPends

(* Ignore counts may change at any time. *)
LEMMA IgnoredCount ==
    ASSUME Inv, SameButIgnored(brkpts, brkpts'), miscounted' = miscounted,
           nbrkpts_enabled' = nbrkpts_enabled
    PROVE  /\ brkpts' \in Seq(Entry) /\ Len(brkpts') <= MAX_BRKPTS
           /\ nbrkpts_enabled' \in Int /\ EnabledCountRight'
<1>1. brkpts \in Seq(Entry) /\ Len(brkpts) <= MAX_BRKPTS /\ nbrkpts_enabled \in Int
  BY DEF Inv, TypeOK
<1>2. Enabled(brkpts') = Enabled(brkpts)
  BY <1>1, SameEnabled
<1>3. QED BY <1>1, <1>2 DEF Inv, EnabledCountRight, SameButIgnored

LEMMA CodeMatchTable ==
    ASSUME Inv
    PROVE  /\ SameButIgnored(brkpts, CodeMatch.table)
           /\ \A i \in DOMAIN brkpts : brkpts[i].kind # "exec"
                                          => CodeMatch.table[i] = brkpts[i]
<1>1. brkpts \in Seq(Entry)
  BY DEF Inv, TypeOK
<1>2. CASE sim.first
  <2>1. CodeMatch.table = brkpts
    BY <1>2 DEF CodeMatch
  <2>2. QED BY <1>1, <2>1, SameSelf
<1>3. CASE ~sim.first
  <2>1. CodeMatch = brkpt_match(brkpts, nbrkpts_enabled, sim.pc, 0, "exec")
    BY <1>3 DEF CodeMatch
  <2>2. QED BY <1>1, <2>1, MatchTable
<1>4. QED BY <1>2, <1>3

-----------------------------------------------------------------------------
(* The commands. *)

LEMMA SetBreakpointKeeps ==
    ASSUME Inv, ~miscounted, NEW addr \in Addrs, NEW kind \in Kinds,
           SetBreakpoint(addr, kind)
    PROVE  Inv'
<1> DEFINE t == brkpt_add(Table, addr, kind)
<1>1. Table \in TableState /\ Table.table = brkpts
  BY SimTyped DEF Inv
<1>2. t \in TableState /\ Len(t.table) <= Len(brkpts) + 1 /\ (Counted(Table) => Counted(t))
  BY <1>1, AddKeeps
<1>3. SetTable(t) /\ Len(brkpts) + 1 <= MAX_BRKPTS
  BY DEF SetBreakpoint, Room
<1>4. t.table \in Seq(Entry) /\ Len(t.table) \in Nat /\ Len(brkpts) \in Nat
  BY <1>1, <1>2 DEF TableState
<1> HIDE DEF t
<1>5. Len(t.table) <= MAX_BRKPTS
  BY <1>2, <1>3, <1>4, DebuggerAssumption
<1>6. QED BY <1>2, <1>3, <1>5, SetTableKeeps

LEMMA SetAccessBreakpointKeeps ==
    ASSUME Inv, ~miscounted, NEW addr \in Addrs, SetAccessBreakpoint(addr)
    PROVE  Inv'
<1> DEFINE r == brkpt_add(Table, addr, "read")
           w == brkpt_add(r, addr, "write")
<1>1. Table \in TableState /\ Table.table = brkpts /\ "read" \in Kinds /\ "write" \in Kinds
  BY SimTyped DEF Inv, Kinds
<1>2. r \in TableState /\ Len(r.table) <= Len(brkpts) + 1 /\ (Counted(Table) => Counted(r))
  BY <1>1, AddKeeps
<1>3. SetTable(w) /\ Len(brkpts) + 2 <= MAX_BRKPTS
  BY DEF SetAccessBreakpoint, Room
<1> HIDE DEF r
<1>4. w \in TableState /\ Len(w.table) <= Len(r.table) + 1 /\ (Counted(r) => Counted(w))
  BY <1>1, <1>2, AddKeeps
<1>5. Len(w.table) \in Nat /\ Len(r.table) \in Nat /\ Len(brkpts) \in Nat
  BY <1>1, <1>2, <1>4 DEF TableState
<1> HIDE DEF w
<1>6. Len(w.table) <= MAX_BRKPTS
  BY <1>2, <1>3, <1>4, <1>5, DebuggerAssumption
<1>7. QED BY <1>2, <1>3, <1>4, <1>6, SetTableKeeps

(* After a miscount the count is no longer claimed to be right. *)
LEMMA EnableBreakpointKeeps ==
    ASSUME Inv, ~miscounted, NEW i, EnableBreakpoint(i)
    PROVE  Inv'
<1> DEFINE t == brkpt_enable(Table, i)
<1>1. Table \in TableState /\ Table.table = brkpts /\ i \in DOMAIN Table.table
  BY SimTyped DEF Inv, EnableBreakpoint
<1>2. /\ t \in TableState /\ Len(t.table) = Len(brkpts)
      /\ Counted(Table) /\ ~brkpts[i].enabled => Counted(t)
  BY <1>1, EnableKeeps
<1>3. SetTable(t) /\ (miscounted' <=> (miscounted \/ brkpts[i].enabled))
  BY DEF EnableBreakpoint
<1>4. Len(t.table) <= MAX_BRKPTS
  BY <1>2 DEF Inv, TypeOK
<1> HIDE DEF t
<1>5. QED BY <1>2, <1>3, <1>4, SetTableKeeps

LEMMA DisableBreakpointKeeps ==
    ASSUME Inv, ~miscounted, NEW i, DisableBreakpoint(i)
    PROVE  Inv'
<1> DEFINE t == brkpt_disable(Table, i)
<1>1. Table \in TableState /\ Table.table = brkpts /\ i \in DOMAIN Table.table
  BY SimTyped DEF Inv, DisableBreakpoint
<1>2. /\ t \in TableState /\ Len(t.table) = Len(brkpts)
      /\ Counted(Table) /\ brkpts[i].enabled => Counted(t)
  BY <1>1, DisableKeeps
<1>3. SetTable(t) /\ (miscounted' <=> (miscounted \/ ~brkpts[i].enabled))
  BY DEF DisableBreakpoint
<1>4. Len(t.table) <= MAX_BRKPTS
  BY <1>2 DEF Inv, TypeOK
<1> HIDE DEF t
<1>5. QED BY <1>2, <1>3, <1>4, SetTableKeeps

LEMMA SetIgnoreCountKeeps ==
    ASSUME Inv, ~miscounted, NEW i, NEW n \in 0..MaxIgnore, brkpt_set_ignore_count(i, n)
    PROVE  Inv'
<1> DEFINE u == [brkpts EXCEPT ![i].ignore = n]
           t == [table |-> u, count |-> nbrkpts_enabled]
<1>1. /\ brkpts \in Seq(Entry) /\ Len(brkpts) <= MAX_BRKPTS
      /\ nbrkpts_enabled \in Int /\ i \in DOMAIN brkpts
  BY DEF Inv, TypeOK, brkpt_set_ignore_count
<1>2. SameButIgnored(brkpts, u)
  BY <1>1, IgnoreKeeps
<1>3. SetTable(t)
  BY DEF brkpt_set_ignore_count
<1> HIDE DEF u
<1>4. u \in Seq(Entry) /\ Len(u) <= MAX_BRKPTS /\ Enabled(u) = Enabled(brkpts)
  BY <1>1, <1>2, SameEnabled DEF SameButIgnored
<1>5. t \in TableState /\ t.table = u /\ t.count = nbrkpts_enabled
  BY <1>1, <1>4 DEF TableState
<1>6. Counted(Table) => Counted(t)
  BY <1>4, <1>5 DEF Counted, Table
<1> HIDE DEF t
<1>7. QED BY <1>3, <1>4, <1>5, <1>6, SetTableKeeps

LEMMA RemoveKeeps ==
    ASSUME Inv, ~miscounted, NEW addr, NEW kinds, sim_remove_hbreak(addr, kinds)
    PROVE  Inv'
<1> DEFINE After(k, t) == IF k \in kinds THEN brkpt_disable_addr(t, addr, k) ELSE t
           r == After("read", Table)
           w == After("write", r)
           e == After("exec", w)
<1>1. ASSUME NEW t \in TableState, NEW k
      PROVE  /\ After(k, t) \in TableState /\ Len(After(k, t).table) = Len(t.table)
             /\ Counted(t) => Counted(After(k, t))
  <2>1. CASE k \in kinds
    BY <2>1, DisableAddrKeeps
  <2>2. CASE k \notin kinds
    BY <2>2
  <2>3. QED BY <2>1, <2>2
<1>2. SetTable(e)
  BY DEF sim_remove_hbreak
<1>3. Table \in TableState /\ Table.table = brkpts /\ Len(brkpts) <= MAX_BRKPTS
  BY SimTyped DEF Inv, TypeOK
<1> HIDE DEF After
<1>4. r \in TableState /\ Len(r.table) = Len(brkpts) /\ (Counted(Table) => Counted(r))
  BY <1>1, <1>3
<1> HIDE DEF r
<1>5. w \in TableState /\ Len(w.table) = Len(brkpts) /\ (Counted(Table) => Counted(w))
  BY <1>1, <1>4
<1> HIDE DEF w
<1>6. e \in TableState /\ Len(e.table) = Len(brkpts) /\ (Counted(Table) => Counted(e))
  BY <1>1, <1>5
<1> HIDE DEF e
<1>7. QED BY <1>2, <1>3, <1>6, SetTableKeeps

-----------------------------------------------------------------------------
(* The run. *)

(* What a step of the run has to keep. *)
LEMMA RunKeeps ==
    ASSUME Inv, SameButIgnored(brkpts, brkpts'), nbrkpts_enabled' = nbrkpts_enabled,
           miscounted' = miscounted, sim' \in Sims, patched' \subseteq Addrs,
           icount' \in 0..nMaxInstructions, TouchedPends'
    PROVE  Inv'
<1>1. /\ brkpts' \in Seq(Entry) /\ Len(brkpts') <= MAX_BRKPTS
      /\ nbrkpts_enabled' \in Int /\ EnabledCountRight'
  BY IgnoredCount
<1>2. TypeOK'
  BY <1>1 DEF TypeOK, Sims
<1>3. QED BY <1>1, <1>2 DEF Inv

LEMMA InvFacts ==
    ASSUME Inv
    PROVE  /\ sim \in Sims /\ brkpts \in Seq(Entry) /\ patched \subseteq Addrs
           /\ icount \in 0..nMaxInstructions /\ SameButIgnored(brkpts, brkpts)
<1>1. TypeOK
  BY DEF Inv
<1>2. QED BY <1>1, SimTyped, SameSelf DEF TypeOK

LEMMA WriteKeeps ==
    ASSUME Inv, NEW addr \in Addrs, NEW break \in BOOLEAN, sim_write(addr, break)
    PROVE  Inv'
<1> DEFINE match == brkpt_match(brkpts, nbrkpts_enabled, addr - (addr % 4), 2, "write")
           p == IF match.found THEN sim.pending \cup {"write"} ELSE sim.pending
<1>1. SameButIgnored(brkpts, match.table)
  BY InvFacts, MatchTable
<1>2. /\ sim.mode = "stopped" /\ brkpts' = match.table
      /\ sim' = [sim EXCEPT !.pending = p]
      /\ nbrkpts_enabled' = nbrkpts_enabled /\ icount' = icount
      /\ miscounted' = miscounted /\ patched' \in {patched \cup {addr}, patched \ {addr}}
  <2>1. [sim EXCEPT !.pending = IF match.found THEN @ \cup {"write"} ELSE @]
          = [sim EXCEPT !.pending = p]
    OBVIOUS
  <2>2. QED BY <2>1 DEF sim_write, AtPrompt
<1>3. p \in SUBSET {"read", "write"}
  <2>1. sim.pending \in SUBSET {"read", "write"}
    BY InvFacts DEF Sims
  <2> HIDE DEF match
  <2>2. QED BY <2>1
<1> HIDE DEF match, p
<1>4. sim' \in Sims /\ sim'.mode = "stopped"
  <2>1. sim \in Sims /\ sim.pc \in Addrs
    BY InvFacts DEF Sims
  <2>2. QED BY <1>2, <1>3, <2>1, PlaceTyped
<1>5. TouchedPends'
  BY <1>4 DEF TouchedPends
<1>6. patched' \subseteq Addrs /\ icount' \in 0..nMaxInstructions
  BY <1>2, InvFacts
<1>7. QED BY <1>1, <1>2, <1>4, <1>5, <1>6, RunKeeps

LEMMA CreateKeeps ==
    ASSUME Inv, NEW start \in Addrs, sim_create_inferior(start)
    PROVE  Inv'
<1>1. /\ sim.mode = "stopped" /\ sim' = [sim EXCEPT !.pc = start] /\ brkpts' = brkpts
      /\ nbrkpts_enabled' = nbrkpts_enabled /\ icount' = icount
      /\ miscounted' = miscounted /\ patched' = patched
  BY DEF sim_create_inferior, AtPrompt
<1>2. sim' \in Sims /\ sim'.mode = "stopped"
  BY <1>1, InvFacts, PlaceTyped
<1>3. TouchedPends'
  BY <1>2 DEF TouchedPends
<1>4. QED BY <1>1, <1>2, <1>3, InvFacts, RunKeeps

(* A run starts with nothing touched. *)
LEMMA StartRunKeeps ==
    ASSUME Inv, NEW n \in {Forever} \cup 0..MaxSteps, NEW pc \in Addrs, StartRun(n, pc)
    PROVE  Inv'
<1>1. /\ sim' = [Stopped(pc) EXCEPT !.mode = "running", !.steps = n, !.first = TRUE]
      /\ touched' = FALSE /\ brkpts' = brkpts
      /\ nbrkpts_enabled' = nbrkpts_enabled /\ icount' = icount
      /\ miscounted' = miscounted /\ patched' = patched
  BY DEF StartRun
<1>2. sim' \in Sims
  BY <1>1, StartTyped
<1>3. TouchedPends'
  BY <1>1 DEF TouchedPends
<1>4. QED BY <1>1, <1>2, <1>3, InvFacts, RunKeeps

LEMMA StartsKeep ==
    ASSUME Inv, StartsRun \/ sim_resume
    PROVE  Inv'
<1>1. sim.pc \in Addrs /\ 0 \in Addrs
  BY InvFacts, DebuggerAssumption DEF Sims
<1>2. CASE StartsRun
  BY <1>1, <1>2, StartRunKeeps DEF StartsRun
<1>3. CASE sim_resume
  <2>1. PICK step \in BOOLEAN : StartRun(IF step THEN 1 ELSE Forever, sim.pc)
    BY <1>3 DEF sim_resume
  <2>2. (IF step THEN 1 ELSE Forever) \in {Forever} \cup 0..MaxSteps
    BY DebuggerAssumption
  <2>3. QED BY <1>1, <2>1, <2>2, StartRunKeeps
<1>4. QED BY <1>2, <1>3

(* The ways out of the loop that leave the table but for ignore counts. *)
LEMMA StopKeeps ==
    ASSUME Inv, NEW b \in BOOLEAN, StopWith(b), nbrkpts_enabled' = nbrkpts_enabled,
           SameButIgnored(brkpts, brkpts')
    PROVE  Inv'
<1>1. /\ sim' = [sim EXCEPT !.mode = "stopped", !.hit = b] /\ patched' = patched
      /\ icount' = icount /\ miscounted' = miscounted
  BY DEF StopWith
<1>2. sim' \in Sims /\ sim'.mode = "stopped"
  BY <1>1, InvFacts, ModeTyped
<1>3. TouchedPends'
  BY <1>2 DEF TouchedPends
<1>4. QED BY <1>1, <1>2, <1>3, InvFacts, RunKeeps

LEMMA StopsKeep ==
    ASSUME Inv, LeaveLoop \/ StopAfterSteps \/ StopAtData \/ StopAtCode
    PROVE  Inv'
<1>1. TRUE \in BOOLEAN /\ FALSE \in BOOLEAN
  OBVIOUS
<1>2. CASE LeaveLoop
  <2>1. StopWith(FALSE) /\ brkpts' = brkpts /\ nbrkpts_enabled' = nbrkpts_enabled
    BY <1>2 DEF LeaveLoop, SameTable
  <2>2. QED BY <1>1, <2>1, InvFacts, StopKeeps
<1>3. CASE StopAfterSteps
  <2>1. StopWith(TRUE) /\ brkpts' = brkpts /\ nbrkpts_enabled' = nbrkpts_enabled
    BY <1>3 DEF StopAfterSteps, SameTable
  <2>2. QED BY <1>1, <2>1, InvFacts, StopKeeps
<1>4. CASE StopAtData
  <2>1. StopWith(TRUE) /\ brkpts' = brkpts /\ nbrkpts_enabled' = nbrkpts_enabled
    BY <1>4 DEF StopAtData, SameTable
  <2>2. QED BY <1>1, <2>1, InvFacts, StopKeeps
<1>5. CASE StopAtCode
  <2>1. StopWith(TRUE) /\ brkpts' = CodeMatch.table /\ nbrkpts_enabled' = nbrkpts_enabled
    BY <1>5 DEF StopAtCode
  <2>2. QED BY <1>1, <2>1, CodeMatchTable, StopKeeps
<1>6. QED BY <1>2, <1>3, <1>4, <1>5

LEMMA ExitKeeps ==
    ASSUME Inv, ExitAtLimit
    PROVE  Inv'
<1>1. /\ sim' = [sim EXCEPT !.mode = "exited"] /\ patched' = patched /\ brkpts' = brkpts
      /\ icount' = icount /\ miscounted' = miscounted
      /\ nbrkpts_enabled' = nbrkpts_enabled
  BY DEF ExitAtLimit
<1>2. sim' \in Sims /\ sim'.mode = "exited"
  BY <1>1, InvFacts, ModeTyped
<1>3. TouchedPends'
  BY <1>2 DEF TouchedPends
<1>4. QED BY <1>1, <1>2, <1>3, InvFacts, RunKeeps

LEMMA InterruptKeeps ==
    ASSUME Inv, sim_ctrl_c
    PROVE  Inv'
<1>1. /\ sim' = [sim EXCEPT !.interrupted = TRUE] /\ patched' = patched
      /\ icount' = icount /\ miscounted' = miscounted /\ brkpts' = brkpts
      /\ nbrkpts_enabled' = nbrkpts_enabled /\ touched' = touched
  BY DEF sim_ctrl_c
<1>2. sim' \in Sims /\ sim'.mode = sim.mode /\ sim'.pending = sim.pending
  BY <1>1, InvFacts, ModeTyped
<1>3. TouchedPends'
  BY <1>1, <1>2 DEF TouchedPends, Inv
<1>4. QED BY <1>1, <1>2, <1>3, InvFacts, RunKeeps

(* A turn that nothing stops: no access of the run has touched a breakpoint. *)
LEMMA NothingTouched ==
    ASSUME Inv, NothingStops
    PROVE  /\ ~touched /\ sim.pending = {} /\ sim.mode = "running" /\ sim.steps # 0
           /\ icount + 1 \in 0..nMaxInstructions
<1>1. sim.mode = "running" /\ sim.steps # 0 /\ ~AtLimit /\ ~DataStop
  BY DEF NothingStops, GoesOn, Turn, Running
<1>2. icount + 1 \in 0..nMaxInstructions
  BY <1>1, InvFacts, DebuggerAssumption DEF AtLimit
<1>3. sim.pending = {}
  BY <1>1 DEF DataStop
<1>4. QED BY <1>1, <1>2, <1>3 DEF Inv, TouchedPends

LEMMA IdleKeeps ==
    ASSUME Inv, NEW pc \in Addrs, IdleTurn(pc)
    PROVE  Inv'
<1>1. /\ NothingStops /\ sim' = Turned(pc) /\ brkpts' = CodeMatch.table
      /\ nbrkpts_enabled' = nbrkpts_enabled /\ patched' = patched /\ icount' = icount
      /\ miscounted' = miscounted /\ touched' = touched
  BY DEF IdleTurn
<1>2. ~touched /\ sim.steps # 0
  BY <1>1, NothingTouched
<1>3. sim' \in Sims
  BY <1>1, <1>2, InvFacts, TurnedTyped
<1>4. TouchedPends'
  BY <1>1, <1>2 DEF TouchedPends
<1>5. QED BY <1>1, <1>3, <1>4, InvFacts, CodeMatchTable, RunKeeps

LEMMA PatchKeeps ==
    ASSUME Inv, StopAtPatch
    PROVE  Inv'
<1>1. /\ NothingStops /\ sim' = [Turned(sim.pc) EXCEPT !.mode = "stopped", !.hit = TRUE]
      /\ brkpts' = CodeMatch.table /\ nbrkpts_enabled' = nbrkpts_enabled
      /\ patched' = patched /\ icount' = icount /\ miscounted' = miscounted
  BY DEF StopAtPatch
<1>2. Turned(sim.pc) \in Sims
  <2>1. sim \in Sims /\ sim.pc \in Addrs
    BY InvFacts DEF Sims
  <2>2. QED BY <1>1, <2>1, NothingTouched, TurnedTyped
<1>3. sim' \in Sims /\ sim'.mode = "stopped"
  BY <1>1, <1>2, ModeTyped
<1>4. TouchedPends'
  BY <1>3 DEF TouchedPends
<1>5. QED BY <1>1, <1>3, <1>4, InvFacts, CodeMatchTable, RunKeeps

-----------------------------------------------------------------------------
(* An instruction. *)

(* An armed data breakpoint is found, whatever the match of the code before. *)
LEMMA ArmedIsFound ==
    ASSUME Inv, ~miscounted, NEW a, a.kind \in {"read", "write"}, Armed(a)
    PROVE  brkpt_match(CodeMatch.table, nbrkpts_enabled, a.addr, a.size, a.kind).found
<1> DEFINE code == CodeMatch.table
<1>1. PICK i \in Matching(brkpts, a.addr, a.size, a.kind) : brkpts[i].ignore = 0
  BY DEF Armed
<1>2. /\ i \in DOMAIN brkpts /\ brkpts[i].enabled /\ brkpts[i].kind = a.kind
      /\ i \in Enabled(brkpts)
  BY DEF Matching, Enabled
<1>3. code[i] = brkpts[i] /\ DOMAIN code = DOMAIN brkpts /\ code \in Seq(Entry)
  BY <1>2, CodeMatchTable DEF SameButIgnored
<1>4. nbrkpts_enabled # 0
  <2>1. nbrkpts_enabled = Cardinality(Enabled(brkpts))
    BY DEF Inv, EnabledCountRight
  <2>2. IsFiniteSet(Enabled(brkpts))
    BY InvFacts, EnabledFinite
  <2>3. QED BY <1>2, <2>1, <2>2, FS_EmptySet
<1>5. i \in Matching(code, a.addr, a.size, a.kind)
  BY <1>1, <1>3 DEF Matching, Enabled
<1> HIDE DEF code
<1>6. brkpt_match(code, nbrkpts_enabled, a.addr, a.size, a.kind).found
  BY <1>1, <1>3, <1>4, <1>5, MatchTable
<1>7. QED BY <1>6 DEF code

LEMMA ExecuteKeeps ==
    ASSUME Inv, ~miscounted, NEW pc \in Addrs, NEW as \in Accesses, NEW ends \in BOOLEAN,
           ExecuteInstruction(pc, as, ends)
    PROVE  Inv'
<1> DEFINE code == CodeMatch.table
           Data(a) == brkpt_match(code, nbrkpts_enabled, a.addr, a.size, a.kind)
           hits == {a \in as : Data(a).found}
           p == {a.kind : a \in hits}
<1>1. /\ NothingStops /\ nbrkpts_enabled' = nbrkpts_enabled /\ patched' = patched
      /\ miscounted' = miscounted /\ icount' = icount + 1
      /\ touched' = (touched \/ \E a \in as : Armed(a))
  BY DEF ExecuteInstruction
<1>2. ASSUME NEW a \in as PROVE a.kind \in {"read", "write"}
  <2>1. PICK b \in Access : as = {b}
    BY <1>2 DEF Accesses
  <2>2. a = b
    BY <1>2, <2>1
  <2>3. QED BY <2>2 DEF Access
<1>3. p \in SUBSET {"read", "write"}
  BY <1>2
<1>4. sim' = [Turned(pc) EXCEPT !.ended = ends, !.pending = p]
  BY DEF ExecuteInstruction
<1>5. brkpts' = IF as = {} THEN code ELSE Data(CHOOSE a \in as : TRUE).table
  <2> DEFINE data == [a \in as |-> Data(a)]
             x == CHOOSE a \in as : TRUE
  <2>1. brkpts' = IF as = {} THEN code ELSE data[x].table
    BY DEF ExecuteInstruction
  <2>2. as # {} => x \in as
    OBVIOUS
  <2> HIDE DEF x, Data
  <2>3. as # {} => data[x] = Data(x)
    BY <2>2
  <2> HIDE DEF data
  <2>4. brkpts' = IF as = {} THEN code ELSE Data(x).table
    BY <2>1, <2>3
  <2>5. QED BY <2>4 DEF x
<1>6. SameButIgnored(brkpts, code)
  BY CodeMatchTable
<1>7. SameButIgnored(brkpts, brkpts')
  <2>1. CASE as = {}
    BY <1>5, <1>6, <2>1
  <2>2. CASE as # {}
    <3> DEFINE a == CHOOSE b \in as : TRUE
    <3>1. brkpts' = Data(a).table
      BY <1>5, <2>2
    <3>2. code \in Seq(Entry) /\ brkpts \in Seq(Entry)
      BY <1>6, InvFacts DEF SameButIgnored
    <3> HIDE DEF code, a
    <3>3. SameButIgnored(code, Data(a).table)
      BY <3>2, MatchTable
    <3> HIDE DEF Data
    <3>4. QED BY <1>6, <3>1, <3>2, <3>3, SameSame
  <2>3. QED BY <2>1, <2>2
<1>8. ~touched /\ icount' \in 0..nMaxInstructions
  BY <1>1, NothingTouched
<1>9. ASSUME touched' PROVE p # {}
  <2>1. PICK a \in as : Armed(a)
    BY <1>1, <1>8, <1>9
  <2>2. Data(a).found
    <3>1. a.kind \in {"read", "write"}
      BY <1>2
    <3>2. QED BY <2>1, <3>1, ArmedIsFound
  <2> HIDE DEF Data
  <2>3. a.kind \in p
    BY <2>2
  <2>4. QED BY <2>3
<1> HIDE DEF p, hits, Data, code
<1>10. sim' \in Sims /\ sim'.pending = p
  <2>1. Turned(pc) \in Sims
    BY <1>1, InvFacts, NothingTouched, TurnedTyped
  <2> DEFINE s == Turned(pc)
             t == [s EXCEPT !.ended = ends]
  <2> HIDE DEF s
  <2>2. t \in Sims
    BY <2>1 DEF s, Sims
  <2>3. sim' = [t EXCEPT !.pending = p]
    BY <1>4 DEF s
  <2> HIDE DEF t
  <2>4. QED BY <1>3, <2>2, <2>3 DEF Sims
<1>11. TouchedPends'
  BY <1>9, <1>10 DEF TouchedPends
<1>12. patched' \subseteq Addrs
  BY <1>1, InvFacts
<1>13. QED BY <1>1, <1>7, <1>8, <1>10, <1>11, <1>12, RunKeeps

-----------------------------------------------------------------------------
(* The invariant, and what follows from it. *)

LEMMA CommandsKeep ==
    ASSUME Inv, ~miscounted, Commands
    PROVE  Inv'
<1>1. CASE \E a \in Addrs : sim_hbreak(a) \/ sim_create_inferior(a)
  <2>1. PICK a \in Addrs : sim_hbreak(a) \/ sim_create_inferior(a)
    BY <1>1
  <2>2. CASE sim_hbreak(a)
    BY <2>2, SetBreakpointKeeps, SetAccessBreakpointKeeps DEF sim_hbreak
  <2>3. CASE sim_create_inferior(a)
    BY <2>3, CreateKeeps
  <2>4. QED BY <2>1, <2>2, <2>3
<1>2. CASE \E i \in 1..MAX_BRKPTS : EnableBreakpoint(i) \/ DisableBreakpoint(i)
  BY <1>2, EnableBreakpointKeeps, DisableBreakpointKeeps
<1>3. CASE \E i \in 1..MAX_BRKPTS, n \in 0..MaxIgnore : brkpt_set_ignore_count(i, n)
  BY <1>3, SetIgnoreCountKeeps
<1>4. CASE \E a \in Addrs, ks \in {{"exec"}, {"read"}, {"write"}, {"read", "write"}} :
              sim_remove_hbreak(a, ks)
  BY <1>4, RemoveKeeps
<1>5. CASE \E a \in Addrs, b \in BOOLEAN : sim_write(a, b)
  BY <1>5, WriteKeeps
<1>6. CASE StartsRun \/ sim_resume
  BY <1>6, StartsKeep
<1>7. QED BY <1>1, <1>2, <1>3, <1>4, <1>5, <1>6 DEF Commands

LEMMA TurnsKeep ==
    ASSUME Inv, ~miscounted, executeBytecode
    PROVE  Inv'
<1>1. CASE LeaveLoop \/ StopAfterSteps \/ StopAtData \/ StopAtCode
  BY <1>1, StopsKeep
<1>2. CASE ExitAtLimit
  BY <1>2, ExitKeeps
<1>3. CASE StopAtPatch
  BY <1>3, PatchKeeps
<1>4. CASE \E pc \in Addrs : IdleTurn(pc)
  BY <1>4, IdleKeeps
<1>5. CASE \E pc \in Addrs, as \in Accesses, ends \in BOOLEAN :
              ExecuteInstruction(pc, as, ends)
  BY <1>5, ExecuteKeeps
<1>6. QED BY <1>1, <1>2, <1>3, <1>4, <1>5 DEF executeBytecode

LEMMA InvNext == Inv /\ [Next]_vars => Inv'
<1> SUFFICES ASSUME Inv, [Next]_vars PROVE Inv'
  OBVIOUS
<1>1. CASE Next
  BY <1>1, CommandsKeep, TurnsKeep, InterruptKeeps DEF Next
<1>2. CASE UNCHANGED vars
  BY <1>2 DEF vars, Inv, TypeOK, EnabledCountRight, TouchedPends
<1>3. QED BY <1>1, <1>2

THEOREM Invariance == Spec => []Inv
<1>1. QED BY InvInit, InvNext, PTL DEF Spec

(* The table, its count, and the record of the run are well typed: ignore       *)
(* counts never go below 0 (breakpoints.c: brkpt_match), the table never past   *)
(* its end as long as commands leave room, steps never below Forever.           *)
THEOREM TypeCorrect == Spec => []TypeOK
<1>1. Inv => TypeOK
  BY DEF Inv
<1>2. QED BY <1>1, Invariance, PTL

(* nbrkpts_enabled is the number of enabled entries, whatever is set, removed,  *)
(* ignored or run, as long as no command named a breakpoint that was already    *)
(* as it asked (breakpoints.c: brkpt_add, brkpt_enable, brkpt_disable,          *)
(* brkpt_disable_addr).                                                         *)
THEOREM CountRight == Spec => []EnabledCountRight
<1>1. Inv => EnabledCountRight
  BY DEF Inv
<1>2. QED BY <1>1, Invariance, PTL

(* No instruction is counted but by executing one. *)
LEMMA OnlyExecuted ==
    ASSUME [Next]_vars, icount' # icount
    PROVE  /\ ~miscounted
           /\ \E pc \in Addrs, as \in Accesses, ends \in BOOLEAN :
                  ExecuteInstruction(pc, as, ends)
<1>1. ~miscounted /\ (Commands \/ executeBytecode \/ sim_ctrl_c)
  BY DEF Next, vars
<1>2. ~Commands
  BY DEF Commands, sim_hbreak, SetBreakpoint, SetAccessBreakpoint, SetTable,
         sim_create_inferior, EnableBreakpoint, DisableBreakpoint,
         brkpt_set_ignore_count, sim_remove_hbreak, sim_write, StartsRun, StartRun,
         sim_resume
<1>3. ~sim_ctrl_c
  BY DEF sim_ctrl_c
<1>4. executeBytecode => \E pc \in Addrs, as \in Accesses, ends \in BOOLEAN :
                              ExecuteInstruction(pc, as, ends)
  BY DEF executeBytecode, LeaveLoop, StopAfterSteps, ExitAtLimit, StopAtData, StopAtCode,
         StopAtPatch, IdleTurn, StopWith
<1>5. QED BY <1>1, <1>2, <1>3, <1>4

(* An instruction with an enabled code breakpoint that is not to be ignored is  *)
(* not executed, except as the first of a run (iam.c: executeBytecode,          *)
(* breakpoints.c: brkpt_match): the count, which switches the search off, is    *)
(* not 0 when a breakpoint is enabled, and the search goes on past the entries  *)
(* that are to be ignored.                                                      *)
THEOREM CodeStops == Spec => CodeBreakpointStops
<1> DEFINE Here == [addr |-> sim.pc, size |-> 0, kind |-> "exec"]
<1>1. Inv /\ [Next]_vars => [icount' # icount /\ ~sim.first => ~Armed(Here)]_vars
  <2> SUFFICES ASSUME Inv, [Next]_vars, icount' # icount, ~sim.first, Armed(Here)
               PROVE  FALSE
    OBVIOUS
  <2>1. ~miscounted /\ NothingStops
    BY OnlyExecuted DEF ExecuteInstruction
  <2>2. CodeMatch = brkpt_match(brkpts, nbrkpts_enabled, sim.pc, 0, "exec")
    BY DEF CodeMatch
  <2>3. PICK i \in Matching(brkpts, sim.pc, 0, "exec") : brkpts[i].ignore = 0
    BY DEF Armed
  <2>4. nbrkpts_enabled # 0
    <3>1. nbrkpts_enabled = Cardinality(Enabled(brkpts))
      BY <2>1 DEF Inv, EnabledCountRight
    <3>2. i \in Enabled(brkpts) /\ IsFiniteSet(Enabled(brkpts))
      BY InvFacts, EnabledFinite DEF Matching
    <3>3. QED BY <3>1, <3>2, FS_EmptySet
  <2>5. CodeMatch.found
    BY <2>2, <2>3, <2>4, InvFacts, MatchTable
  <2>6. QED BY <2>1, <2>5 DEF NothingStops
<1>2. QED BY <1>1, Invariance, PTL DEF Spec, CodeBreakpointStops

(* No instruction follows one of the same run that touched a data breakpoint    *)
(* not to be ignored (javamem.c: javaMemRead, javaMemWrite, iam.c:              *)
(* executeBytecode): the note of the match stays until the loop looks at it.    *)
THEOREM DataStops == Spec => DataBreakpointStops
<1>1. Inv /\ [Next]_vars => [icount' # icount => ~touched]_vars
  <2> SUFFICES ASSUME Inv, [Next]_vars, icount' # icount
               PROVE  ~touched
    OBVIOUS
  <2>1. NothingStops
    BY OnlyExecuted DEF ExecuteInstruction
  <2>2. QED BY <2>1, NothingTouched
<1>2. QED BY <1>1, Invariance, PTL DEF Spec, DataBreakpointStops
=============================================================================
