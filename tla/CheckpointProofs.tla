-------------------------- MODULE CheckpointProofs --------------------------
(***************************************************************************)
(* Proofs about module Interrupts and about module Checkpoint, which       *)
(* composes it with the rest of a checkpoint.                              *)
(*                                                                         *)
(* Interrupts, for any size of the table, any counts, levels and           *)
(* instruction limit: the type invariant, that the cached next interrupt   *)
(* is the earliest one, and that none is overdue as long as no dispatch    *)
(* broke off at a tie.                                                     *)
(*                                                                         *)
(* Checkpoint, for any table of interrupts, any cache sizes, any number of *)
(* checkpoints and files cut at any item: the type invariant, that the     *)
(* caches are indexed within what was allocated for them, and that a       *)
(* restart from a whole file brings back what was saved.  They rest on an  *)
(* invariant of the file, which outlives the process that wrote it.        *)
(***************************************************************************)
EXTENDS Checkpoint, TLAPS

(* The slots of Interrupt records, expanded once for the provers.          *)
LEMMA SlotFields ==
    ASSUME NEW t \in [Slots -> Interrupt], NEW i \in Slots
    PROVE  /\ t[i].irl \in 0..15
           /\ t[i].next_intr_at \in Nat
           /\ t[i].is_enabled \in BOOLEAN
           /\ t[i].is_repeating \in BOOLEAN
           /\ t[i].repeat_count \in Nat
  BY DEF Interrupt

(* Rescheduling always leaves a well-typed pair behind.                    *)
LEMMA ScheduleTyped ==
    ASSUME NEW t \in [Slots -> Interrupt], NEW last, intr_schedule_next(t, last)
    PROVE  /\ next_intr_id' \in -1..MaxIntrs
           /\ next_sched_intr_icount' \in Nat \cup {None}
<1>1. CASE Enabled(t, last) = {} /\ next_intr_id' = None
           /\ next_sched_intr_icount' = None
  BY <1>1, InterruptsAssumption DEF None
<1>2. ASSUME NEW i \in Slots, next_intr_id' = i,
             next_sched_intr_icount' = t[i].next_intr_at
      PROVE  /\ next_intr_id' \in -1..MaxIntrs
             /\ next_sched_intr_icount' \in Nat \cup {None}
  BY <1>2, SlotFields, InterruptsAssumption DEF Slots
<1>3. QED BY <1>1, <1>2 DEF intr_schedule_next

(* The table after a dispatch: what the types say of intrs is preserved.     *)
LEMMA DispatchedTyped ==
    ASSUME Typed
    PROVE  /\ Dispatched \in [Slots -> Interrupt]
           /\ \A i \in Slots : /\ Dispatched[i].is_repeating = intrs[i].is_repeating
                               /\ Dispatched[i].repeat_count = intrs[i].repeat_count
                               /\ ~intrs[i].is_enabled => ~Dispatched[i].is_enabled
<1> DEFINE D(i) == IF i \notin Visited THEN intrs[i]
                   ELSE IF intrs[i].is_repeating
                        THEN [intrs[i] EXCEPT !.next_intr_at =
                                  icount + intrs[i].repeat_count]
                        ELSE [intrs[i] EXCEPT !.is_enabled = FALSE]
<1>1. Dispatched = [i \in Slots |-> D(i)]
  BY DEF Dispatched
<1>2. ASSUME NEW i \in Slots
      PROVE  /\ D(i) \in Interrupt
             /\ D(i).is_repeating = intrs[i].is_repeating
             /\ D(i).repeat_count = intrs[i].repeat_count
             /\ ~intrs[i].is_enabled => ~D(i).is_enabled
  <2>1. intrs[i] \in Interrupt /\ icount \in Nat
    BY DEF Typed
  <2>2. icount + intrs[i].repeat_count \in Nat
    BY <2>1 DEF Interrupt
  <2>3. CASE i \notin Visited
    BY <2>1, <2>3
  <2>4. CASE i \in Visited /\ intrs[i].is_repeating
    BY <2>1, <2>2, <2>4 DEF Interrupt
  <2>5. CASE i \in Visited /\ ~intrs[i].is_repeating
    BY <2>1, <2>5 DEF Interrupt
  <2>6. QED BY <2>3, <2>4, <2>5
<1>3. \A i \in Slots : Dispatched[i] = D(i)
  BY <1>1
<1> HIDE DEF D
<1>4. QED BY <1>1, <1>2, <1>3

(* The new slot of intr_add lies in the table.                             *)
LEMMA SlotInTable ==
    ASSUME Typed, NEW i \in Slots, TakesSlot(i)
    PROVE  /\ (IF i > last_intr_set THEN i ELSE last_intr_set) \in -1..MaxIntrs
           /\ \A j \in Slots : j > (IF i > last_intr_set THEN i ELSE last_intr_set)
                               => j > last_intr_set /\ j # i
  BY InterruptsAssumption DEF Typed, Slots

LEMMA UsedSlots ==
    ASSUME Typed
    PROVE  0..last_intr_set \subseteq Slots
  BY InterruptsAssumption DEF Typed, Slots

LEMMA InitTyped == Init => Typed
<1> SUFFICES ASSUME Init PROVE Typed
  OBVIOUS
<1>1. EmptySlot \in Interrupt
  BY DEF EmptySlot, Interrupt
<1>2. intrs \in [Slots -> Interrupt]
  BY <1>1 DEF Init
<1>3. \A i \in Slots : ~intrs[i].is_repeating
  BY DEF Init, EmptySlot
<1>4. /\ icount \in Nat
      /\ last_intr_set \in -1..MaxIntrs
      /\ next_intr_id \in -1..MaxIntrs
      /\ next_sched_intr_icount \in Nat \cup {None}
      /\ uIRLState \in 0..15 /\ pil \in 0..15
  BY InterruptsAssumption DEF Init, None
<1>5. /\ bNMIState \in BOOLEAN /\ bPowerDownState \in BOOLEAN
      /\ ie \in BOOLEAN /\ left_behind \in BOOLEAN
  BY DEF Init
<1>6. QED BY <1>2, <1>3, <1>4, <1>5 DEF Typed

LEMMA AddTyped ==
    ASSUME Typed, NEW count \in Counts, NEW irl \in Irls, NEW rep \in Repeats,
           intr_add(count, irl, rep)
    PROVE  Typed'
<1>1. PICK i \in Slots :
         /\ TakesSlot(i)
         /\ last_intr_set' = IF i > last_intr_set THEN i ELSE last_intr_set
         /\ intrs' = [intrs EXCEPT ![i] =
                         [irl          |-> irl,
                          next_intr_at |-> icount + count,
                          is_enabled   |-> TRUE,
                          is_repeating |-> rep,
                          repeat_count |-> count]]
  BY DEF intr_add
<1>2. count \in Nat /\ irl \in 0..15 /\ rep \in BOOLEAN /\ icount + count \in Nat
  BY InterruptsAssumption DEF Typed
<1>3. intrs' \in [Slots -> Interrupt]
  BY <1>1, <1>2 DEF Typed, Interrupt
<1>4. \A j \in Slots : intrs'[j].is_repeating => intrs'[j].repeat_count > 0
  BY <1>1, <1>2 DEF Typed, intr_add
<1>5. last_intr_set' \in -1..MaxIntrs
  BY <1>1, SlotInTable
<1>6. intr_schedule_next(intrs', last_intr_set')
  BY DEF intr_add
<1>7. /\ next_intr_id' \in -1..MaxIntrs
      /\ next_sched_intr_icount' \in Nat \cup {None}
  BY <1>3, <1>6, ScheduleTyped
<1>8. QED BY <1>3, <1>4, <1>5, <1>7
          DEF Typed, intr_add, pins, psr

LEMMA DisableTyped ==
    ASSUME Typed, NEW i \in 0..(MaxIntrs - 1), intr_disable(i)
    PROVE  Typed'
<1>1. i \in Slots
  BY InterruptsAssumption DEF Slots
<1>2. intrs' \in [Slots -> Interrupt]
  BY <1>1 DEF Typed, Interrupt, intr_disable
<1>3. \A j \in Slots : intrs'[j].is_repeating => intrs'[j].repeat_count > 0
  BY <1>1 DEF Typed, intr_disable, Interrupt
<1>4. /\ next_intr_id' \in -1..MaxIntrs
      /\ next_sched_intr_icount' \in Nat \cup {None}
  BY <1>2, ScheduleTyped DEF intr_disable
<1>5. QED BY <1>2, <1>3, <1>4 DEF Typed, intr_disable, pins, psr

LEMMA DispatchTyped ==
    ASSUME Typed, intr_dispatch
    PROVE  /\ intrs' \in [Slots -> Interrupt]
           /\ \A i \in Slots : intrs'[i].is_repeating => intrs'[i].repeat_count > 0
           /\ next_intr_id' \in -1..MaxIntrs
           /\ next_sched_intr_icount' \in Nat \cup {None}
           /\ left_behind' \in BOOLEAN
<1>1. CASE Dispatching
  <2>1. intrs' = Dispatched /\ intr_schedule_next(Dispatched, last_intr_set)
        /\ left_behind' = (left_behind \/ Visited # DueSlots)
    BY <1>1 DEF intr_dispatch
  <2>2. left_behind' \in BOOLEAN
    BY <2>1 DEF Typed
  <2>3. /\ next_intr_id' \in -1..MaxIntrs
        /\ next_sched_intr_icount' \in Nat \cup {None}
    BY <2>1, DispatchedTyped, ScheduleTyped
  <2>4. QED BY <2>1, <2>2, <2>3, DispatchedTyped DEF Typed
<1>2. CASE ~Dispatching
  BY <1>2 DEF intr_dispatch, sched, Typed
<1>3. QED BY <1>1, <1>2

LEMMA PinsTyped ==
    ASSUME Typed, Dispatching => next_intr_id \in Slots
    PROVE  IrlNow \in 0..15 /\ NmiNow \in BOOLEAN
<1>1. Dispatching => Raised \in 0..15
  BY DEF Raised, Typed, Interrupt
<1>2. QED BY <1>1 DEF IrlNow, NmiNow, Typed

LEMMA LoopTyped ==
    ASSUME Typed, Dispatching => next_intr_id \in Slots, executeBytecode
    PROVE  Typed'
<1>1. /\ intrs' \in [Slots -> Interrupt]
      /\ \A i \in Slots : intrs'[i].is_repeating => intrs'[i].repeat_count > 0
      /\ next_intr_id' \in -1..MaxIntrs
      /\ next_sched_intr_icount' \in Nat \cup {None}
      /\ left_behind' \in BOOLEAN
  <2>1. intr_dispatch
    BY DEF executeBytecode
  <2>2. QED BY <2>1, DispatchTyped
<1>2. /\ icount' \in Nat
      /\ last_intr_set' = last_intr_set
      /\ uIRLState' \in 0..15 /\ bNMIState' \in BOOLEAN
      /\ bPowerDownState' \in BOOLEAN
      /\ ie' \in BOOLEAN /\ pil' \in 0..15
  <2>1. CASE TakeInterrupt
    BY <2>1, PinsTyped DEF TakeInterrupt, SetPins, Typed
  <2>2. CASE Sleep
    BY <2>2, PinsTyped DEF Sleep, SetPins, Typed, psr
  <2>3. CASE Execute
    <3>1. icount' \in Nat /\ last_intr_set' = last_intr_set
      BY <2>3 DEF Execute, Typed
    <3>2. CASE OtherInstruction
      BY <3>1, <3>2, PinsTyped DEF OtherInstruction, SetPins, Typed, psr
    <3>3. CASE EndOfInterrupt
      <4>1. uIRLState' \in 0..15
        BY <3>3 DEF EndOfInterrupt
      <4>2. bNMIState' \in BOOLEAN
        BY <3>3 DEF EndOfInterrupt
      <4>3. UNCHANGED <<bPowerDownState, ie, pil>>
        BY <3>3 DEF EndOfInterrupt, psr
      <4>4. QED BY <3>1, <4>1, <4>2, <4>3 DEF Typed
    <3>4. CASE priv_powerdown
      BY <3>1, <3>4, PinsTyped DEF priv_powerdown, SetPins, Typed, psr
    <3>5. CASE WritePsr
      BY <3>1, <3>5, PinsTyped, InterruptsAssumption DEF WritePsr, SetPins, Typed
    <3>6. CASE initPico
      <4>1. uIRLState' \in 0..15 /\ pil' \in 0..15
        BY <3>6 DEF initPico
      <4>2. /\ bNMIState' \in BOOLEAN /\ bPowerDownState' \in BOOLEAN
            /\ ie' \in BOOLEAN
        BY <3>6, Zenon DEF initPico
      <4>3. QED BY <3>1, <4>1, <4>2
    <3>7. QED BY <2>3, <3>2, <3>3, <3>4, <3>5, <3>6 DEF Execute
  <2>4. QED BY <2>1, <2>2, <2>3 DEF executeBytecode
<1>3. QED BY <1>1, <1>2 DEF Typed

(* The schedule is refreshed by every step that changes the table.         *)
LEMMA ScheduleKept ==
    ASSUME ScheduleIsEarliest, [Next]_vars
    PROVE  ScheduleIsEarliest'
<1>1. CASE intr_schedule_next(intrs', last_intr_set')
  BY <1>1 DEF intr_schedule_next, ScheduleIsEarliest
<1>2. CASE UNCHANGED <<last_intr_set, sched, intrs>>
  BY <1>2 DEF sched, ScheduleIsEarliest, Enabled, IsNext, Before
<1>3. ASSUME NEW count, NEW irl, NEW rep, intr_add(count, irl, rep)
      PROVE  ScheduleIsEarliest'
  BY <1>1, <1>3 DEF intr_add
<1>4. ASSUME NEW i, intr_disable(i)
      PROVE  ScheduleIsEarliest'
  BY <1>1, <1>4 DEF intr_disable
<1>5. CASE intr_list
  BY <1>1, <1>5 DEF intr_list
<1>6. CASE ResetCmd
  BY <1>2, <1>6 DEF ResetCmd
<1>7. CASE executeBytecode
  <2>1. last_intr_set' = last_intr_set
    BY <1>7 DEF executeBytecode, TakeInterrupt, Sleep, Execute
  <2>2. CASE Dispatching
    BY <1>1, <1>7, <2>1, <2>2 DEF executeBytecode, intr_dispatch
  <2>3. CASE ~Dispatching
    BY <1>2, <1>7, <2>1, <2>3 DEF executeBytecode, intr_dispatch
  <2>4. QED BY <2>2, <2>3
<1>8. CASE UNCHANGED vars
  BY <1>2, <1>8 DEF vars
<1>9. QED BY <1>3, <1>4, <1>5, <1>6, <1>7, <1>8 DEF Next, User

(* The types need of the schedule only that what is dispatched is in the   *)
(* table.                                                                  *)
LEMMA TypedKept ==
    ASSUME Typed, Dispatching => next_intr_id \in Slots, [Next]_vars
    PROVE  Typed'
<1>1. CASE intr_list
  BY <1>1, ScheduleTyped DEF intr_list, Typed, pins, psr
<1>2. CASE ResetCmd
  <2>1. uIRLState' \in 0..15 /\ pil' \in 0..15
    BY <1>2 DEF ResetCmd, initPico
  <2>2. /\ bNMIState' \in BOOLEAN /\ bPowerDownState' \in BOOLEAN
        /\ ie' \in BOOLEAN
    BY <1>2, Zenon DEF ResetCmd, initPico
  <2>3. UNCHANGED <<icount, last_intr_set, next_intr_id,
                    next_sched_intr_icount, intrs, left_behind>>
    BY <1>2 DEF ResetCmd, sched
  <2>4. QED BY <2>1, <2>3, <2>2 DEF Typed
<1>3. CASE UNCHANGED vars
  BY <1>3 DEF vars, sched, pins, psr, Typed
<1>4. QED BY <1>1, <1>2, <1>3, AddTyped, DisableTyped, LoopTyped DEF Next, User

(* A slot is handed out before it is enabled.                              *)
LEMMA UnusedKept ==
    ASSUME Typed, UnusedDisabled, [Next]_vars
    PROVE  UnusedDisabled'
<1>1. ASSUME NEW count \in Counts, NEW irl \in Irls, NEW rep \in Repeats,
             intr_add(count, irl, rep)
      PROVE  UnusedDisabled'
  <2>1. PICK i \in Slots :
           /\ TakesSlot(i)
           /\ last_intr_set' = IF i > last_intr_set THEN i ELSE last_intr_set
           /\ intrs' = [intrs EXCEPT ![i] =
                           [irl          |-> irl,
                            next_intr_at |-> icount + count,
                            is_enabled   |-> TRUE,
                            is_repeating |-> rep,
                            repeat_count |-> count]]
    BY <1>1 DEF intr_add
  <2>2. \A j \in Slots : j > last_intr_set' => j > last_intr_set /\ j # i
    BY <2>1, SlotInTable
  <2>3. QED BY <2>1, <2>2 DEF UnusedDisabled, Typed
<1>2. ASSUME NEW i \in 0..(MaxIntrs - 1), intr_disable(i)
      PROVE  UnusedDisabled'
  <2>1. i \in Slots
    BY InterruptsAssumption DEF Slots
  <2>2. QED BY <1>2, <2>1 DEF intr_disable, UnusedDisabled, Typed, Interrupt
<1>3. CASE executeBytecode
  <2>1. last_intr_set' = last_intr_set
    BY <1>3 DEF executeBytecode, TakeInterrupt, Sleep, Execute
  <2>2. intrs' = Dispatched \/ intrs' = intrs
    BY <1>3 DEF executeBytecode, intr_dispatch
  <2>3. QED BY <2>1, <2>2, DispatchedTyped DEF UnusedDisabled
<1>4. CASE UNCHANGED <<last_intr_set, intrs>>
  BY <1>4 DEF UnusedDisabled
<1>5. QED BY <1>1, <1>2, <1>3, <1>4 DEF Next, User, intr_list, ResetCmd, vars

(* The schedule names a slot of the table.                                 *)
LEMMA DispatchedInTable ==
    ASSUME Typed, ScheduleIsEarliest, Dispatching
    PROVE  next_intr_id \in Slots
  BY InterruptsAssumption
     DEF Dispatching, ScheduleIsEarliest, None, Typed, IsNext, Enabled, Slots

LEMMA TypeKept ==
    ASSUME TypeOK, ScheduleIsEarliest, [Next]_vars
    PROVE  TypeOK'
<1>1. Typed' /\ UnusedDisabled'
  BY TypedKept, UnusedKept, DispatchedInTable DEF TypeOK
<1>2. QED BY <1>1 DEF TypeOK

(***************************************************************************)
(* The type invariant and the schedule, for every value of the constants.  *)
(* They are one inductive invariant: the pins are set from the slot        *)
(* next_intr_id names, which is a slot of the table only because the       *)
(* schedule is right.                                                      *)
(***************************************************************************)
THEOREM TypeAndSchedule == Spec => [](TypeOK /\ ScheduleIsEarliest)
<1>1. Init => TypeOK /\ ScheduleIsEarliest
  <2>1. Init => ScheduleIsEarliest
    BY DEF Init, ScheduleIsEarliest, Enabled, None
  <2>2. Init => UnusedDisabled
    BY DEF Init, UnusedDisabled, EmptySlot
  <2>3. QED BY <2>1, <2>2, InitTyped DEF TypeOK
<1>2. TypeOK /\ ScheduleIsEarliest /\ [Next]_vars
      => (TypeOK /\ ScheduleIsEarliest)'
  BY TypeKept, ScheduleKept
<1>3. QED BY <1>1, <1>2, PTL DEF Spec

(* What the runs check as the type invariant of the module.                *)
THEOREM TypeCorrect == Spec => []TypeOK
  BY TypeAndSchedule, PTL

(* Whatever the user and the program do, the number the main loop compares *)
(* icount with is that of the earliest enabled interrupt.                  *)
THEOREM ScheduleCorrect == Spec => []ScheduleIsEarliest
  BY TypeAndSchedule, PTL

-----------------------------------------------------------------------------
(* Once the dispatch of an iteration is over, and it left nothing behind,  *)
(* every enabled interrupt lies ahead: icount may be incremented.          *)
LEMMA AllAhead ==
    ASSUME Typed, UnusedDisabled, ScheduleIsEarliest, NeverOverdue, intr_dispatch, ~left_behind'
    PROVE  \A i \in 0..last_intr_set :
              intrs'[i].is_enabled => intrs'[i].next_intr_at > icount
<1> SUFFICES ASSUME NEW i \in 0..last_intr_set, intrs'[i].is_enabled
             PROVE  intrs'[i].next_intr_at > icount
  OBVIOUS
<1>1. i \in Slots
  BY UsedSlots
<1>2. CASE ~Dispatching
  <2>1. intrs' = intrs /\ ~left_behind
    BY <1>2 DEF intr_dispatch
  <2>2. intrs[i].is_enabled /\ intrs[i].next_intr_at >= icount
    BY <2>1 DEF NeverOverdue
  <2>3. i \in Enabled(intrs, last_intr_set)
    BY <2>2 DEF Enabled
  <2>4. /\ IsNext(intrs, last_intr_set, next_intr_id)
        /\ next_sched_intr_icount = intrs[next_intr_id].next_intr_at
    BY <2>3 DEF ScheduleIsEarliest
  <2>5. next_intr_id \in 0..last_intr_set /\ intrs[next_intr_id].is_enabled
    BY <2>4 DEF IsNext, Enabled
  <2>6. intrs[next_intr_id].next_intr_at >= icount
    BY <2>1, <2>5 DEF NeverOverdue
  <2>7. intrs[next_intr_id].next_intr_at # icount
    BY <1>2, <2>4 DEF Dispatching
  <2>8. next_intr_id = i \/ intrs[next_intr_id].next_intr_at <= intrs[i].next_intr_at
    <3>1. next_intr_id \in Slots
      BY <2>5, UsedSlots
    <3>2. QED BY <1>1, <2>3, <2>4, <3>1, SlotFields DEF IsNext, Before, Typed
  <2>9. QED
    <3>1. next_intr_id \in Slots
      BY <2>5, UsedSlots
    <3>2. intrs[i].next_intr_at \in Nat /\ intrs[next_intr_id].next_intr_at \in Nat
      BY <1>1, <3>1, SlotFields DEF Typed
    <3>3. icount \in Nat
      BY DEF Typed
    <3>4. QED BY <2>1, <2>2, <2>6, <2>7, <2>8, <3>2, <3>3
<1>3. CASE Dispatching
  <2>1. intrs' = Dispatched /\ ~left_behind /\ Visited = DueSlots
    BY <1>3 DEF intr_dispatch
  <2>2. intrs[i].is_enabled
    BY <1>1, <2>1, DispatchedTyped
  <2>3. intrs[i].next_intr_at >= icount
    BY <2>1, <2>2 DEF NeverOverdue
  <2>4. CASE i \in DueSlots
    <3>1. intrs[i].is_repeating
      BY <1>1, <2>1, <2>4 DEF Dispatched, Typed, Interrupt
    <3>2. intrs'[i].next_intr_at = icount + intrs[i].repeat_count
      BY <1>1, <2>1, <2>4, <3>1 DEF Dispatched, Typed, Interrupt
    <3>3. intrs[i].repeat_count \in Nat /\ intrs[i].repeat_count > 0
      BY <1>1, <3>1, SlotFields DEF Typed
    <3>4. QED BY <3>2, <3>3 DEF Typed
  <2>5. CASE i \notin DueSlots
    <3>1. intrs'[i] = intrs[i]
      BY <1>1, <2>1, <2>5 DEF Dispatched
    <3>2. intrs[i].next_intr_at # icount
      BY <2>2, <2>5 DEF DueSlots, Due
    <3>3. intrs[i].next_intr_at \in Nat /\ icount \in Nat
      BY <1>1, SlotFields DEF Typed
    <3>4. QED BY <2>3, <3>1, <3>2, <3>3
  <2>6. QED BY <2>4, <2>5
<1>4. QED BY <1>2, <1>3

LEMMA NeverOverdueKept ==
    ASSUME Typed, UnusedDisabled, ScheduleIsEarliest, NeverOverdue, [Next]_vars
    PROVE  NeverOverdue'
<1>1. ASSUME NEW count \in Counts, NEW irl \in Irls, NEW rep \in Repeats,
             intr_add(count, irl, rep)
      PROVE  NeverOverdue'
  <2>1. PICK i \in Slots :
           /\ TakesSlot(i)
           /\ last_intr_set' = IF i > last_intr_set THEN i ELSE last_intr_set
           /\ intrs' = [intrs EXCEPT ![i] =
                           [irl          |-> irl,
                            next_intr_at |-> icount + count,
                            is_enabled   |-> TRUE,
                            is_repeating |-> rep,
                            repeat_count |-> count]]
    BY <1>1 DEF intr_add
  <2>2. icount' = icount /\ left_behind' = left_behind
    BY <1>1 DEF intr_add
  <2>3. count \in Nat /\ icount \in Nat
    BY InterruptsAssumption DEF Typed
  <2>4. SUFFICES ASSUME ~left_behind, NEW j \in 0..last_intr_set',
                        intrs'[j].is_enabled
                 PROVE  intrs'[j].next_intr_at >= icount
    BY <2>2 DEF NeverOverdue
  <2>5. j \in Slots
    <3>1. last_intr_set' \in -1..MaxIntrs
      BY <2>1, SlotInTable
    <3>2. QED BY <3>1, InterruptsAssumption DEF Slots
  <2>6. CASE j = i
    BY <2>1, <2>3, <2>6 DEF Typed
  <2>7. CASE j # i
    <3>1. intrs'[j] = intrs[j]
      BY <2>1, <2>5, <2>7 DEF Typed
    <3>2. j \in 0..last_intr_set
      BY <2>1, <2>5, <2>7, <2>4, <3>1 DEF Typed, UnusedDisabled, Slots
    <3>3. QED BY <2>4, <3>1, <3>2 DEF NeverOverdue
  <2>8. QED BY <2>6, <2>7
<1>2. ASSUME NEW i \in 0..(MaxIntrs - 1), intr_disable(i)
      PROVE  NeverOverdue'
  <2>1. i \in Slots
    BY InterruptsAssumption DEF Slots
  <2>2. \A j \in Slots : /\ intrs'[j].is_enabled => intrs[j].is_enabled
                         /\ intrs'[j].next_intr_at = intrs[j].next_intr_at
    BY <1>2, <2>1 DEF intr_disable, Typed, Interrupt
  <2>3. 0..last_intr_set \subseteq Slots
    BY UsedSlots
  <2>4. QED BY <1>2, <2>2, <2>3 DEF intr_disable, NeverOverdue
<1>3. CASE UNCHANGED <<icount, last_intr_set, intrs, left_behind>>
  BY <1>3 DEF NeverOverdue
<1>4. CASE executeBytecode
  <2>1. last_intr_set' = last_intr_set /\ icount' \in {icount, icount + 1}
    BY <1>4 DEF executeBytecode, TakeInterrupt, Sleep, Execute
  <2>2. SUFFICES ASSUME ~left_behind', NEW i \in 0..last_intr_set,
                        intrs'[i].is_enabled
                 PROVE  intrs'[i].next_intr_at >= icount'
    BY <2>1 DEF NeverOverdue
  <2>3. intrs'[i].next_intr_at > icount
    BY <1>4, <2>2, AllAhead DEF executeBytecode
  <2>4. intrs'[i].next_intr_at \in Nat
    BY <1>4, DispatchTyped, UsedSlots, SlotFields DEF executeBytecode
  <2>5. QED BY <2>1, <2>3, <2>4 DEF Typed
<1>5. CASE intr_list
  BY <1>3, <1>5 DEF intr_list
<1>6. CASE ResetCmd
  BY <1>3, <1>6 DEF ResetCmd
<1>7. CASE UNCHANGED vars
  BY <1>3, <1>7 DEF vars
<1>8. QED BY <1>1, <1>2, <1>4, <1>5, <1>6, <1>7 DEF Next, User

(* For any table, any commands and any program: until a dispatch breaks    *)
(* off in front of an interrupt that is due, none is ever passed over.     *)
THEOREM OverdueCorrect == Spec => []NeverOverdue
<1>1. Init => NeverOverdue
  BY DEF Init, NeverOverdue, None
<1>2. TypeOK /\ ScheduleIsEarliest /\ NeverOverdue /\ [Next]_vars
      => NeverOverdue'
  BY NeverOverdueKept DEF TypeOK
<1>3. QED BY <1>1, <1>2, TypeAndSchedule, PTL DEF Spec

-----------------------------------------------------------------------------

(* The place of every item. *)
LEMMA ItemsAre ==
    /\ Len(Items) = 15
    /\ Items[1] = "header" /\ Items[2] = "memory" /\ Items[3] = "icount"
    /\ Items[4] = "psr" /\ Items[5] = "hcr" /\ Items[6] = "isize"
    /\ Items[7] = "dsize" /\ Items[8] = "counts" /\ Items[9] = "lines"
    /\ Items[10] = "control" /\ Items[11] = "stack cache"
    /\ Items[12] = "breakpoints" /\ Items[13] = "last_intr_set"
    /\ Items[14] = "next_intr_id" /\ Items[15] = "intrs"
  BY DEF Items

(* The counts come behind the sizes, the table comes last. *)
LEMMA ItemPlace ==
    ASSUME NEW i \in 1..15
    PROVE  /\ Items[i] = "counts" => i = 8
           /\ Items[i] = "dsize" => i = 7
           /\ Items[i] = "isize" => i = 6
           /\ Items[i] = "intrs" => i = 15
<1>1. \/ i = 1 \/ i = 2 \/ i = 3 \/ i = 4 \/ i = 5 \/ i = 6 \/ i = 7 \/ i = 8
      \/ i = 9 \/ i = 10 \/ i = 11 \/ i = 12 \/ i = 13 \/ i = 14 \/ i = 15
  OBVIOUS
<1>2. QED BY <1>1, ItemsAre

LEMMA HeldItems ==
    ASSUME NEW n \in 0..15
    PROVE  /\ "counts" \in Held(n) => "isize" \in Held(n) /\ "dsize" \in Held(n)
           /\ "dsize" \in Held(n) => "isize" \in Held(n)
           /\ "intrs" \in Held(n) => n = 15
<1>1. \A i \in 1..n : i \in 1..15
  OBVIOUS
<1>2. ASSUME "counts" \in Held(n)
      PROVE  "isize" \in Held(n) /\ "dsize" \in Held(n)
  <2>1. n >= 8
    BY <1>1, <1>2, ItemPlace DEF Held
  <2>2. 6 \in 1..n /\ 7 \in 1..n
    BY <2>1
  <2>3. QED BY <2>2, ItemsAre DEF Held
<1>3. ASSUME "dsize" \in Held(n) PROVE "isize" \in Held(n)
  <2>1. n >= 7
    BY <1>1, <1>3, ItemPlace DEF Held
  <2>2. 6 \in 1..n
    BY <2>1
  <2>3. QED BY <2>2, ItemsAre DEF Held
<1>4. ASSUME "intrs" \in Held(n) PROVE n = 15
  BY <1>1, <1>4, ItemPlace DEF Held
<1>5. QED BY <1>2, <1>3, <1>4

(* A whole file holds every item. *)
LEMMA WholeHolds ==
    /\ {"header", "memory", "icount", "psr", "hcr", "isize", "dsize", "counts", "lines",
        "control", "stack cache", "breakpoints", "last_intr_set", "next_intr_id",
        "intrs"} \subseteq Held(15)
    /\ Parts \subseteq Held(15)
<1>1. \A i \in 1..15 : Items[i] \in Held(15)
  BY DEF Held
<1>2. /\ 1 \in 1..15 /\ 2 \in 1..15 /\ 3 \in 1..15 /\ 4 \in 1..15 /\ 5 \in 1..15
      /\ 6 \in 1..15 /\ 7 \in 1..15 /\ 8 \in 1..15 /\ 9 \in 1..15 /\ 10 \in 1..15
      /\ 11 \in 1..15 /\ 12 \in 1..15 /\ 13 \in 1..15 /\ 14 \in 1..15 /\ 15 \in 1..15
  OBVIOUS
<1>3. {"header", "memory", "icount", "psr", "hcr", "isize", "dsize", "counts", "lines",
        "control", "stack cache", "breakpoints", "last_intr_set", "next_intr_id",
        "intrs"} \subseteq Held(15)
  BY <1>1, <1>2, ItemsAre
<1>4. QED BY <1>3, CheckpointAssumption

-----------------------------------------------------------------------------
(* What a checkpoint writes. *)

LEMMA StateFields ==
    /\ State.icount = icount /\ State.psr = psr /\ State.last_intr_set = last_intr_set
    /\ State.next_intr_id = next_intr_id
    /\ State.next_sched_intr_icount = next_sched_intr_icount
    /\ State.intrs = intrs /\ State.pins = pins /\ State.asleep = bPowerDownState
    /\ State.left_behind = left_behind /\ State.hcr = hcr_ics
    /\ State.isize = icache.size /\ State.counts = icache.entries
    /\ State.allocated = icache.allocated /\ State.mixed = mixed
    /\ State.size_cut = size_cut /\ State.contents = contents
  BY DEF State

LEMMA StateDomain ==
    DOMAIN State = {"icount", "psr", "last_intr_set", "next_intr_id",
                    "next_sched_intr_icount", "intrs", "pins", "asleep", "left_behind",
                    "hcr", "isize", "counts", "allocated", "mixed", "size_cut",
                    "contents"}
  BY DEF State

(* A field that is held, or the history, is in the file as it is. *)
LEMMA ImageField ==
    ASSUME NEW n \in 0..15, NEW x \in DOMAIN State, x # "contents",
           x \in Held(n) \/ x = "size_cut" \/ n = 15
    PROVE  Image(n)[x] = State[x]
<1>1. CASE n = 15
  BY <1>1, ItemsAre DEF Image
<1>2. CASE n # 15
  <2> DEFINE S == DOMAIN State \cap (Held(n) \cup {"contents", "size_cut"})
             F(y) == IF y = "contents" THEN HeldContents(n) ELSE State[y]
  <2>1. Image(n) = [y \in S |-> F(y)]
    BY <1>2, ItemsAre DEF Image
  <2>2. x \in S
    BY <1>2
  <2>3. F(x) = State[x]
    OBVIOUS
  <2> HIDE DEF S, F
  <2>4. QED BY <2>1, <2>2, <2>3
<1>3. QED BY <1>1, <1>2

LEMMA ImageContents ==
    ASSUME NEW n \in 0..15, NEW p \in Parts, p \in Held(n)
    PROVE  Image(n).contents[p] = contents[p]
<1>1. CASE n = 15
  BY <1>1, ItemsAre, StateFields DEF Image
<1>2. CASE n # 15
  <2> DEFINE S == DOMAIN State \cap (Held(n) \cup {"contents", "size_cut"})
             F(y) == IF y = "contents" THEN HeldContents(n) ELSE State[y]
  <2>1. Image(n) = [y \in S |-> F(y)]
    BY <1>2, ItemsAre DEF Image
  <2>2. "contents" \in S
    BY StateDomain
  <2>3. F("contents") = HeldContents(n)
    OBVIOUS
  <2>4. HeldContents(n)[p] = contents[p]
    BY DEF HeldContents
  <2> HIDE DEF S, F
  <2>5. Image(n)["contents"] = HeldContents(n)
    BY <2>1, <2>2, <2>3
  <2>6. QED BY <2>4, <2>5
<1>3. QED BY <1>1, <1>2

-----------------------------------------------------------------------------
(* The invariant of the state and of the file. *)

Sizes == {Entries(size) : size \in ISizes}

\* The machine: types, and the caches as they are laid out.
MachineOK == CPTypeOK /\ CacheGeometry

\* The items that are there, in whatever state they were written.
ItemsOK ==
    /\ InFile("icount") => Saved.icount \in Nat
    /\ InFile("psr") => /\ Saved.psr[1] \in BOOLEAN /\ Saved.psr[2] \in 0..15
                        /\ Saved.psr = <<Saved.psr[1], Saved.psr[2]>>
    /\ InFile("hcr") => Saved.hcr \in ISizes
    /\ InFile("isize") => Saved.isize \in ISizes
    /\ InFile("counts") => Saved.counts \in Sizes
    /\ InFile("counts") /\ ~Saved.size_cut => Saved.counts = Entries(Saved.isize)
    /\ \A p \in Parts : InFile(p) => Saved.contents[p] \in 0..1
    /\ InFile("last_intr_set") => Saved.last_intr_set \in -1..MaxIntrs
    /\ InFile("next_intr_id") => Saved.next_intr_id \in -1..MaxIntrs
    /\ InFile("intrs") =>
          /\ Saved.intrs \in [Slots -> Interrupt]
          /\ \A i \in Slots : Saved.intrs[i].is_repeating => Saved.intrs[i].repeat_count > 0

\* The rest of the state behind a whole file.
WholeOK ==
    /\ Saved.left_behind \in BOOLEAN /\ Saved.mixed \in BOOLEAN
    /\ Saved.asleep \in BOOLEAN
    /\ Saved.contents \in [Parts -> 0..1]
    /\ ~Saved.mixed => /\ Saved.hcr = Saved.isize
                       /\ \A i \in Slots : i > Saved.last_intr_set
                                              => ~Saved.intrs[i].is_enabled
    /\ ~Saved.size_cut =>
          Saved.allocated = IF Saved.isize = 0 THEN 0 ELSE Saved.counts

FileOK == file.length \in 0..15 /\ ItemsOK /\ (Whole => WholeOK)

CPInv == MachineOK /\ FileOK

LEMMA Defaults ==
    /\ None = -1 /\ None \in -1..MaxIntrs /\ 0 \in 0..15 /\ 0 \in Nat
    /\ DefaultISize \in ISizes
<1>1. MaxIntrs \in Nat /\ DefaultISize \in ISizes
  BY CheckpointAssumption, InterruptsAssumption
<1>2. QED BY <1>1 DEF None

LEMMA CacheMade ==
    ASSUME NEW size \in ISizes
    PROVE  LET c == icacheInit(size)
           IN  /\ c.size = size /\ c.entries = Entries(size) /\ c.entries \in Sizes
               /\ c.allocated = (IF size = 0 THEN 0 ELSE Entries(size))
               /\ c.allocated \in {0} \cup Sizes
<1>1. Entries(size) \in Sizes
  BY DEF Sizes
<1>2. QED BY <1>1 DEF icacheInit

LEMMA MachineFacts ==
    ASSUME MachineOK
    PROVE  /\ Typed /\ (~mixed => UnusedDisabled) /\ contents \in [Parts -> 0..1]
           /\ hcr_ics \in ISizes /\ icache.size \in ISizes /\ icache.entries \in Sizes
           /\ icache.allocated \in {0} \cup Sizes
           /\ mixed \in BOOLEAN /\ size_cut \in BOOLEAN
           /\ file.length \in 0..15
           /\ ~size_cut => /\ icache.entries = Entries(icache.size)
                           /\ icache.allocated =
                                 IF icache.size = 0 THEN 0 ELSE icache.entries
           /\ ~mixed => hcr_ics = icache.size
  BY ItemsAre DEF MachineOK, CPTypeOK, CacheGeometry, Sizes

LEMMA CPInitOK == CPInit => CPInv
<1> SUFFICES ASSUME CPInit PROVE CPInv
  OBVIOUS
<1>1. /\ Init /\ contents = PowerOn /\ hcr_ics = DefaultISize
      /\ icache = icacheInit(DefaultISize) /\ since = "long ago"
      /\ mixed = FALSE /\ size_cut = FALSE /\ file = [length |-> 0, of |-> <<>>]
  BY DEF CPInit
<1>2. Typed /\ UnusedDisabled
  BY <1>1, InitTyped DEF Init, UnusedDisabled, EmptySlot
<1>3. contents \in [Parts -> 0..1]
  <2>1. PowerOn \in [Parts -> 0..1]
    BY DEF PowerOn
  <2>2. QED BY <1>1, <2>1
<1>4. file.length = 0 /\ \A x : ~InFile(x)
  <2>1. file.length = 0
    BY <1>1
  <2>2. Held(0) = {}
    BY DEF Held
  <2>3. QED BY <2>1, <2>2 DEF InFile
<1>5. ~Whole
  <2>1. 0 # 15
    OBVIOUS
  <2>2. QED BY <1>4, <2>1, ItemsAre DEF Whole
<1>6. CPTypeOK
  BY <1>1, <1>2, <1>3, <1>4, CacheMade, Defaults, ItemsAre DEF CPTypeOK, Sizes
<1>7. CacheGeometry
  BY <1>1, CacheMade, Defaults DEF CacheGeometry
<1>8. FileOK
  BY <1>4, <1>5 DEF FileOK, ItemsOK
<1>9. QED BY <1>6, <1>7, <1>8 DEF CPInv, MachineOK

(* The file stays as it is, whatever happens to the process. *)
LEMMA FileKept ==
    ASSUME FileOK, UNCHANGED file
    PROVE  FileOK'
  BY DEF FileOK, ItemsOK, WholeOK, InFile, Whole, Saved

-----------------------------------------------------------------------------
(* checkpoint: what is written is as good as the state. *)
LEMMA CheckpointKeeps ==
    ASSUME MachineOK, checkpoint
    PROVE  MachineOK' /\ FileOK'
<1>1. PICK n \in 0..15 : file' = [length |-> n, of |-> Image(n)]
  BY ItemsAre DEF checkpoint
<1>2. /\ UNCHANGED <<vars, contents, hcr_ics, icache, mixed, size_cut>>
      /\ since' = "long ago"
  BY DEF checkpoint
<1>3. file'.length = n /\ file'.of = Image(n)
  BY <1>1
<1>4. MachineOK'
  <2>1. Typed' /\ (UnusedDisabled' <=> UnusedDisabled)
    BY <1>2, MachineFacts DEF Typed, UnusedDisabled, vars, sched, pins, psr
  <2>2. QED BY <1>2, <1>3, <2>1, MachineFacts, ItemsAre
            DEF MachineOK, CPTypeOK, CacheGeometry, Sizes
<1>5. /\ \A x : InFile(x)' <=> x \in Held(n)
      /\ Whole' <=> n = 15
      /\ Saved' = Image(n)
  BY <1>3, ItemsAre DEF InFile, Whole, Saved
<1>6. /\ n = 15 => \A x \in DOMAIN State : x # "contents" => Image(n)[x] = State[x]
      /\ \A x \in DOMAIN State : x # "contents" /\ x \in Held(n)
                                    => Image(n)[x] = State[x]
      /\ Image(n).size_cut = size_cut
  <2>1. "size_cut" \in DOMAIN State
    BY StateDomain
  <2>2. Image(n)["size_cut"] = State["size_cut"]
    BY <2>1, ImageField
  <2>3. QED BY <2>2, ImageField, StateFields
<1>7. Typed
  BY MachineFacts
<1>8. /\ "icount" \in Held(n) => Image(n).icount \in Nat
      /\ "psr" \in Held(n) => Image(n).psr = <<ie, pil>>
      /\ "hcr" \in Held(n) => Image(n).hcr \in ISizes
      /\ "isize" \in Held(n) => Image(n).isize = icache.size
      /\ "counts" \in Held(n) => Image(n).counts = icache.entries
      /\ "last_intr_set" \in Held(n) => Image(n).last_intr_set \in -1..MaxIntrs
      /\ "next_intr_id" \in Held(n) => Image(n).next_intr_id \in -1..MaxIntrs
      /\ "intrs" \in Held(n) => Image(n).intrs = intrs
  BY <1>6, <1>7, StateFields, StateDomain, MachineFacts DEF Typed, psr
<1>9. ItemsOK'
  <2>1. "psr" \in Held(n) => /\ Image(n).psr[1] \in BOOLEAN /\ Image(n).psr[2] \in 0..15
                             /\ Image(n).psr = <<Image(n).psr[1], Image(n).psr[2]>>
    BY <1>7, <1>8 DEF Typed
  <2>2. "counts" \in Held(n) => /\ Image(n).counts \in Sizes
                                /\ ~Image(n).size_cut
                                      => Image(n).counts = Entries(Image(n).isize)
    BY <1>6, <1>8, MachineFacts, HeldItems
  <2>3. \A p \in Parts : p \in Held(n) => Image(n).contents[p] \in 0..1
    BY ImageContents, MachineFacts
  <2>4. "intrs" \in Held(n) =>
          /\ Image(n).intrs \in [Slots -> Interrupt]
          /\ \A i \in Slots : Image(n).intrs[i].is_repeating
                                 => Image(n).intrs[i].repeat_count > 0
    BY <1>7, <1>8 DEF Typed
  <2>5. "isize" \in Held(n) => Image(n).isize \in ISizes
    BY <1>8, MachineFacts
  <2>6. QED BY <1>5, <1>8, <2>1, <2>2, <2>3, <2>4, <2>5 DEF ItemsOK
<1>10. ASSUME n = 15 PROVE WholeOK'
  <2>1. Image(15) = State
    BY ItemsAre DEF Image
  <2>2. Saved' = State
    BY <1>5, <1>10, <2>1
  <2>3. QED BY <1>7, <2>2, StateFields, MachineFacts DEF WholeOK, UnusedDisabled, Typed
<1>11. QED BY <1>3, <1>4, <1>5, <1>9, <1>10 DEF FileOK

-----------------------------------------------------------------------------
(* restart: whatever file there is, the state is typed and the caches fit. *)

LEMMA FileFacts ==
    ASSUME FileOK
    PROVE  /\ ItemsOK /\ (Whole => WholeOK) /\ file.length \in 0..15
           /\ InFile("counts") => InFile("isize") /\ InFile("dsize")
           /\ InFile("dsize") => InFile("isize")
           /\ InFile("intrs") => Whole
           /\ Whole => /\ InFile("header") /\ InFile("icount") /\ InFile("psr")
                       /\ InFile("hcr") /\ InFile("isize") /\ InFile("dsize")
                       /\ InFile("counts") /\ InFile("last_intr_set")
                       /\ InFile("next_intr_id") /\ InFile("intrs")
                       /\ \A p \in Parts : InFile(p)
<1>1. ItemsOK /\ (Whole => WholeOK) /\ file.length \in 0..15
  BY DEF FileOK
<1>2. Whole <=> file.length = 15
  BY ItemsAre DEF Whole
<1>3. QED BY <1>1, <1>2, HeldItems, WholeHolds DEF InFile

LEMMA RestartControlTyped ==
    ASSUME MachineOK, FileOK, RestartControl
    PROVE  /\ icount' \in Nat /\ uIRLState' \in 0..15 /\ bNMIState' \in BOOLEAN
           /\ bPowerDownState' \in BOOLEAN /\ ie' \in BOOLEAN /\ pil' \in 0..15
           /\ hcr_ics' \in ISizes
<1>1. icount \in Nat /\ hcr_ics \in ISizes
  BY MachineFacts DEF Typed
<1>2. icount' \in Nat /\ hcr_ics' \in ISizes
  BY <1>1, FileFacts DEF RestartControl, ItemsOK
<1>3. uIRLState' \in 0..15 /\ pil' \in 0..15
  BY FileFacts DEF RestartControl, ItemsOK
<1>4. bNMIState' \in BOOLEAN /\ bPowerDownState' \in BOOLEAN
  BY Zenon DEF RestartControl
<1>5. ie' \in BOOLEAN
  BY Zenon DEF RestartControl
<1>6. QED BY <1>2, <1>3, <1>4, <1>5

LEMMA RestartInterruptsTyped ==
    ASSUME MachineOK, FileOK, RestartInterrupts
    PROVE  /\ last_intr_set' \in -1..MaxIntrs /\ next_intr_id' \in -1..MaxIntrs
           /\ next_sched_intr_icount' \in Nat \cup {None}
           /\ intrs' \in [Slots -> Interrupt]
           /\ \A i \in Slots : intrs'[i].is_repeating => intrs'[i].repeat_count > 0
<1>1. Typed
  BY MachineFacts
<1>2. QED BY <1>1, FileFacts DEF RestartInterrupts, ItemsOK, Typed

LEMMA RestartContentsTyped ==
    ASSUME MachineOK, FileOK, RestartContents
    PROVE  contents' \in [Parts -> 0..1]
<1> DEFINE F(p) == IF InFile(p) THEN Saved.contents[p]
                   ELSE IF p = "control" \/ (p = "lines" /\ InFile("dsize"))
                   THEN 0 ELSE contents[p]
<1>1. contents' = [p \in Parts |-> F(p)]
  BY DEF RestartContents
<1>2. ASSUME NEW p \in Parts PROVE F(p) \in 0..1
  <2>1. contents[p] \in 0..1
    BY MachineFacts
  <2>2. InFile(p) => Saved.contents[p] \in 0..1
    BY FileFacts DEF ItemsOK
  <2>3. QED BY <2>1, <2>2
<1> HIDE DEF F
<1>3. QED BY <1>1, <1>2

(* The sizes a file cut between them leaves behind are the one exception. *)
LEMMA RestartCacheFits ==
    ASSUME MachineOK, FileOK, RestartCache
    PROVE  /\ icache'.size = IF InFile("isize") THEN Saved.isize ELSE icache.size
           /\ InFile("counts") => icache'.entries = Saved.counts
           /\ icache'.size \in ISizes /\ icache'.entries \in Sizes
           /\ icache'.allocated \in {0} \cup Sizes
           /\ \/ size_cut
              \/ InFile("counts") /\ Saved.size_cut
              \/ InFile("isize") /\ ~InFile("dsize")
              \/ /\ icache'.entries = Entries(icache'.size)
                 /\ icache'.allocated = IF icache'.size = 0 THEN 0 ELSE icache'.entries
<1> DEFINE size == IF InFile("isize") THEN Saved.isize ELSE icache.size
           made == icacheInit(size)
           new  == IF InFile("dsize") THEN made ELSE icache
           c    == IF InFile("counts") THEN Saved.counts ELSE new.entries
<1>1. icache' = [size |-> size, entries |-> c, allocated |-> new.allocated]
  BY DEF RestartCache
<1>2. size \in ISizes
  BY FileFacts, MachineFacts DEF ItemsOK
<1> HIDE DEF size
<1>3. /\ made.entries = Entries(size) /\ made.entries \in Sizes
      /\ made.allocated = (IF size = 0 THEN 0 ELSE Entries(size))
      /\ made.allocated \in {0} \cup Sizes
  BY <1>2, CacheMade
<1> HIDE DEF made
<1>4. new.entries \in Sizes /\ new.allocated \in {0} \cup Sizes
  BY <1>3, MachineFacts
<1>5. InFile("counts") => Saved.counts \in Sizes
  BY FileFacts DEF ItemsOK
<1>6. CASE InFile("counts")
  <2>1. size = Saved.isize /\ new = made /\ c = Saved.counts
    BY <1>6, FileFacts DEF size
  <2>2. ~Saved.size_cut => c = Entries(size)
    BY <1>6, <2>1, FileFacts DEF ItemsOK
  <2> HIDE DEF c, new
  <2>3. QED BY <1>1, <1>2, <1>3, <1>4, <1>5, <1>6, <2>1, <2>2 DEF size
<1>7. CASE ~InFile("counts") /\ InFile("dsize")
  <2>1. new = made /\ c = made.entries
    BY <1>7
  <2> HIDE DEF c, new
  <2>2. QED BY <1>1, <1>2, <1>3, <1>4, <1>7, <2>1 DEF size
<1>8. CASE ~InFile("counts") /\ ~InFile("dsize")
  <2>1. new = icache /\ c = icache.entries
    BY <1>8
  <2>2. size_cut \/ InFile("isize")
          \/ (/\ icache.entries = Entries(icache.size)
              /\ icache.allocated = IF icache.size = 0 THEN 0 ELSE icache.entries)
    BY MachineFacts
  <2>3. ~InFile("isize") => size = icache.size
    BY DEF size
  <2> HIDE DEF c, new
  <2>4. QED BY <1>1, <1>2, <1>4, <1>8, <2>1, <2>2, <2>3 DEF size
<1>9. QED BY <1>6, <1>7, <1>8

LEMMA RestartKeeps ==
    ASSUME CPInv, restart
    PROVE  CPInv'
<1>1. MachineOK /\ FileOK
  BY DEF CPInv
<1>2. /\ RestartControl /\ RestartContents /\ RestartCache /\ RestartInterrupts
      /\ left_behind' = IF Whole THEN Saved.left_behind ELSE left_behind
      /\ mixed' = IF Whole THEN Saved.mixed ELSE TRUE
      /\ size_cut' = (\/ size_cut \/ Saved.size_cut
                      \/ (InFile("isize") /\ ~InFile("dsize")))
      /\ since' = IF Whole THEN "restarted" ELSE "long ago"
      /\ UNCHANGED file
  BY DEF restart
<1>3. left_behind' \in BOOLEAN
  <2>1. left_behind \in BOOLEAN /\ (Whole => Saved.left_behind \in BOOLEAN)
    BY <1>1, MachineFacts, FileFacts DEF Typed, WholeOK
  <2>2. QED BY <1>2, <2>1
<1>4. mixed' \in BOOLEAN
  <2>1. TRUE \in BOOLEAN /\ (Whole => Saved.mixed \in BOOLEAN)
    BY <1>1, FileFacts DEF WholeOK
  <2>2. QED BY <1>2, <2>1
<1>5. Typed'
  <2>1. /\ icount' \in Nat /\ uIRLState' \in 0..15 /\ bNMIState' \in BOOLEAN
        /\ bPowerDownState' \in BOOLEAN /\ ie' \in BOOLEAN /\ pil' \in 0..15
    BY <1>1, <1>2, RestartControlTyped
  <2>2. /\ last_intr_set' \in -1..MaxIntrs /\ next_intr_id' \in -1..MaxIntrs
        /\ next_sched_intr_icount' \in Nat \cup {None}
        /\ intrs' \in [Slots -> Interrupt]
        /\ \A i \in Slots : intrs'[i].is_repeating => intrs'[i].repeat_count > 0
    BY <1>1, <1>2, RestartInterruptsTyped
  <2>3. QED BY <1>3, <2>1, <2>2 DEF Typed
<1>6. ASSUME ~mixed'
      PROVE  UnusedDisabled' /\ hcr_ics' = icache'.size
  <2>1. Whole /\ ~Saved.mixed
    BY <1>2, <1>6
  <2>2. WholeOK /\ InFile("hcr") /\ InFile("isize") /\ InFile("intrs")
        /\ InFile("last_intr_set")
    BY <1>1, <2>1, FileFacts
  <2>3. /\ hcr_ics' = Saved.hcr /\ icache'.size = Saved.isize
        /\ intrs' = Saved.intrs /\ last_intr_set' = Saved.last_intr_set
    BY <1>1, <1>2, <2>2, RestartCacheFits DEF RestartControl, RestartInterrupts
  <2>4. QED BY <2>1, <2>2, <2>3 DEF WholeOK, UnusedDisabled
<1>7. /\ icache'.size \in ISizes /\ icache'.entries \in Sizes
      /\ icache'.allocated \in {0} \cup Sizes
      /\ ~size_cut' => /\ icache'.entries = Entries(icache'.size)
                       /\ icache'.allocated =
                             IF icache'.size = 0 THEN 0 ELSE icache'.entries
  BY <1>1, <1>2, RestartCacheFits
<1>8. contents' \in [Parts -> 0..1] /\ hcr_ics' \in ISizes
  BY <1>1, <1>2, RestartContentsTyped, RestartControlTyped
<1>9. size_cut' \in BOOLEAN
  BY <1>2, Zenon
<1>10. file'.length \in 0..Len(Items) /\ since' \in {"long ago", "restarted", "listed"}
  BY <1>1, <1>2, FileFacts, ItemsAre
<1>11. CPTypeOK'
  BY <1>4, <1>5, <1>6, <1>7, <1>8, <1>9, <1>10 DEF CPTypeOK, Sizes
<1>12. CacheGeometry'
  BY <1>6, <1>7 DEF CacheGeometry
<1>13. FileOK'
  BY <1>1, <1>2, FileKept
<1>14. QED BY <1>11, <1>12, <1>13 DEF CPInv, MachineOK

-----------------------------------------------------------------------------
(* The other steps. *)

LEMMA NewProcessKeeps ==
    ASSUME CPInv, NewProcess
    PROVE  CPInv'
<1>1. /\ icount' = 0 /\ last_intr_set' = None /\ intrs' = [i \in Slots |-> EmptySlot]
      /\ next_intr_id' = None /\ next_sched_intr_icount' = None /\ initPico
      /\ contents' = PowerOn /\ hcr_ics' = DefaultISize
      /\ icache' = icacheInit(DefaultISize)
      /\ left_behind' = FALSE /\ mixed' = FALSE /\ size_cut' = FALSE
      /\ since' = "long ago" /\ UNCHANGED file
  BY DEF NewProcess
<1>2. Typed' /\ UnusedDisabled'
  <2>1. EmptySlot \in Interrupt /\ ~EmptySlot.is_repeating /\ ~EmptySlot.is_enabled
    BY DEF EmptySlot, Interrupt
  <2>2. /\ intrs' \in [Slots -> Interrupt]
        /\ \A i \in Slots : ~intrs'[i].is_repeating /\ ~intrs'[i].is_enabled
    BY <1>1, <2>1
  <2>3. uIRLState' \in 0..15 /\ pil' \in 0..15
    <3>1. uIRLState' = 0 /\ pil' = 0
      BY <1>1 DEF initPico
    <3>2. QED BY <3>1
  <2>4. bNMIState' \in BOOLEAN /\ bPowerDownState' \in BOOLEAN /\ ie' \in BOOLEAN
    BY <1>1, Zenon DEF initPico
  <2>5. left_behind' \in BOOLEAN
    BY <1>1, Zenon
  <2>6. /\ icount' \in Nat /\ last_intr_set' \in -1..MaxIntrs
        /\ next_intr_id' \in -1..MaxIntrs /\ next_sched_intr_icount' \in Nat \cup {None}
    BY <1>1, Defaults
  <2>7. QED BY <2>2, <2>3, <2>4, <2>5, <2>6 DEF Typed, UnusedDisabled
<1>3. contents' \in [Parts -> 0..1]
  <2>1. PowerOn \in [Parts -> 0..1]
    BY DEF PowerOn
  <2>2. QED BY <1>1, <2>1
<1>4. file'.length \in 0..Len(Items)
  BY <1>1, ItemsAre DEF CPInv, FileOK
<1>5. CPTypeOK' /\ CacheGeometry'
  BY <1>1, <1>2, <1>3, <1>4, CacheMade, Defaults DEF CPTypeOK, CacheGeometry, Sizes
<1>6. FileOK'
  BY <1>1, FileKept DEF CPInv
<1>7. QED BY <1>5, <1>6 DEF CPInv, MachineOK

LEMMA SizeCommandKeeps ==
    ASSUME CPInv, NEW size \in ISizes, doICacheCmd(size)
    PROVE  CPInv'
<1>1. /\ hcr_ics' = size /\ icache' = icacheInit(size)
      /\ contents' = [p \in Parts |-> IF p = "lines" THEN 0 ELSE contents[p]]
      /\ since' = "long ago" /\ UNCHANGED <<vars, file, written, mixed, size_cut>>
  BY DEF doICacheCmd
<1>2. Typed' /\ (UnusedDisabled' <=> UnusedDisabled)
  BY <1>1, MachineFacts DEF CPInv, Typed, UnusedDisabled, vars, sched, pins, psr
<1>3. contents' \in [Parts -> 0..1]
  <2>1. contents \in [Parts -> 0..1]
    BY MachineFacts DEF CPInv
  <2>2. \A p \in Parts : (IF p = "lines" THEN 0 ELSE contents[p]) \in 0..1
    BY <2>1
  <2>3. QED BY <1>1, <2>2
<1>4. /\ icache'.size = size /\ icache'.entries = Entries(size)
      /\ icache'.entries \in Sizes /\ icache'.allocated \in {0} \cup Sizes
      /\ icache'.allocated = IF size = 0 THEN 0 ELSE Entries(size)
  BY <1>1, CacheMade
<1>5. MachineOK /\ FileOK /\ file.length \in 0..Len(Items)
  BY ItemsAre DEF CPInv, FileOK
<1>6. CPTypeOK'
  BY <1>1, <1>2, <1>3, <1>4, <1>5, MachineFacts DEF CPTypeOK, Sizes
<1>7. CacheGeometry'
  BY <1>1, <1>4 DEF CacheGeometry
<1>8. FileOK'
  BY <1>1, <1>5, FileKept
<1>9. QED BY <1>6, <1>7, <1>8 DEF CPInv, MachineOK

(* What is dispatched is in the table, or the behaviour is undefined.         *)
LEMMA NamesSlot ==
    ASSUME Typed, ~Undefined, Dispatching
    PROVE  next_intr_id \in Slots
<1>1. next_intr_id # None
  BY DEF Undefined
<1>2. next_intr_id \in -1..MaxIntrs /\ MaxIntrs \in Nat
  BY InterruptsAssumption DEF Typed
<1>3. QED BY <1>1, <1>2 DEF None, Slots

(* A command on interrupts or a turn of the main loop: what Interrupts says  *)
(* of its own steps, now also from a state a failed restart left.            *)
LEMMA StepKeeps ==
    ASSUME CPInv, ~Undefined, User \/ executeBytecode,
           UNCHANGED <<hcr_ics, icache, file, mixed, size_cut>>,
           contents' \in [Parts -> 0..1], since' \in {"long ago", "restarted", "listed"}
    PROVE  CPInv'
<1>1. Typed /\ (~mixed => UnusedDisabled) /\ MachineOK /\ FileOK
  BY MachineFacts DEF CPInv
<1>2. Dispatching => next_intr_id \in Slots
  BY <1>1, NamesSlot
<1>3. [Next]_vars
  BY DEF Next, Undefined
<1>4. Typed' /\ (UnusedDisabled => UnusedDisabled')
  BY <1>1, <1>2, <1>3, TypedKept, UnusedKept
<1>5. CPTypeOK' /\ CacheGeometry'
  BY <1>1, <1>4, MachineFacts, ItemsAre DEF CPTypeOK, CacheGeometry, Sizes
<1>6. FileOK'
  BY <1>1, FileKept
<1>7. QED BY <1>5, <1>6 DEF CPInv, MachineOK

LEMMA CommandKeeps ==
    ASSUME CPInv, ~Undefined, Command
    PROVE  CPInv'
<1>1. contents' \in [Parts -> 0..1]
  BY MachineFacts DEF CPInv, Command
<1>2. QED BY <1>1, StepKeeps DEF Command

LEMMA RunKeeps ==
    ASSUME CPInv, ~Undefined, Run
    PROVE  CPInv'
<1>1. contents \in [Parts -> 0..1]
  BY MachineFacts DEF CPInv
<1>2. CASE UNCHANGED contents
  BY <1>1, <1>2, StepKeeps DEF Run
<1>3. CASE \E p \in Parts : contents' = [contents EXCEPT ![p] = 1]
  <2>1. PICK p \in Parts : contents' = [contents EXCEPT ![p] = 1]
    BY <1>3
  <2>2. contents' \in [Parts -> 0..1]
    BY <1>1, <2>1
  <2>3. QED BY <2>2, StepKeeps DEF Run
<1>4. QED BY <1>2, <1>3 DEF Run

LEMMA CPInvNext == CPInv /\ [CPNext]_cpvars => CPInv'
<1> SUFFICES ASSUME CPInv, [CPNext]_cpvars PROVE CPInv'
  OBVIOUS
<1>1. CASE CPNext
  <2>1. ~Undefined
    BY <1>1 DEF CPNext
  <2>2. CASE Command
    BY <2>1, <2>2, CommandKeeps
  <2>3. CASE Run
    BY <2>1, <2>3, RunKeeps
  <2>4. CASE \E size \in ISizes : doICacheCmd(size)
    BY <2>4, SizeCommandKeeps
  <2>5. CASE checkpoint
    BY <2>5, CheckpointKeeps DEF CPInv
  <2>6. CASE restart
    BY <2>6, RestartKeeps
  <2>7. CASE NewProcess
    BY <2>7, NewProcessKeeps
  <2>8. QED BY <1>1, <2>2, <2>3, <2>4, <2>5, <2>6, <2>7 DEF CPNext
<1>2. CASE UNCHANGED cpvars
  <2>1. /\ UNCHANGED <<contents, hcr_ics, icache, file, since, mixed, size_cut>>
        /\ UNCHANGED vars
    BY <1>2 DEF cpvars
  <2>2. Typed' /\ (UnusedDisabled' <=> UnusedDisabled)
    BY <2>1, MachineFacts DEF CPInv, Typed, UnusedDisabled, vars, sched, pins, psr
  <2>3. CPTypeOK' /\ CacheGeometry'
    BY <2>1, <2>2 DEF CPInv, MachineOK, CPTypeOK, CacheGeometry
  <2>4. FileOK'
    BY <2>1, FileKept DEF CPInv
  <2>5. QED BY <2>3, <2>4 DEF CPInv, MachineOK
<1>3. QED BY <1>1, <1>2

THEOREM CPInvariance == CPSpec => []CPInv
<1>1. QED BY CPInitOK, CPInvNext, PTL DEF CPSpec

(* Types, also behind restarts that failed: a table and a number of slots     *)
(* that do not belong together, but never an index or a count out of range    *)
(* (checkpoint.c: restart, interrupts.c: intr_checkpoint).                    *)
THEOREM CPTypeCorrect == CPSpec => []CPTypeOK
<1>1. CPInv => CPTypeOK
  BY DEF CPInv, MachineOK
<1>2. QED BY <1>1, CPInvariance, PTL

(* The number of lines the code indexes the I$ with is that of the lines      *)
(* allocated, after every order of size commands, checkpoints and restarts of *)
(* cut files, unless a file ended between the sizes of the two caches         *)
(* (cache.c: cache_checkpoint).                                               *)
THEOREM GeometryCorrect == CPSpec => []CacheGeometry
<1>1. CPInv => CacheGeometry
  BY DEF CPInv, MachineOK
<1>2. QED BY <1>1, CPInvariance, PTL

-----------------------------------------------------------------------------
(* A restart from a whole file is transparent. *)

Quiet == ~Saved.asleep /\ Saved.pins = <<0, FALSE>> /\ ~Saved.size_cut

\* Every field is as it was saved, but for the one the file does not hold.
SameAsSaved ==
    \A x \in DOMAIN State \ {"next_sched_intr_icount", "size_cut"} : State[x] = Saved[x]

FieldsSame ==
    /\ icount = Saved.icount /\ psr = Saved.psr
    /\ last_intr_set = Saved.last_intr_set /\ next_intr_id = Saved.next_intr_id
    /\ intrs = Saved.intrs /\ pins = Saved.pins /\ bPowerDownState = Saved.asleep
    /\ left_behind = Saved.left_behind /\ hcr_ics = Saved.hcr
    /\ icache.size = Saved.isize /\ icache.entries = Saved.counts
    /\ icache.allocated = Saved.allocated /\ mixed = Saved.mixed
    /\ contents = Saved.contents

\* The two halves of RestartTransparent.
Restarted == since = "restarted" /\ Quiet => SameAsSaved
Listed == since = "listed" /\ Quiet /\ SchedFits(Saved)
             => next_sched_intr_icount = Saved.next_sched_intr_icount

LEMMA TransparentParts == RestartTransparent <=> Restarted /\ Listed
  BY DEF RestartTransparent, Restarted, Listed, Quiet, SameAsSaved

LEMMA SameFields == SameAsSaved <=> FieldsSame
<1> DEFINE S == {"icount", "psr", "last_intr_set", "next_intr_id", "intrs", "pins",
                 "asleep", "left_behind", "hcr", "isize", "counts", "allocated",
                 "mixed", "contents"}
<1>1. DOMAIN State \ {"next_sched_intr_icount", "size_cut"} = S
  BY StateDomain
<1>2. SameAsSaved <=> \A x \in S : State[x] = Saved[x]
  BY <1>1 DEF SameAsSaved
<1>3. QED BY <1>2, StateFields DEF FieldsSame

(* Both in the next state. *)
LEMMA NextParts ==
    (RestartTransparent' <=> Restarted' /\ Listed') /\ (SameAsSaved' <=> FieldsSame')
  BY TransparentParts, SameFields, PTL

(* The earliest interrupt of a table is one. *)
LEMMA NextUnique ==
    ASSUME NEW t \in [Slots -> Interrupt], NEW last \in -1..MaxIntrs,
           NEW i, NEW j, IsNext(t, last, i), IsNext(t, last, j)
    PROVE  i = j
<1>1. i \in Enabled(t, last) /\ j \in Enabled(t, last)
  BY DEF IsNext
<1>2. i \in Slots /\ j \in Slots /\ i \in Int /\ j \in Int
  BY <1>1, InterruptsAssumption DEF Enabled, Slots
<1>3. /\ t[i].next_intr_at \in Nat /\ t[j].next_intr_at \in Nat
      /\ t[i].irl \in 0..15 /\ t[j].irl \in 0..15
  BY <1>2, SlotFields
<1>4. SUFFICES ASSUME i # j PROVE FALSE
  OBVIOUS
<1>5. Before(t, i, j) /\ Before(t, j, i)
  BY <1>1, <1>4 DEF IsNext
<1>6. QED BY <1>2, <1>3, <1>5 DEF Before

LEMMA RestartSame ==
    ASSUME CPInv, restart, Whole, Quiet
    PROVE  SameAsSaved'
<1>1. MachineOK /\ FileOK /\ ItemsOK /\ WholeOK
  BY FileFacts DEF CPInv
<1>2. /\ InFile("header") /\ InFile("icount") /\ InFile("psr")
      /\ InFile("hcr") /\ InFile("isize") /\ InFile("dsize")
      /\ InFile("counts") /\ InFile("last_intr_set")
      /\ InFile("next_intr_id") /\ InFile("intrs")
      /\ \A p \in Parts : InFile(p)
  BY <1>1, FileFacts
<1>3. /\ RestartControl /\ RestartContents /\ RestartCache /\ RestartInterrupts
      /\ left_behind' = Saved.left_behind /\ mixed' = Saved.mixed /\ UNCHANGED file
  BY DEF restart
<1>4. Saved' = Saved
  BY <1>3 DEF Saved
<1>5. /\ icount' = Saved.icount /\ hcr_ics' = Saved.hcr
      /\ last_intr_set' = Saved.last_intr_set /\ next_intr_id' = Saved.next_intr_id
      /\ intrs' = Saved.intrs
  BY <1>2, <1>3 DEF RestartControl, RestartInterrupts
<1>6. psr' = Saved.psr
  <2>1. pil' = Saved.psr[2]
    BY <1>2, <1>3 DEF RestartControl
  <2>2. ie' = Saved.psr[1]
    <3>1. ie' = (InFile("psr") /\ Saved.psr[1])
      BY <1>3 DEF RestartControl
    <3>2. Saved.psr[1] \in BOOLEAN
      BY <1>1, <1>2 DEF ItemsOK
    <3>3. QED BY <1>2, <3>1, <3>2
  <2>3. QED BY <1>1, <1>2, <2>1, <2>2 DEF ItemsOK, psr
<1>7. pins' = Saved.pins /\ bPowerDownState' = Saved.asleep
  <2>1. uIRLState' = 0 /\ bNMIState' = FALSE /\ bPowerDownState' = FALSE
    BY <1>3 DEF RestartControl
  <2>2. pins' = <<0, FALSE>>
    BY <2>1 DEF pins
  <2>3. Saved.asleep = FALSE
    BY <1>1 DEF WholeOK, Quiet
  <2>4. QED BY <2>1, <2>2, <2>3 DEF Quiet
<1>8. /\ icache'.size = Saved.isize /\ icache'.entries = Saved.counts
      /\ icache'.allocated = Saved.allocated
  <2> DEFINE made == icacheInit(Saved.isize)
  <2>1. Saved.isize \in ISizes /\ Saved.counts = Entries(Saved.isize)
    BY <1>1, <1>2 DEF ItemsOK, Quiet
  <2>2. icache' = [size |-> Saved.isize, entries |-> Saved.counts,
                   allocated |-> made.allocated]
    BY <1>2, <1>3 DEF RestartCache
  <2>3. made.allocated = IF Saved.isize = 0 THEN 0 ELSE Entries(Saved.isize)
    BY <2>1, CacheMade
  <2> HIDE DEF made
  <2>4. Saved.allocated = made.allocated
    BY <1>1, <2>1, <2>3 DEF WholeOK, Quiet
  <2>5. QED BY <2>2, <2>4
<1>9. contents' = Saved.contents
  <2>1. contents' = [p \in Parts |-> Saved.contents[p]]
    BY <1>2, <1>3 DEF RestartContents
  <2>2. Saved.contents \in [Parts -> 0..1]
    BY <1>1 DEF WholeOK
  <2>3. QED BY <2>1, <2>2
<1>10. QED BY <1>3, <1>4, <1>5, <1>6, <1>7, <1>8, <1>9, NextParts DEF FieldsSame

(* Listing the interrupts schedules them as they were.                        *)
LEMMA ListedSame ==
    ASSUME CPInv, SameAsSaved, intr_list, UNCHANGED file, SchedFits(Saved)
    PROVE  next_sched_intr_icount' = Saved.next_sched_intr_icount
<1>1. intrs = Saved.intrs /\ last_intr_set = Saved.last_intr_set
  BY SameFields DEF FieldsSame
<1>2. intrs \in [Slots -> Interrupt] /\ last_intr_set \in -1..MaxIntrs
  BY MachineFacts DEF CPInv, Typed
<1>3. intr_schedule_next(intrs, last_intr_set)
  BY DEF intr_list
<1>4. CASE Enabled(intrs, last_intr_set) = {}
  <2>1. next_sched_intr_icount' = None
    BY <1>3, <1>4 DEF intr_schedule_next, IsNext
  <2>2. QED BY <1>1, <1>4, <2>1 DEF SchedFits
<1>5. CASE Enabled(intrs, last_intr_set) # {}
  <2>1. PICK i \in Slots : IsNext(intrs, last_intr_set, i)
                             /\ next_sched_intr_icount' = intrs[i].next_intr_at
    BY <1>3, <1>5 DEF intr_schedule_next
  <2>2. /\ IsNext(intrs, last_intr_set, Saved.next_intr_id)
        /\ Saved.next_sched_intr_icount = intrs[Saved.next_intr_id].next_intr_at
    BY <1>1, <1>5 DEF SchedFits
  <2>3. i = Saved.next_intr_id
    BY <1>2, <2>1, <2>2, NextUnique
  <2>4. QED BY <2>1, <2>2, <2>3
<1>6. QED BY <1>4, <1>5

LEMMA TransparentNext ==
    ASSUME CPInv, RestartTransparent, [CPNext]_cpvars
    PROVE  RestartTransparent'
<1>1. CASE since' = "long ago"
  BY <1>1, NextParts DEF Restarted, Listed
<1>2. CASE restart
  <2>1. /\ Saved' = Saved /\ (Quiet' <=> Quiet)
        /\ since' = IF Whole THEN "restarted" ELSE "long ago"
    BY <1>2 DEF restart, Saved, Quiet
  <2>2. CASE Whole
    BY <1>2, <2>1, <2>2, RestartSame, NextParts DEF Restarted, Listed
  <2>3. QED BY <1>1, <2>1, <2>2
<1>3. CASE Command
  <2>1. /\ since' = IF since = "restarted" /\ intr_list THEN "listed" ELSE "long ago"
        /\ UNCHANGED file
    BY <1>3 DEF Command
  <2>2. Saved' = Saved /\ (Quiet' <=> Quiet) /\ (SchedFits(Saved)' <=> SchedFits(Saved))
    BY <2>1 DEF Saved, Quiet, SchedFits
  <2>3. CASE since = "restarted" /\ intr_list
    <3>1. Quiet => SameAsSaved
      BY <2>3, TransparentParts DEF Restarted, Listed
    <3>2. Quiet /\ SchedFits(Saved)
            => next_sched_intr_icount' = Saved.next_sched_intr_icount
      BY <2>1, <2>3, <3>1, ListedSame
    <3>3. QED BY <2>1, <2>2, <2>3, <3>2, NextParts DEF Restarted, Listed
  <2>4. QED BY <1>1, <2>1, <2>3
<1>4. CASE UNCHANGED cpvars
  <2>1. /\ UNCHANGED <<contents, hcr_ics, icache, file, since, mixed, size_cut>>
        /\ UNCHANGED vars
    BY <1>4 DEF cpvars
  <2>2. State' = State /\ Saved' = Saved
    BY <2>1 DEF State, Saved, vars, sched, pins, psr
  <2>3. next_sched_intr_icount' = next_sched_intr_icount
    BY <2>1 DEF vars, sched
  <2>4. (SameAsSaved' <=> SameAsSaved) /\ (Quiet' <=> Quiet)
        /\ (SchedFits(Saved)' <=> SchedFits(Saved))
    BY <2>2 DEF SameAsSaved, Quiet, SchedFits
  <2>5. QED BY <2>1, <2>2, <2>3, <2>4, TransparentParts, NextParts DEF Restarted, Listed
<1>5. QED
  <2>1. CASE Run \/ (\E size \in ISizes : doICacheCmd(size)) \/ checkpoint \/ NewProcess
    BY <1>1, <2>1 DEF Run, doICacheCmd, checkpoint, NewProcess
  <2>2. QED BY <1>2, <1>3, <1>4, <2>1 DEF CPNext

(* A restart from a whole file, in whatever process and state, brings back    *)
(* what was saved, and listing the interrupts brings back the icount of the   *)
(* next one (checkpoint.c: restart, cache.c: cache_checkpoint, interrupts.c:  *)
(* intr_checkpoint, intr_list).                                               *)
THEOREM RestartCorrect == CPSpec => []RestartTransparent
<1>1. CPInit => RestartTransparent
  BY TransparentParts DEF CPInit, Restarted, Listed
<1>2. CPInv /\ RestartTransparent /\ [CPNext]_cpvars => RestartTransparent'
  BY TransparentNext
<1>3. QED BY <1>1, <1>2, CPInvariance, PTL DEF CPSpec
=============================================================================
