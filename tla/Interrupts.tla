----------------------------- MODULE Interrupts -----------------------------
(***************************************************************************)
(* The interrupt scheduler of the instruction accurate simulator (IAS):    *)
(* tools/iam/src/interrupts.c together with the part of the main loop of   *)
(* tools/iam/src/iam.c (executeBytecode) that drives it, the interrupt     *)
(* pins (vSetInterrupt), the end-of-interrupt mailbox and power-down.      *)
(*                                                                         *)
(* Time is the instruction count icount.  The user schedules interrupts a  *)
(* number of instructions ahead; once per iteration the main loop compares *)
(* icount with one cached number, next_sched_intr_icount, and only when    *)
(* they are equal looks at the table.  What can go wrong is therefore the  *)
(* relation between the table, the cached pair (next_intr_id,              *)
(* next_sched_intr_icount) and icount, which every command and every       *)
(* iteration of the loop changes.                                          *)
(***************************************************************************)
EXTENDS Integers

CONSTANTS
    MaxIntrs,     \* MAX_INTRS, the number of elements of the array intrs
    Counts,       \* the distances the user asks for at the "intr" command
    Irls,         \* the levels the user asks for; 0 stands for the NMI
    Repeats,      \* which commands are used: FALSE "intr", TRUE "intr repeat"
    Pils,         \* the values of PSR.PIL the program writes
    MaxIcount     \* nMaxInstructions: executeBytecode exits at this icount

ASSUME InterruptsAssumption ==
    /\ MaxIntrs \in Nat \ {0}
    /\ Counts \subseteq Nat
    /\ Irls \subseteq 0..15
    /\ Repeats \subseteq BOOLEAN
    /\ Pils \subseteq 0..15
    /\ MaxIcount \in Nat

VARIABLES
    icount,                   \* instructions executed so far
    last_intr_set,            \* last slot of intrs in use, -1 if none
    next_intr_id,             \* slot of the earliest interrupt, -1 if none
    next_sched_intr_icount,   \* its icount, -1 if none
    intrs,                    \* the table
    uIRLState,                \* level on the pj_irl pins
    bNMIState,                \* the pj_nmi pin
    bPowerDownState,          \* TRUE after priv_powerdown
    ie,                       \* PSR.IE
    pil,                      \* PSR.PIL
    left_behind               \* history: a dispatch has broken off its loop
                              \* with an interrupt due now behind it

sched == <<next_intr_id, next_sched_intr_icount>>
pins  == <<uIRLState, bNMIState>>
psr   == <<ie, pil>>
vars  == <<icount, last_intr_set, sched, intrs, pins, bPowerDownState, psr,
           left_behind>>

None == -1

(***************************************************************************)
(* intr_add lets last_intr_set reach MAX_INTRS and then writes the element *)
(* behind the array.  The table has that element too, so that the write    *)
(* can be expressed; what the C program does after it is undefined, and    *)
(* the model stops there (Overrun).                                        *)
(***************************************************************************)
Slots   == 0..MaxIntrs
Overrun == last_intr_set = MaxIntrs

Interrupt == [irl : 0..15, next_intr_at : Nat, is_enabled : BOOLEAN,
              is_repeating : BOOLEAN, repeat_count : Nat]

EmptySlot == [irl |-> 0, next_intr_at |-> 0, is_enabled |-> FALSE,
              is_repeating |-> FALSE, repeat_count |-> 0]

Init ==
    /\ icount = 0
    /\ last_intr_set = None
    /\ next_intr_id = None
    /\ next_sched_intr_icount = None
    /\ intrs = [i \in Slots |-> EmptySlot]
    /\ uIRLState = 0
    /\ bNMIState = FALSE
    /\ bPowerDownState = FALSE
    /\ ie = FALSE
    /\ pil = 0
    /\ left_behind = FALSE

-----------------------------------------------------------------------------
(***************************************************************************)
(* intr_schedule_next: the earliest enabled interrupt, the lower level     *)
(* first among equals (so the NMI, 0, wins), the lower slot first among    *)
(* those.                                                                  *)
(***************************************************************************)
Enabled(t, last) == {i \in 0..last : t[i].is_enabled}

Before(t, i, j) ==
    \/ t[i].next_intr_at < t[j].next_intr_at
    \/ /\ t[i].next_intr_at = t[j].next_intr_at
       /\ \/ t[i].irl < t[j].irl
          \/ t[i].irl = t[j].irl /\ i < j

IsNext(t, last, i) ==
    /\ i \in Enabled(t, last)
    /\ \A j \in Enabled(t, last) \ {i} : Before(t, i, j)

intr_schedule_next(t, last) ==
    \/ /\ Enabled(t, last) = {}
       /\ next_intr_id' = None
       /\ next_sched_intr_icount' = None
    \/ \E i \in Slots :
          /\ IsNext(t, last, i)
          /\ next_intr_id' = i
          /\ next_sched_intr_icount' = t[i].next_intr_at

-----------------------------------------------------------------------------
(* The commands of the user, given between two iterations of the loop.     *)

Reusable == {i \in 0..last_intr_set :
                ~intrs[i].is_enabled /\ ~intrs[i].is_repeating}

(* The slot intr_add takes: the first reusable one, else a new one unless  *)
(* last_intr_set >= MAX_INTRS.                                             *)
TakesSlot(i) ==
    \/ i \in Reusable /\ \A j \in Reusable : i <= j
    \/ Reusable = {} /\ last_intr_set < MaxIntrs /\ i = last_intr_set + 1

(* Seeded fault: a repeating interrupt may have period 0.                  *)
intr_add_AnyPeriod(count, irl, is_repeating) ==
    /\ \E i \in Slots :
          /\ TakesSlot(i)
          /\ last_intr_set' = IF i > last_intr_set THEN i ELSE last_intr_set
          /\ intrs' = [intrs EXCEPT ![i] =
                          [irl |-> irl, next_intr_at |-> icount + count,
                           is_enabled |-> TRUE, is_repeating |-> is_repeating,
                           repeat_count |-> count]]
    /\ intr_schedule_next(intrs', last_intr_set')
    /\ UNCHANGED <<icount, pins, bPowerDownState, psr, left_behind>>

(* Seeded fault: a new interrupt takes part only in the next reschedule.   *)
intr_add_NoReschedule(count, irl, is_repeating) ==
    /\ ~(count = 0 /\ is_repeating)
    /\ \E i \in Slots :
          /\ TakesSlot(i)
          /\ last_intr_set' = IF i > last_intr_set THEN i ELSE last_intr_set
          /\ intrs' = [intrs EXCEPT ![i] =
                          [irl |-> irl, next_intr_at |-> icount + count,
                           is_enabled |-> TRUE, is_repeating |-> is_repeating,
                           repeat_count |-> count]]
    /\ UNCHANGED <<icount, sched, pins, bPowerDownState, psr, left_behind>>

intr_add(count, irl, is_repeating) ==
    /\ ~(count = 0 /\ is_repeating)
    /\ \E i \in Slots :
          /\ TakesSlot(i)
          /\ last_intr_set' = IF i > last_intr_set THEN i ELSE last_intr_set
          /\ intrs' = [intrs EXCEPT ![i] =
                          [irl          |-> irl,
                           next_intr_at |-> icount + count,
                           is_enabled   |-> TRUE,
                           is_repeating |-> is_repeating,
                           repeat_count |-> count]]
    /\ intr_schedule_next(intrs', last_intr_set')
    /\ UNCHANGED <<icount, pins, bPowerDownState, psr, left_behind>>

(* Seeded fault: the schedule still names the disabled interrupt.          *)
intr_disable_NoReschedule(i) ==
    /\ intrs' = [intrs EXCEPT ![i].is_enabled = FALSE]
    /\ UNCHANGED <<icount, last_intr_set, sched, pins, bPowerDownState, psr,
                   left_behind>>

(* intr_disable does not look whether the slot is in use.                  *)
intr_disable(i) ==
    /\ intrs' = [intrs EXCEPT ![i].is_enabled = FALSE]
    /\ intr_schedule_next(intrs', last_intr_set)
    /\ UNCHANGED <<icount, last_intr_set, pins, bPowerDownState, psr,
                   left_behind>>

(* intr_list reschedules before it prints.                                 *)
intr_list ==
    /\ intr_schedule_next(intrs, last_intr_set)
    /\ UNCHANGED <<icount, last_intr_set, intrs, pins, bPowerDownState, psr,
                   left_behind>>

(* initPico, by the command "reset" or by priv_reset: the pins, power-down *)
(* and the PSR get their power-on values, the schedule is kept (its init   *)
(* routine runs only the first time).                                      *)
initPico ==
    /\ uIRLState' = 0
    /\ bNMIState' = FALSE
    /\ bPowerDownState' = FALSE
    /\ ie' = FALSE
    /\ pil' = 0

ResetCmd ==
    /\ initPico
    /\ UNCHANGED <<icount, last_intr_set, sched, intrs, left_behind>>

User ==
    \/ \E count \in Counts, irl \in Irls, rep \in Repeats :
          intr_add(count, irl, rep)
    \/ \E i \in 0..(MaxIntrs - 1) : intr_disable(i)
    \/ intr_list
    \/ ResetCmd

-----------------------------------------------------------------------------
(* One iteration of executeBytecode.                                       *)

Dispatching == icount = next_sched_intr_icount

Due(i) == intrs[i].is_enabled /\ intrs[i].next_intr_at = icount
DueSlots == {i \in 0..last_intr_set : Due(i)}
DueOneShots == {i \in DueSlots : ~intrs[i].is_repeating}

(* The slots the loop of intr_dispatch gets to: it breaks off at the first *)
(* one-shot interrupt that is due.                                         *)
Visited == {i \in DueSlots : \A j \in DueOneShots : i <= j}

(* Seeded fault: a repeating interrupt is not moved to its next icount.    *)
Dispatched_RepeatKept ==
    [i \in Slots |->
        IF i \in Visited /\ ~intrs[i].is_repeating
        THEN [intrs[i] EXCEPT !.is_enabled = FALSE]
        ELSE intrs[i]]

Dispatched ==
    [i \in Slots |->
        IF i \notin Visited THEN intrs[i]
        ELSE IF intrs[i].is_repeating
             THEN [intrs[i] EXCEPT
                      !.next_intr_at = icount + intrs[i].repeat_count]
             ELSE [intrs[i] EXCEPT !.is_enabled = FALSE]]

(* intr_dispatch and the intr_schedule_next that follows it; the pins are  *)
(* set by vSetInterrupt, here as the values IrlNow and NmiNow because the  *)
(* instruction executed in the same iteration may clear them again.        *)
intr_dispatch ==
    \/ /\ Dispatching
       /\ intrs' = Dispatched
       /\ intr_schedule_next(Dispatched, last_intr_set)
       /\ left_behind' = (left_behind \/ Visited # DueSlots)
    \/ /\ ~Dispatching
       /\ UNCHANGED <<intrs, sched, left_behind>>

Raised == intrs[next_intr_id].irl

IrlNow == IF Dispatching /\ Raised > 0 THEN Raised ELSE uIRLState
NmiNow == bNMIState \/ (Dispatching /\ Raised = 0)

InterruptTaken == ie /\ (NmiNow \/ IrlNow > pil)

SetPins ==
    /\ uIRLState' = IrlNow
    /\ bNMIState' = NmiNow

(* invoke_trap resets PSR.IE; "continue" leaves icount as it is.           *)
TakeInterrupt ==
    /\ InterruptTaken
    /\ SetPins
    /\ bPowerDownState' = FALSE
    /\ ie' = FALSE
    /\ UNCHANGED <<icount, last_intr_set, pil>>

(* In power-down the iteration ends here, also without icount++.           *)
Sleep ==
    /\ ~InterruptTaken
    /\ bPowerDownState
    /\ SetPins
    /\ UNCHANGED <<icount, last_intr_set, bPowerDownState, psr>>

(* The instructions that matter to interrupts.                             *)
OtherInstruction == SetPins /\ UNCHANGED <<bPowerDownState, psr>>

(* A store to EOI_ADDRESS.                                                 *)
EndOfInterrupt ==
    /\ uIRLState' = 0
    /\ bNMIState' = FALSE
    /\ UNCHANGED <<bPowerDownState, psr>>

priv_powerdown ==
    /\ SetPins
    /\ bPowerDownState' = TRUE
    /\ UNCHANGED psr

(* priv_write_psr and priv_ret_from_trap write any value; a trap taken by  *)
(* the instruction clears IE.                                              *)
WritePsr ==
    /\ SetPins
    /\ ie' \in BOOLEAN
    /\ pil' \in Pils
    /\ UNCHANGED bPowerDownState

Execute ==
    /\ ~InterruptTaken
    /\ ~bPowerDownState
    /\ \/ OtherInstruction
       \/ EndOfInterrupt
       \/ priv_powerdown
       \/ WritePsr
       \/ initPico
    /\ icount' = icount + 1
    /\ UNCHANGED last_intr_set

executeBytecode ==
    /\ icount < MaxIcount
    /\ intr_dispatch
    /\ TakeInterrupt \/ Sleep \/ Execute

Next == ~Overrun /\ (User \/ executeBytecode)

Spec == Init /\ [][Next]_vars

(* The user lets the simulator run: "cont" keeps the loop going.           *)
Fairness == WF_vars(~Overrun /\ executeBytecode)

FairSpec == Spec /\ Fairness

-----------------------------------------------------------------------------
\* The types; a repeating interrupt never repeats on the spot.
Typed ==
    /\ icount \in Nat
    /\ last_intr_set \in -1..MaxIntrs
    /\ next_intr_id \in -1..MaxIntrs
    /\ next_sched_intr_icount \in Nat \cup {None}
    /\ intrs \in [Slots -> Interrupt]
    /\ uIRLState \in 0..15
    /\ bNMIState \in BOOLEAN
    /\ bPowerDownState \in BOOLEAN
    /\ ie \in BOOLEAN
    /\ pil \in 0..15
    /\ left_behind \in BOOLEAN
    /\ \A i \in Slots : intrs[i].is_repeating => intrs[i].repeat_count > 0

\* The slots that have not been handed out are disabled.
UnusedDisabled == \A i \in Slots : i > last_intr_set => ~intrs[i].is_enabled

TypeOK == Typed /\ UnusedDisabled

(* The main loop only compares icount with next_sched_intr_icount, so the  *)
(* cached pair must at every moment name the enabled interrupt that comes  *)
(* first, in time and then in priority, and say "none" only when there is  *)
(* none; a command or a dispatch that forgets to reschedule breaks it.     *)
ScheduleIsEarliest ==
    \/ /\ Enabled(intrs, last_intr_set) = {}
       /\ next_intr_id = None
       /\ next_sched_intr_icount = None
    \/ /\ IsNext(intrs, last_intr_set, next_intr_id)
       /\ next_sched_intr_icount = intrs[next_intr_id].next_intr_at

(* The comparison is for equality, so an enabled interrupt whose icount    *)
(* has gone by would never be dispatched, and it would hide every later    *)
(* one.  As long as no dispatch has broken off its loop in front of an     *)
(* interrupt that is due too, no enabled interrupt is overdue.             *)
NeverOverdue ==
    ~left_behind =>
        \A i \in 0..last_intr_set :
            intrs[i].is_enabled => intrs[i].next_intr_at >= icount

(* The comment in intr_dispatch and docs/html/interrupts.html say that of  *)
(* several interrupts due at one icount all but one are lost, so none can  *)
(* be overdue at all; the break in the loop leaves them enabled.           *)
NoneOverdue ==
    \A i \in 0..last_intr_set :
        intrs[i].is_enabled => intrs[i].next_intr_at >= icount

(* docs/html/interrupts.html: "the maximum number of interrupts you can    *)
(* schedule is 1,000", the size of the array; intr_add hands out one more. *)
AtMostMaxIntrs == last_intr_set + 1 <= MaxIntrs

(* A one-shot interrupt that is scheduled and not past the instruction     *)
(* limit is eventually dispatched (or disabled by the user), provided the  *)
(* simulation does not sleep and nothing has been left behind.             *)
EveryOneShotFires ==
    \A i \in 0..(MaxIntrs - 1) :
        (/\ intrs[i].is_enabled
         /\ ~intrs[i].is_repeating
         /\ intrs[i].next_intr_at < MaxIcount)
        ~> (~intrs[i].is_enabled \/ bPowerDownState \/ left_behind \/ Overrun)

(* "if we're in powerdown, we will behave like a nop" (iam.c): a nop lets  *)
(* the instruction count go on, so a scheduled interrupt that the PSR lets *)
(* through would end the power-down; but icount stands still.              *)
WakeUpScheduled ==
    /\ ~Overrun
    /\ bPowerDownState
    /\ next_intr_id # None
    /\ next_sched_intr_icount \in icount..(MaxIcount - 1)
    /\ ie
    /\ Raised > pil \/ Raised = 0

PowerDownEnds == WakeUpScheduled ~> ~WakeUpScheduled
=============================================================================
