------------------------------ MODULE Profiler ------------------------------
(***************************************************************************)
(* The instruction profiler of the simulator (tools/iam/src/profiler.c).   *)
(* It keeps up to PROFILER_N_PROFILES profiles; the running program feeds  *)
(* the current one: each instruction adds to its count, each method call   *)
(* and trap enters a block, each return leaves one.  A profile keeps a     *)
(* stack of its own of the blocks it has seen entered, and from it two     *)
(* counts for every entry point: the instructions executed in the block    *)
(* itself (self) and those executed while it was on the stack (total), a   *)
(* recursive function counted once.                                        *)
(*                                                                         *)
(* An entry point is the address where a block starts, the key of the hash *)
(* table.  Where the program counter is at a return is chosen freely: a    *)
(* profile is created, switched to or unfrozen in the middle of the        *)
(* program, so it sees returns from blocks it never saw entered.           *)
(***************************************************************************)
EXTENDS Integers, FiniteSets, FiniteSetsExt, Functions

CONSTANTS
    Profiles,   \* identifiers of profiles, below PROFILER_N_PROFILES
    Methods,    \* entry points of methods, whose length the profiler knows
    Blocks,     \* entry points of trap handlers, C functions and user blocks
    MaxCalls,   \* bound: blocks entered in a profile
    MaxIcount,  \* bound: instructions counted in a profile
    MaxUnder    \* bound: times a profile's lowest block is left

ASSUME ProfilerAssumption ==
    /\ Methods \cap Blocks = {}
    /\ MaxCalls \in Nat /\ MaxIcount \in Nat /\ MaxUnder \in Nat

VARIABLES
    profiles,   \* profiles[]: the profiles that exist
    current     \* current_profile_id, with the pointer that goes with it

vars == <<profiles, current>>

Points == Methods \cup Blocks

\* current_profile_id before the first switch.
NoProfile == -1

\* The table g with v at k.
Put(g, k, v) == [z \in DOMAIN g \cup {k} |-> IF z = k THEN v ELSE g[z]]

-----------------------------------------------------------------------------
(***************************************************************************)
(* A profile.  eps is the hash table; the stack keeps what was popped in   *)
(* the entries above its pointer.  The last four fields are history: the   *)
(* instructions counted while an entry point was on the stack, how often   *)
(* the lowest block was left, how many blocks were entered, and the entry  *)
(* point of the lowest block, "Program".                                   *)
(***************************************************************************)
EntryPoint(len) == [len |-> len, total |-> 0, self |-> 0, first |-> -1]

Frame(ep, now, inv, athrow, next) ==
    [ep |-> ep, begin |-> now, self |-> 0, beginSelf |-> now, correction |-> 0,
     inv |-> inv, athrow |-> athrow, next |-> next]

\* profile_reset: only "Program" is left, at the present pc.
ResetProfile(key) ==
    [eps |-> [e \in {key} |-> EntryPoint(FALSE)],
     arcs |-> [a \in {} |-> 0],
     stack |-> [i \in {0} |-> Frame(key, 0, FALSE, FALSE, -1)],
     sp |-> 1, icount |-> 0, frozen |-> TRUE, enabled |-> FALSE,
     inclusive |-> [e \in Points |-> 0], under |-> 0, calls |-> 0, program |-> key]

\* insert_into_hashtable: the entry point at the present pc, created if new.
insert_into_hashtable(eps, key, len) ==
    IF key \in DOMAIN eps THEN eps ELSE Put(eps, key, EntryPoint(len))

\* Whether the pc lies in the method of a frame.
is_in_range(P, i, at) == P.stack[i].ep = at /\ P.eps[at].len

\* Seeded fault: the search starts at the bottom of the stack.
FrameBelow_Fault(P, key) ==
    LET same == {j \in 0..(P.sp - 1) : P.stack[j].ep = key}
    IN  IF same = {} THEN -1 ELSE Min(same)

\* The nearest frame below the top of the stack of the same entry point.
FrameBelow(P, key) ==
    LET same == {j \in 0..(P.sp - 1) : P.stack[j].ep = key}
    IN  IF same = {} THEN -1 ELSE Max(same)

Counting(P) == P.enabled /\ ~P.frozen

-----------------------------------------------------------------------------
(***************************************************************************)
(* Entering and leaving a block.                                           *)
(***************************************************************************)

\* mark_block_enter of a block whose name is given (len FALSE) or of a method.
mark_block_enter(P, key, len, inv, athrow) ==
    IF P.frozen THEN P
    ELSE LET top  == P.sp - 1
             eps  == insert_into_hashtable(P.eps, key, len)
             rec  == eps[key].first # -1
             self == P.stack[top].self + (P.icount - P.stack[top].beginSelf)
             next == IF rec THEN FrameBelow(P, key) ELSE -1
         IN  [P EXCEPT
                !.eps   = IF rec THEN eps ELSE [eps EXCEPT ![key].first = P.sp],
                !.stack = Put([P.stack EXCEPT ![top].self = self], P.sp,
                              Frame(key, P.icount, inv, athrow, next)),
                !.sp    = P.sp + 1, !.calls = @ + 1]

\* Seeded fault: the caller's node is made anew at every call.
Arc_Fault(arcs, caller, ep, count) == Put(arcs, <<caller, ep>>, count)

\* arrangeList and vNewSample: one call from caller to ep, of count instructions.
Arc(arcs, caller, ep, count) ==
    LET a == <<caller, ep>>
    IN  Put(arcs, a, IF a \in DOMAIN arcs THEN arcs[a] + count ELSE count)

\* Seeded fault: only what the frame was charged is passed on.
GiveCorrection_Fault(stack, next, mine, corrected) ==
    IF next = -1 THEN stack ELSE [stack EXCEPT ![next].correction = @ + corrected]

\* The correction a popped frame gives the next frame of its entry point: all
\* its instructions, those of the same entry point above it included.
GiveCorrection(stack, next, mine, corrected) ==
    IF next = -1 THEN stack ELSE [stack EXCEPT ![next].correction = @ + mine]

\* Seeded fault: the caller's self count is not restarted.
Resume_Fault(stack, top, now) ==
    IF top = 0 THEN [stack EXCEPT ![0].begin = now] ELSE stack

\* Self counting goes on in the frame below; the lowest one starts again, with
\* its begin count reset.
Resume(stack, top, now) ==
    IF top = 0 THEN [stack EXCEPT ![0].begin = now, ![0].beginSelf = now]
    ELSE [stack EXCEPT ![top - 1].beginSelf = now]

\* Seeded fault: the lowest frame is popped for good.
PoppedPointer_Fault(top) == top

\* The stack never gets empty.
PoppedPointer(top) == IF top = 0 THEN 1 ELSE top

\* mark_block_exit_raw: pop the top frame and account for it.
mark_block_exit_raw(P) ==
    LET top  == P.sp - 1
        f    == P.stack[top]
        self == f.self + (P.icount - f.beginSelf)
        mine == P.icount - f.begin
        corr == mine - f.correction
        kept == GiveCorrection([P.stack EXCEPT ![top].self = self], f.next, mine, corr)
    IN  [P EXCEPT
           !.eps[f.ep] = [len |-> @.len, total |-> @.total + corr, self |-> @.self + self,
                          first |-> IF @.first = top THEN -1 ELSE @.first],
           !.arcs  = IF top = 0 THEN @ ELSE Arc(@, P.stack[top - 1].ep, f.ep, corr),
           !.stack = Resume(kept, top, P.icount),
           !.sp    = PoppedPointer(top),
           !.under = @ + (IF top = 0 THEN 1 ELSE 0)]

\* n frames popped without a look at their flags.
PopFrames(P, n) ==
    LET popped[i \in 0..n] == IF i = 0 THEN P ELSE mark_block_exit_raw(popped[i - 1])
    IN  popped[n]

\* The search of an athrow: pop down to the nearest method the pc is in, or to
\* the lowest frame.
UnwindTo(P, at) ==
    LET found == {i \in 1..(P.sp - 1) : is_in_range(P, i, at)}
    IN  PopFrames(P, P.sp - 1 - (IF found = {} THEN 0 ELSE Max(found)))

\* The flag of the frame just above the top: the one that was popped, or, when
\* the lowest frame was, whatever an earlier block left there.
Above(P, flag) == P.sp \in DOMAIN P.stack /\ P.stack[P.sp][flag]

\* mark_block_exit with the pc in at: the entry of the method an interface call
\* found, or where control goes on.
mark_block_exit(P, at) ==
    IF P.frozen THEN P
    ELSE LET Q == mark_block_exit_raw(P)
         IN  CASE Above(Q, "inv")    -> mark_block_enter(Q, at, at \in Methods, FALSE, FALSE)
               [] ~Above(Q, "inv") /\ Above(Q, "athrow") -> UnwindTo(Q, at)
               [] OTHER -> Q

\* profile_close: every frame is popped, and the lowest once more.
ClosedProfile(P) == PopFrames(P, P.sp)

-----------------------------------------------------------------------------
(***************************************************************************)
(* The commands, from the prompt or through the profiler's mailbox.        *)
(***************************************************************************)
Exists(p) == p \in DOMAIN profiles

\* profile p becomes P; a command for a profile that does not exist is ignored.
Set(p, P) == profiles' = [profiles EXCEPT ![p] = P] /\ UNCHANGED current

profile_create(p, key) ==
    /\ ~Exists(p)
    /\ profiles' = Put(profiles, p, ResetProfile(key))
    /\ UNCHANGED current

profile_reset(p, key) == Exists(p) /\ Set(p, ResetProfile(key))

profile_freeze(p, freeze) == Exists(p) /\ Set(p, [profiles[p] EXCEPT !.frozen = freeze])

profile_enable(p, on) == Exists(p) /\ Set(p, [profiles[p] EXCEPT !.enabled = on])

profile_switch(p) == Exists(p) /\ current' = p /\ UNCHANGED profiles

profile_close(p) ==
    /\ Exists(p) /\ profiles[p].under < MaxUnder
    /\ Set(p, ClosedProfile(profiles[p]))

(***************************************************************************)
(* The running program.                                                    *)
(***************************************************************************)

\* The main loop counts the instruction in the current profile.
OnStack(P) == {P.stack[i].ep : i \in 0..(P.sp - 1)}

CountInstruction ==
    /\ Exists(current)
    /\ LET P == profiles[current]
       IN  /\ Counting(P) /\ P.icount < MaxIcount
           /\ Set(current, [P EXCEPT
                !.icount = @ + 1,
                !.inclusive = [e \in Points |->
                    P.inclusive[e] + (IF e \in OnStack(P) THEN 1 ELSE 0)]])

\* setupMethodCall enters a method.
CallMethod(m) ==
    /\ Exists(current) /\ profiles[current].calls < MaxCalls
    /\ Set(current, mark_block_enter(profiles[current], m, TRUE, FALSE, FALSE))

\* invoke_trap enters a handler, marking an interface call and an athrow.
EnterTrap(b, inv, athrow) ==
    /\ ~(inv /\ athrow)
    /\ Exists(current) /\ profiles[current].calls < MaxCalls
    /\ Set(current, mark_block_enter(profiles[current], b, FALSE, inv, athrow))

\* "profile markenter", or the mailbox, for any profile at any pc.
MarkEnter(p, key) ==
    /\ Exists(p) /\ profiles[p].calls < MaxCalls
    /\ Set(p, mark_block_enter(profiles[p], key, FALSE, FALSE, FALSE))

\* A return, priv_ret_from_trap or "profile markexit": the pc is in at.
LeaveBlock(p, at) ==
    /\ Exists(p) /\ profiles[p].under < MaxUnder
    /\ Set(p, mark_block_exit(profiles[p], at))

-----------------------------------------------------------------------------
\* What the user or the program can ask of profile p, at entry point key.
profileCmd(p) ==
    \/ \E key \in Points : \/ profile_create(p, key)
                           \/ profile_reset(p, key)
                           \/ MarkEnter(p, key)
                           \/ LeaveBlock(p, key)
    \/ \E b \in BOOLEAN : profile_freeze(p, b) \/ profile_enable(p, b)
    \/ profile_switch(p)
    \/ profile_close(p)

Init == profiles = [p \in {} |-> 0] /\ current = NoProfile

Next ==
    \/ \E p \in Profiles : profileCmd(p)
    \/ CountInstruction
    \/ \E m \in Methods : CallMethod(m)
    \/ \E b \in Blocks, inv, athrow \in BOOLEAN : EnterTrap(b, inv, athrow)

Spec == Init /\ [][Next]_vars

-----------------------------------------------------------------------------
(***************************************************************************)
(* Properties.                                                             *)
(***************************************************************************)
Frames(P) == 0..(P.sp - 1)

\* The table of profiles, their stacks and their counts have their types, the
\* stack is never empty and every frame on it is of a registered entry point.
TypeOK ==
    /\ DOMAIN profiles \subseteq Profiles
    /\ current \in Profiles \cup {NoProfile}
    /\ \A p \in DOMAIN profiles :
        LET P == profiles[p]
        IN  /\ P.sp \in 1..(P.calls + 1)
            /\ DOMAIN P.eps \subseteq Points
            /\ \A i \in Frames(P) : /\ P.stack[i].ep \in DOMAIN P.eps
                                    /\ P.stack[i].next \in -1..(i - 1)
            /\ \A e \in DOMAIN P.eps : P.eps[e].first \in -1..(P.sp - 1)

\* The instructions of a frame on the stack not yet given to its entry point.
LiveSelf(P, i) ==
    P.stack[i].self + (IF i = P.sp - 1 THEN P.icount - P.stack[i].beginSelf ELSE 0)

SelfTotal(P) ==
    SumFunction([e \in DOMAIN P.eps |-> P.eps[e].self])
        + SumFunction([i \in Frames(P) |-> LiveSelf(P, i)])

\* Every counted instruction is in exactly one self count: those of the entry
\* points, with what the frames on the stack still hold, add up to the
\* instructions counted, across calls, returns, unwinding, freezing and
\* switching, as long as the lowest block was never left.
SelfCountsAddUp ==
    \A p \in DOMAIN profiles :
        profiles[p].under = 0 => SelfTotal(profiles[p]) = profiles[p].icount

\* The comment in mark_block_exit_raw: when more blocks are left than were
\* entered, the profile goes on as if the lowest block had been called again,
\* so its self counts still add up to the instructions counted.
FreshProgramAfterUnderflow ==
    \A p \in DOMAIN profiles : SelfTotal(profiles[p]) = profiles[p].icount

\* What the frames of e on the stack will add to its total: the outermost its
\* whole time, each less what the frames of e above it account for.
LiveTotal(P, e) ==
    SumFunction([i \in {j \in Frames(P) : P.stack[j].ep = e} |->
                    (IF P.stack[i].next = -1 THEN P.icount - P.stack[i].begin ELSE 0)
                        - P.stack[i].correction])

\* A recursive function is counted once: the total of an entry point, with what
\* its frames will add, is the number of instructions counted while it was on
\* the stack.  "Program" is left out: profile_reset does not enter it as on the
\* stack, so a method that starts where the profile was reset is counted twice.
TotalsCountOnce ==
    \A p \in DOMAIN profiles :
        LET P == profiles[p]
        IN  \A e \in DOMAIN P.eps \ {P.program} :
                P.eps[e].total + LiveTotal(P, e) = P.inclusive[e]

\* first_stack_frame_index is the lowest frame of the entry point, or -1 when it
\* is not on the stack, the test for a recursive call; next links each frame to
\* the nearest one below of the same entry point.
RecursionLinks ==
    \A p \in DOMAIN profiles :
        LET P == profiles[p]
            Of(e) == {i \in Frames(P) : P.stack[i].ep = e}
        IN  \A e \in DOMAIN P.eps \ {P.program} :
                /\ P.eps[e].first = (IF Of(e) = {} THEN -1 ELSE Min(Of(e)))
                /\ \A i \in Of(e) :
                    LET below == {j \in Of(e) : j < i}
                    IN  P.stack[i].next = (IF below = {} THEN -1 ELSE Max(below))

\* The caller lists share out the total of every entry point but "Program".
CallersShareTotal ==
    \A p \in DOMAIN profiles :
        LET P == profiles[p]
        IN  \A e \in DOMAIN P.eps \ {P.program} :
                SumFunctionOnSet(P.arcs, {a \in DOMAIN P.arcs : a[2] = e}) = P.eps[e].total
=============================================================================
