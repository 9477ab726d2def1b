-------------------------------- MODULE Caches --------------------------------
(***************************************************************************)
(* Both caches of the instruction accurate simulator: the direct mapped,   *)
(* read-only instruction cache of tools/cache/src/cache.c beside the data  *)
(* cache.  It does not watch stores: a program that changes instructions,  *)
(* as every quickening trap handler of tools/traps does, and a debugger    *)
(* that inserts breakpoints, flush the line out of both caches.  The flush *)
(* operations work on the D$ first, and each has its own conditions under  *)
(* which it gets as far as the I$.                                         *)
(***************************************************************************)
EXTENDS DataCache

CONSTANTS
    Code,         \* the instruction words that are changed at run time
    ILineWords,   \* iCacheLineSize, in words
    ISets         \* numOfIcacheEntries

ASSUME CachesAssumption ==
    /\ Code \subseteq Addr
    /\ ILineWords \in Nat \ {0}
    /\ ISets \in Nat \ {0}
    /\ LineWords % ILineWords = 0

VARIABLES
    I,        \* the instruction cache
    ice,      \* PSR.ICE
    stale     \* history: code changed since its I$ line was flushed

cvars == <<dvars, I, ice, stale>>
vars  == <<cvars, op>>

IWords   == 0..ILineWords - 1
IIndexes == 0..ISets - 1

IIndex(a) == (a \div ILineWords) % ISets
IWord(a)  == a % ILineWords

ITag(a) == (a \div ILineWords) \div ISets

makeIAddr(t, i) == (t * ISets + i) * ILineWords

ILineAddrs(a) == {b \in Addr : b \div ILineWords = a \div ILineWords}

ITags  == 0..(MaxAddr \div ILineWords) \div ISets
IEntry == [tag : ITags, valid : BOOLEAN, line : [IWords -> Values]]

CachesInit ==
    /\ Init
    /\ I = [i \in IIndexes |-> [tag |-> 0, valid |-> FALSE,
                                line |-> [w \in IWords |-> 0]]]
    /\ ice = FALSE
    /\ stale = {}

IHit(a) == I[IIndex(a)].valid /\ I[IIndex(a)].tag = ITag(a)

-----------------------------------------------------------------------------
(* Every step that lets the program see another value makes the word       *)
(* stale; a flush that reports success is what the program relies on.      *)
Changed        == {a \in Code : ram'[a] # ram[a]}
Stored         == stale' = stale \cup Changed
FlushedLine(a) == stale' = stale \ ILineAddrs(a)

DropLine(a)  == I' = [I EXCEPT ![IIndex(a)].valid = FALSE]

(* Seeded fault: the line is valid whether or not memory was read. *)
iCacheRead_Unchecked(a) ==
    LET base == makeIAddr(ITag(a), IIndex(a))
    IN  /\ I' = IF IHit(a) THEN I
                ELSE [I EXCEPT ![IIndex(a)] =
                        [tag |-> ITag(a), valid |-> TRUE,
                         line |-> [w \in IWords |-> IF base \in Backed
                                                    THEN mem[base + w]
                                                    ELSE Absent]]]
        /\ eid' = IF IHit(a) \/ base \in Backed THEN eid
                  ELSE vSetupException(INSTR_ACC_EXCEPTION)

(* iCacheSelect and iCacheRead.                                            *)
iCacheRead(a) ==
    LET base == makeIAddr(ITag(a), IIndex(a))
    IN  \/ IHit(a) /\ UNCHANGED <<I, eid>>
        \/ /\ ~IHit(a) /\ base \in Backed
           /\ I' = [I EXCEPT ![IIndex(a)] =
                       [tag |-> ITag(a), valid |-> TRUE,
                        line |-> [w \in IWords |-> mem[base + w]]]]
           /\ UNCHANGED eid
        \/ /\ ~IHit(a) /\ base \notin Backed
           /\ eid' = vSetupException(INSTR_ACC_EXCEPTION)
           /\ UNCHANGED I

get_new_instr(a) ==
    /\ eid = NO_EXCEPTION
    /\ \/ ice /\ iCacheRead(a)
       \/ /\ ~ice
          /\ eid' = IF a \in Backed THEN eid
                    ELSE vSetupException(INSTR_ACC_EXCEPTION)
          /\ UNCHANGED I
    /\ op' = NoOp
    /\ UNCHANGED <<mem, D, psr, ice, stale>>

ICacheFlush(a) == IF ice THEN DropLine(a) ELSE UNCHANGED I

(* The D$ half of a flush fails if a dirty line cannot be written back.    *)
FlushFails(a) ==
    /\ Present(a)
    /\ LET s == WayOf(D[DIndex(a)], DTag(a))
       IN  MustWrite(DIndex(a), s) /\ ~CanWrite(DIndex(a), s)

(* Where the routine gets as far as the I$: with PSR.DCE on and no data    *)
(* cache it returns, successfully, in front of it.                         *)
ReachesICache(a) == (dce => DSets > 0) /\ ~FlushFails(a)

(* Seeded fault: a line that is not in the D$ is left in the I$ too. *)
cache_flush_OnlyPresent(a) ==
    /\ cacheFlush(a)
    /\ IF ReachesICache(a) /\ Present(a) THEN ICacheFlush(a) ELSE UNCHANGED I
    /\ IF FlushFails(a) THEN UNCHANGED stale ELSE FlushedLine(a)

cache_flush(a) ==
    /\ cacheFlush(a)
    /\ IF ReachesICache(a) THEN ICacheFlush(a) ELSE UNCHANGED I
    /\ IF FlushFails(a) THEN UNCHANGED stale ELSE FlushedLine(a)

(* The I$ line goes whatever its tag, and whatever PSR.ICE says.           *)
cache_index_flush(a, s) ==
    /\ cacheIndexFlush(a, s)
    /\ IF /\ dce /\ DSets > 0
          /\ MustWrite(DIndex(a), s) => CanWrite(DIndex(a), s)
       THEN DropLine(a) ELSE UNCHANGED I
    /\ UNCHANGED stale

cache_invalidate(a) ==
    /\ cacheInvalidate(a)
    /\ I' = IF (dce => DSets > 0) /\ ice
            THEN [I EXCEPT ![IIndex(a)].valid = FALSE, ![IIndex(a)].tag = 0]
            ELSE I
    /\ Stored

(* Seeded fault: the debugger's store takes the way of any other store. *)
debugger_write_NoFlush(a, v) ==
    /\ javaMemWrite(a, v)
    /\ UNCHANGED I
    /\ stale' = (stale \cup Changed) \
                    (IF a \in Backed THEN ILineAddrs(a) ELSE {})

(* The debugger does not look at the result of the flush.                  *)
debugger_write(a, v) ==
    /\ sim_write(a, v)
    /\ IF ReachesICache(a) THEN ICacheFlush(a) ELSE UNCHANGED I
    /\ stale' = (stale \cup Changed) \
                    (IF a \in Backed THEN ILineAddrs(a) ELSE {})

priv_write_icache_tag(i) ==
    /\ ~ice
    /\ I' = [I EXCEPT ![i].tag = 0, ![i].valid = FALSE]
    /\ op' = NoOp
    /\ UNCHANGED <<dvars, ice, stale>>

(* The reset code clears the tags before PSR.ICE goes on.                  *)
priv_write_psr_ice ==
    /\ ice \/ \A i \in IIndexes : ~I[i].valid
    /\ ice' = ~ice
    /\ op' = NoOp
    /\ UNCHANGED <<dvars, I, stale>>

DataAccess ==
    /\ Access \/ CheckExceptions
    /\ Stored
    /\ UNCHANGED <<I, ice>>

DataCacheInstruction ==
    /\ eid = NO_EXCEPTION
    /\ \/ \E a \in Addr : zero_line(a)
       \/ \E i \in DIndexes, s \in Ways : priv_write_dcache_tag(i, s)
       \/ priv_write_psr
    /\ Stored
    /\ UNCHANGED <<eid, I, ice>>

FlushInstruction ==
    /\ eid = NO_EXCEPTION
    /\ \E a \in Addr :
          \/ cache_flush(a)
          \/ cache_invalidate(a)
          \/ \E s \in Ways : cache_index_flush(a, s)
    /\ UNCHANGED <<eid, ice>>

InstructionCacheSetup ==
    /\ eid = NO_EXCEPTION
    /\ (\E i \in IIndexes : priv_write_icache_tag(i)) \/ priv_write_psr_ice

GdbWrite ==
    /\ eid = NO_EXCEPTION
    /\ \E a \in Addr : \E v \in Data(a) : debugger_write(a, v)
    /\ UNCHANGED ice

CachesNext ==
    \/ DataAccess
    \/ DataCacheInstruction
    \/ FlushInstruction
    \/ InstructionCacheSetup
    \/ GdbWrite
    \/ \E a \in Addr : get_new_instr(a)

CachesSpec == CachesInit /\ [][CachesNext]_vars

-----------------------------------------------------------------------------
CachesTypeOK ==
    /\ mem \in [Backed -> Values]
    /\ D \in [DIndexes -> DEntry]
    /\ I \in [IIndexes -> IEntry]
    /\ psr \in [dce : BOOLEAN, aem : BOOLEAN]
    /\ ice \in BOOLEAN
    /\ eid \in Exceptions
    /\ stale \subseteq Code

(* What the handlers of tools/traps rely on when they replace an           *)
(* instruction by its quick form ("flush out both I$ and D$"), and the     *)
(* debugger when it inserts a breakpoint: after cache_flush has returned   *)
(* for the last store to a word, an instruction fetch, through the I$ or   *)
(* from memory, gets what was stored.                                      *)
FlushedCodeIsFetched ==
    \A a \in (Code \cap Backed) \ stale :
        /\ mem[a] = ram[a]
        /\ ice /\ IHit(a) => I[IIndex(a)].line[IWord(a)] = ram[a]
===============================================================================
