------------------------- MODULE InstructionsProofs -------------------------
(***************************************************************************)
(* Theorems about Instructions, for any programs, handlers and memory.     *)
(***************************************************************************)
EXTENDS Instructions, FiniteSetTheorems, SequenceTheorems, TLAPS

Fields == WordRegisters \cup OtherFields

(***************************************************************************)
(* What an instruction that began at machine s may have made of it: t is   *)
(* well-formed, its stack is above the limit, an OPLIM exception has       *)
(* switched the limit off, and in user mode s the registers of the system, *)
(* those saved for a pending exception included, are still those of s.     *)
(***************************************************************************)
Kept(s, t) ==
    /\ \A r \in Privileged : t[r] = s[r]
    /\ t.trapbase \div 2^11 = s.trapbase \div 2^11
    /\ t.exc.id # Exc.NO =>
           /\ t.exc.cpu.userrange1 = s.userrange1
           /\ t.exc.cpu.userrange2 = s.userrange2
           /\ t.exc.cpu.scBottom = s.scBottom
           /\ t.exc.cpu.psr = s.psr
           /\ t.exc.cpu.trapbase \div 2^11 = s.trapbase \div 2^11
LimitOff(t) == t.exc.id = Exc.OPLIM => ~LimitEnabled(t)
Sound(t) == MachineOK(t) /\ AboveLimit(t) /\ LimitOff(t)
Steady(s, t) == MachineOK(t) /\ (UserMode(s) => Kept(s, t) /\ t.psr = s.psr)
Good(s, t) == Sound(t) /\ Steady(s, t)

TrapPsr(psr) == ResetBit(SetBit(psr, PSR.SU), PSR.IE)
Done(s, t) == Sound(t) /\ (UserMode(s) => /\ Kept(s, t)
                                          /\ t.psr \in {s.psr, TrapPsr(s.psr)})

-----------------------------------------------------------------------------
(***************************************************************************)
(* One field changes.                                                      *)
(***************************************************************************)
LEMMA SetField ==
    ASSUME NEW t, MachineOK(t), NEW r \in Fields, NEW v,
           NEW u, u = [t EXCEPT ![r] = v]
    PROVE  /\ u = [x \in Fields |-> u[x]]
           /\ u[r] = v
           /\ \A x \in Fields \ {r} : u[x] = t[x]
  BY DEF MachineOK, Fields

LEMMA SetWord ==
    ASSUME NEW t, MachineOK(t), NEW r \in WordRegisters, NEW v \in Words,
           NEW u, u = [t EXCEPT ![r] = v]
    PROVE  /\ MachineOK(u) /\ u[r] = v
           /\ \A x \in Fields \ {r} : u[x] = t[x]
<1>1. r \in Fields
  BY DEF Fields
<1>2. /\ u = [x \in Fields |-> u[x]] /\ u[r] = v
      /\ \A x \in Fields \ {r} : u[x] = t[x]
  BY <1>1 DEF MachineOK, Fields
<1>3. QED BY <1>2 DEF MachineOK, Fields, WordRegisters, OtherFields

(* A register any program may write.                                       *)
LEMMA SetRegister ==
    ASSUME NEW s, NEW t, Good(s, t), NEW v \in Words,
           NEW r \in {"pc", "vars", "frame", "const_pool"}
    PROVE  Good(s, [t EXCEPT ![r] = v])
<1> DEFINE u == [t EXCEPT ![r] = v]
<1>1. MachineOK(t) /\ r \in WordRegisters
  BY DEF Good, Sound, WordRegisters
<1>2. MachineOK(u) /\ \A x \in Fields \ {r} : u[x] = t[x]
  BY <1>1, SetWord
<1> HIDE DEF u
<1>3. \A x \in Privileged \cup {"optop", "oplim", "psr", "trapbase", "exc"} : u[x] = t[x]
  BY <1>2 DEF Fields, WordRegisters, OtherFields, Privileged
<1>4. AboveLimit(u) /\ LimitOff(u)
  BY <1>3 DEF Good, Sound, LimitOff, AboveLimit, LimitEnabled, Limit
<1>5. UserMode(s) => Kept(s, u) /\ u.psr = s.psr
  BY <1>3 DEF Good, Steady, Kept
<1>6. QED BY <1>2, <1>4, <1>5 DEF Good, Sound, Steady, u

LEMMA SetRegisters ==
    ASSUME NEW s, NEW t, Good(s, t), NEW v \in Words
    PROVE  /\ Good(s, [t EXCEPT !.pc = v])
           /\ Good(s, [t EXCEPT !.vars = v])
           /\ Good(s, [t EXCEPT !.frame = v])
           /\ Good(s, [t EXCEPT !.const_pool = v])
  BY SetRegister

(* Memory and the stack cache, of which only the type matters here.        *)
StorageOK(r, f) ==
    /\ r = "mem" => \A a \in DOMAIN f : a \in DOMAIN Image /\ f[a] \in Words
    /\ r = "sc" => \A k \in DOMAIN f : k \in 0..(SCACHE_SIZE - 1) /\ f[k] \in Words
    /\ r \in {"lockCount", "lockAddr"} => f \in [LockRegs -> Words]
    /\ r = "global" => f \in [Globals -> Words]
    /\ r = "uIRLState" => f \in 0..15
LEMMA SetStorage ==
    ASSUME NEW s, NEW t, Good(s, t), NEW r \in OtherFields \ {"exc"}, NEW f,
           StorageOK(r, f)
    PROVE  Good(s, [t EXCEPT ![r] = f])
<1> DEFINE u == [t EXCEPT ![r] = f]
<1>1. MachineOK(t)
  BY DEF Good, Sound
<1>2. r \in Fields
  BY DEF Fields
<1>3. /\ u = [x \in Fields |-> u[x]] /\ u[r] = f
      /\ \A x \in Fields \ {r} : u[x] = t[x]
  BY <1>1, <1>2, SetField
<1> HIDE DEF u
<1>4. \A x \in WordRegisters \cup {"exc"} : u[x] = t[x]
  BY <1>3 DEF Fields, WordRegisters, OtherFields
<1>5. \A x \in OtherFields : x # r => u[x] = t[x]
  BY <1>3 DEF Fields
<1>6. MachineOK(u)
  <2>1. /\ u.lockCount \in [LockRegs -> Words]
        /\ u.lockAddr \in [LockRegs -> Words]
        /\ u.global \in [Globals -> Words]
        /\ u.uIRLState \in 0..15
    BY <1>1, <1>3, <1>5 DEF StorageOK, MachineOK, OtherFields
  <2>2. \A a \in DOMAIN u.mem : a \in DOMAIN Image /\ u.mem[a] \in Words
    BY <1>1, <1>3, <1>5 DEF StorageOK, MachineOK, OtherFields
  <2>3. \A k \in DOMAIN u.sc : k \in 0..(SCACHE_SIZE - 1) /\ u.sc[k] \in Words
    BY <1>1, <1>3, <1>5 DEF StorageOK, MachineOK, OtherFields
  <2>4. /\ u = [x \in WordRegisters \cup OtherFields |-> u[x]]
        /\ \A x \in WordRegisters : u[x] \in Words
        /\ ExceptionOK(u.exc)
    BY <1>1, <1>3, <1>4 DEF MachineOK, Fields
  <2>5. QED BY <2>1, <2>2, <2>3, <2>4 DEF MachineOK
<1>7. \A x \in Privileged \cup {"optop", "oplim", "psr", "trapbase", "exc"} : u[x] = t[x]
  BY <1>4 DEF WordRegisters, Privileged
<1>8. AboveLimit(u) /\ LimitOff(u)
  BY <1>7 DEF Good, Sound, LimitOff, AboveLimit, LimitEnabled, Limit
<1>9. UserMode(s) => Kept(s, u) /\ u.psr = s.psr
  BY <1>7 DEF Good, Steady, Kept
<1>10. QED BY <1>6, <1>8, <1>9 DEF Good, Sound, Steady, u

(* An exception other than OPLIM.                                          *)
LEMMA SetupGood ==
    ASSUME NEW s, NEW t, Steady(s, t), NEW eid \in 2..12
    PROVE  /\ Steady(s, vSetupException(t, eid))
           /\ \A x \in Fields \ {"exc"} : vSetupException(t, eid)[x] = t[x]
           /\ vSetupException(t, eid).exc.id \in {eid, t.exc.id}
           /\ vSetupException(t, eid).exc.id # Exc.NO
           /\ Good(s, t) /\ eid # Exc.OPLIM => Good(s, vSetupException(t, eid))
<1> DEFINE u == vSetupException(t, eid)
           e == IF ~bAnyExceptionPending(t) THEN [id |-> eid, cpu |-> SavedCPU(t)]
                ELSE IF eid < t.exc.id THEN [t.exc EXCEPT !.id = eid]
                ELSE t.exc
<1>1. MachineOK(t)
  BY DEF Steady
<1>2. "exc" \in Fields
  BY DEF Fields, OtherFields
<1>3. /\ u = [x \in Fields |-> u[x]] /\ u.exc = e
      /\ \A x \in Fields \ {"exc"} : u[x] = t[x]
  <2>1. u = [t EXCEPT !["exc"] = e] \/ (u = t /\ e = t.exc)
    BY DEF vSetupException, bAnyExceptionPending
  <2> HIDE DEF e
  <2>2. CASE u = [t EXCEPT !["exc"] = e]
    <3> DEFINE w == [t EXCEPT !["exc"] = e]
    <3>1. /\ w = [x \in Fields |-> w[x]] /\ w["exc"] = e
          /\ \A x \in Fields \ {"exc"} : w[x] = t[x]
      BY <1>1, <1>2, SetField
    <3> HIDE DEF u, w
    <3>2. u = w
      BY <2>2 DEF w
    <3>3. QED BY <3>1, <3>2
  <2> HIDE DEF u
  <2>3. CASE u = t /\ e = t.exc
    BY <1>1, <2>3 DEF MachineOK, Fields
  <2>4. QED BY <2>1, <2>2, <2>3
<1>4. /\ ExceptionOK(e) /\ e.id \in {eid, t.exc.id} /\ e.id # 0
      /\ ~bAnyExceptionPending(t) => e.cpu = SavedCPU(t)
      /\ bAnyExceptionPending(t) => e.cpu = t.exc.cpu
  <2>1. CASE ~bAnyExceptionPending(t)
    <3>1. SavedCPU(t) \in [SavedRegisters -> Words]
      BY <1>1 DEF SavedCPU, SavedRegisters, MachineOK, WordRegisters
    <3>2. QED BY <2>1, <3>1 DEF ExceptionOK
  <2>2. CASE bAnyExceptionPending(t)
    <3>1. t.exc \in [id : 2..12, cpu : [SavedRegisters -> Words]]
      BY <1>1, <2>2 DEF bAnyExceptionPending, NoException, MachineOK, ExceptionOK, Exc
    <3>2. QED BY <2>2, <3>1 DEF ExceptionOK
  <2>3. QED BY <2>1, <2>2
<1> HIDE DEF u, e
<1>5. MachineOK(u)
  BY <1>1, <1>3, <1>4 DEF MachineOK, Fields, WordRegisters, OtherFields
<1>6. \A x \in Privileged \cup {"optop", "oplim", "psr", "trapbase"} : u[x] = t[x]
  BY <1>3 DEF Fields, WordRegisters, OtherFields, Privileged
<1>7. UserMode(s) => Kept(s, u) /\ u.psr = s.psr
  <2>1. CASE bAnyExceptionPending(t)
    BY <1>3, <1>4, <1>6, <2>1 DEF Steady, Kept, bAnyExceptionPending
  <2>2. CASE ~bAnyExceptionPending(t)
    BY <1>3, <1>4, <1>6, <2>2 DEF Steady, Kept, Privileged, SavedCPU
  <2>3. QED BY <2>1, <2>2
<1>8. ASSUME Good(s, t), eid # Exc.OPLIM
      PROVE  AboveLimit(u) /\ LimitOff(u)
  BY <1>3, <1>4, <1>6, <1>8 DEF Good, Sound, LimitOff, AboveLimit, LimitEnabled, Limit
<1>9. QED BY <1>3, <1>4, <1>5, <1>7, <1>8 DEF u, Good, Sound, Steady, Exc

-----------------------------------------------------------------------------
(***************************************************************************)
(* Numbers, reads and writes.                                              *)
(***************************************************************************)
LEMMA Constants ==
    /\ WordSize = 65536 /\ AddrSpace = 16384 /\ TopBit = 32768
    /\ \A w : w \in Words <=> w \in Int /\ 0 <= w /\ w < 65536
  BY DEF Words, WordSize, AddrSpace, TopBit

LEMMA WordTyped ==
    /\ Words \subseteq Nat
    /\ \A n \in Int : Word(n) \in Words /\ Align(n) \in Int /\ Signed(n) \in Int
    /\ \A w \in Words : /\ Align(w) \in Words /\ Align(w) <= w
                        /\ Word(w) = w /\ w % AddrSpace \in Words
                        /\ w % TopBit \in Words
<1>1. Words \subseteq Nat
  BY Constants
<1>2. ASSUME NEW n \in Int PROVE Word(n) \in Words /\ Align(n) \in Int /\ Signed(n) \in Int
  BY Constants DEF Word, Align, Signed, JAVAWORDSIZE
<1>3. ASSUME NEW w \in Words PROVE Align(w) \in Words /\ Align(w) <= w
  BY Constants DEF Align, JAVAWORDSIZE
<1>4. ASSUME NEW w \in Words
      PROVE  Word(w) = w /\ w % AddrSpace \in Words /\ w % TopBit \in Words
  BY Constants DEF Word
<1>5. QED BY <1>1, <1>2, <1>3, <1>4

LEMMA FaultTyped ==
    ASSUME NEW t, NEW a, NEW c, NEW b
    PROVE  AccessFault(t, a, c, b) \in {Exc.NO, Exc.MEM_PROT, Exc.DBR1, Exc.DBR2}
  BY DEF AccessFault

LEMMA ReadSteady ==
    ASSUME NEW s, NEW t, Steady(s, t), NEW a, NEW c
    PROVE  /\ Steady(s, ReadWord(t, a, c).m)
           /\ ReadWord(t, a, c).v \in Words
           /\ \A x \in Fields \ {"exc"} : ReadWord(t, a, c).m[x] = t[x]
           /\ t.exc.id # Exc.OPLIM => ReadWord(t, a, c).m.exc.id # Exc.OPLIM
<1> DEFINE w == Align(Word(a))
           eid == AccessFault(t, Word(a), c, TRUE)
           r == ReadWord(t, a, c)
<1>1. MachineOK(t) /\ t.junk \in Words
  BY DEF Steady, MachineOK, WordRegisters
<1>2. ScacheWord(t, w) \in Words /\ (Exists(w) => MemWord(t, w) \in Words)
  <2>1. ScacheWord(t, w) \in Words
    <3>1. \A k \in DOMAIN t.sc : t.sc[k] \in Words
      BY <1>1 DEF MachineOK
    <3>2. SCACHE_INIT_VALUE \in Words
      BY Constants, SMT DEF SCACHE_INIT_VALUE
    <3>3. QED BY <3>1, <3>2 DEF ScacheWord
  <2>2. ASSUME Exists(w) PROVE MemWord(t, w) \in Words
    <3>1. Image[Align(w)] \in Words
      BY <2>2, MachineAssumption DEF Exists
    <3>2. QED BY <1>1, <3>1 DEF MemWord, MachineOK
  <2>3. QED BY <2>1, <2>2
<1>3. \/ r = [m |-> t, v |-> ScacheWord(t, w)]
      \/ r = [m |-> t, v |-> MemWord(t, w)] /\ Exists(w)
      \/ \E e \in {3, 5, 6, 11, 12} : r = [m |-> vSetupException(t, e), v |-> t.junk]
  <2>1. eid \in {0, 3, 5, 6}
    BY FaultTyped DEF Exc
  <2>2. r = IF c \in StackTypes /\ ScacheHit(t, w) THEN [m |-> t, v |-> ScacheWord(t, w)]
            ELSE ReadMemory(t, w, eid)
    BY DEF ReadWord, javaMemRead
  <2> HIDE DEF w, eid, r
  <2>3. \/ ReadMemory(t, w, eid) = [m |-> t, v |-> MemWord(t, w)] /\ Exists(w)
        \/ \E e \in {3, 5, 6, 11, 12} :
              ReadMemory(t, w, eid) = [m |-> vSetupException(t, e), v |-> t.junk]
    BY <2>1 DEF ReadMemory, Exc
  <2>4. QED BY <2>2, <2>3
<1> HIDE DEF r, w, eid
<1>4. CASE r.m = t /\ r.v \in Words
  BY <1>4 DEF r
<1>5. ASSUME NEW e \in {3, 5, 6, 11, 12}, r = [m |-> vSetupException(t, e), v |-> t.junk]
      PROVE  /\ Steady(s, r.m) /\ r.v \in Words
             /\ \A x \in Fields \ {"exc"} : r.m[x] = t[x]
             /\ t.exc.id # Exc.OPLIM => r.m.exc.id # Exc.OPLIM
  <2>1. e \in 2..12 /\ e # Exc.OPLIM
    BY DEF Exc
  <2>2. QED BY <1>1, <1>5, <2>1, SetupGood
<1>6. QED BY <1>2, <1>3, <1>4, <1>5 DEF r

LEMMA ReadGood ==
    ASSUME NEW s, NEW t, Good(s, t), NEW a, NEW c
    PROVE  /\ Good(s, ReadWord(t, a, c).m)
           /\ ReadWord(t, a, c).v \in Words
           /\ \A x \in Fields \ {"exc"} : ReadWord(t, a, c).m[x] = t[x]
           /\ t.exc.id # Exc.OPLIM => ReadWord(t, a, c).m.exc.id # Exc.OPLIM
<1>1. PICK r : r = ReadWord(t, a, c)
  OBVIOUS
<1>2. /\ Steady(s, r.m) /\ r.v \in Words
      /\ \A x \in Fields \ {"exc"} : r.m[x] = t[x]
      /\ t.exc.id # Exc.OPLIM => r.m.exc.id # Exc.OPLIM
  BY <1>1, ReadSteady DEF Good
<1>3. r.m.optop = t.optop /\ r.m.oplim = t.oplim
  BY <1>2 DEF Fields, WordRegisters, OtherFields
<1>4. AboveLimit(r.m) /\ LimitOff(r.m)
  BY <1>2, <1>3 DEF Good, Sound, AboveLimit, LimitOff, LimitEnabled, Limit
<1>5. QED BY <1>1, <1>2, <1>4 DEF Good, Sound, Steady

LEMMA ShiftTyped ==
    ASSUME NEW a \in Int, NEW size \in 0..2
    PROVE  \/ size = 0 /\ 2^BitsOf(size) = 16 /\ 2^ShiftIn(a, size) \in {1, 16, 256, 4096}
           \/ size = 1 /\ 2^BitsOf(size) = 256 /\ 2^ShiftIn(a, size) \in {1, 256}
           \/ size = 2 /\ 2^BitsOf(size) = 65536 /\ 2^ShiftIn(a, size) = 1
<1>1. a % 4 \in 0..3
  OBVIOUS
<1>2. CASE size = 0
  <2>1. BitsOf(size) = 4 /\ ShiftIn(a, size) \in {0, 4, 8, 12}
    BY <1>1, <1>2 DEF ShiftIn, BitsOf, ByteBits
  <2>2. 2^BitsOf(size) = 2^4
    BY <2>1, Zenon
  <2>3. 2^ShiftIn(a, size) \in {2^0, 2^4, 2^8, 2^12}
    BY <2>1, Zenon
  <2>4. QED BY <1>2, <2>2, <2>3, SMT
<1>3. CASE size = 1
  <2>1. BitsOf(size) = 8 /\ ShiftIn(a, size) \in {0, 8}
    BY <1>1, <1>3 DEF ShiftIn, BitsOf, ByteBits
  <2>2. 2^BitsOf(size) = 2^8
    BY <2>1, Zenon
  <2>3. 2^ShiftIn(a, size) \in {2^0, 2^8}
    BY <2>1, Zenon
  <2>4. QED BY <1>3, <2>2, <2>3, SMT
<1>4. CASE size = 2
  <2>1. BitsOf(size) = 16 /\ ShiftIn(a, size) \in {0}
    BY <1>1, <1>4 DEF ShiftIn, BitsOf, ByteBits
  <2>2. 2^BitsOf(size) = 2^16
    BY <2>1, Zenon
  <2>3. 2^ShiftIn(a, size) \in {2^0}
    BY <2>1, Zenon
  <2>4. QED BY <1>4, <2>2, <2>3, SMT
<1>5. QED BY <1>2, <1>3, <1>4, SMT

Places == {<<1, 16>>, <<16, 16>>, <<256, 16>>, <<4096, 16>>, <<1, 256>>,
           <<256, 256>>, <<1, 65536>>}
(* A part of n values put in place of the one low times further up.        *)
LEMMA PutTyped ==
    ASSUME NEW w \in Words, NEW v \in Int, NEW low \in Nat \ {0}, NEW n \in Nat \ {0},
           <<low, n>> \in Places
    PROVE  /\ w - ((w \div low) % n) * low + (v % n) * low \in Words
           /\ (w \div low) % n \in Words
<1>1. /\ w \in Int /\ 0 <= w /\ w < 65536
      /\ \A x : x \in Words <=> x \in Int /\ 0 <= x /\ x < 65536
  BY Constants, SMT
<1>2. CASE low = 1 /\ n = 16
  BY <1>1, <1>2
<1>3. CASE low = 16 /\ n = 16
  BY <1>1, <1>3
<1>4. CASE low = 256 /\ n = 16
  BY <1>1, <1>4
<1>5. CASE low = 4096 /\ n = 16
  BY <1>1, <1>5
<1>6. CASE low = 1 /\ n = 256
  BY <1>1, <1>6
<1>7. CASE low = 256 /\ n = 256
  BY <1>1, <1>7
<1>8. CASE low = 1 /\ n = 65536
  BY <1>1, <1>8
<1>9. QED BY <1>2, <1>3, <1>4, <1>5, <1>6, <1>7, <1>8, SMT DEF Places

LEMMA PartTyped ==
    ASSUME NEW w \in Words, NEW a \in Int, NEW size \in 0..2
    PROVE  /\ \A v \in Int : PutPart(w, a, size, v) \in Words
           /\ GetPart(w, a, size) \in Words
<1> DEFINE low == 2^ShiftIn(a, size)
           n == 2^BitsOf(size)
<1>1. /\ <<low, n>> \in Places
      /\ low \in Nat \ {0} /\ n \in Nat \ {0}
  <2>1. \/ n = 16 /\ low \in {1, 16, 256, 4096}
        \/ n = 256 /\ low \in {1, 256}
        \/ n = 65536 /\ low = 1
    BY ShiftTyped, SMT
  <2> HIDE DEF low, n
  <2>2. QED BY <2>1, SMT DEF Places
<1>2. ASSUME NEW v \in Int PROVE PutPart(w, a, size, v) = w - ((w \div low) % n) * low + (v % n) * low
  BY DEF PutPart
<1>3. GetPart(w, a, size) = (w \div low) % n
  BY DEF GetPart
<1> HIDE DEF low, n
<1>4. ASSUME NEW v \in Int
      PROVE  PutPart(w, a, size, v) \in Words /\ GetPart(w, a, size) \in Words
  <2>1. /\ w - ((w \div low) % n) * low + (v % n) * low \in Words
        /\ (w \div low) % n \in Words
    BY <1>1, PutTyped, Zenon
  <2>2. QED BY <2>1, <1>2, <1>3, Zenon
<1>5. QED BY <1>4

(* What the addresses of an instruction are made of.                       *)
LEMMA RegistersTyped ==
    ASSUME NEW s, NEW t, Good(s, t)
    PROVE  /\ MachineOK(t) /\ \A r \in WordRegisters : t[r] \in Words
           /\ \A n \in Int : /\ OPTOP_OFFSET(t, n) \in Int
                              /\ VARS_OFFSET(t, n) \in Int
                              /\ FRAME_OFFSET(t, n) \in Int
                              /\ CP_OFFSET(t, n) \in Int
<1>1. MachineOK(t) /\ \A r \in WordRegisters : t[r] \in Words
  BY DEF Good, Sound, MachineOK
<1>2. t.optop \in Nat /\ t.vars \in Nat /\ t.frame \in Nat /\ t.const_pool \in Nat
  BY <1>1, WordTyped DEF WordRegisters
<1>3. QED BY <1>1, <1>2 DEF OPTOP_OFFSET, VARS_OFFSET, FRAME_OFFSET, CP_OFFSET, JAVAWORDSIZE

LEMMA WriteGood ==
    ASSUME NEW s, NEW t, Good(s, t), NEW addr \in Int, NEW v \in Words,
           NEW size \in 0..2, NEW c, NEW u, u = javaMemWrite(t, addr, v, size, c)
    PROVE  /\ Good(s, u)
           /\ \A x \in Fields \ {"exc", "mem", "sc"} : u[x] = t[x]
           /\ t.exc.id # Exc.OPLIM => u.exc.id # Exc.OPLIM
<1> DEFINE eid == AccessFault(t, addr, c, FALSE)
           sc == Put(t.sc, ScacheSlot(addr), v)
           part == PutPart(MemWord(t, addr), addr, size, v)
           mem == Put(t.mem, Align(addr), part)
<1>1. \/ u = t
      \/ \E e \in {2, 3, 5, 6} : u = vSetupException(t, e)
      \/ u = [t EXCEPT !.sc = sc]
      \/ u = [t EXCEPT !.mem = mem] /\ Exists(addr)
  <2>1. eid \in {0, 3, 5, 6}
    BY FaultTyped DEF Exc
  <2> HIDE DEF eid
  <2>2. u = IF ~HeldBack(t, c) /\ c \in StackTypes /\ ScacheHit(t, addr)
            THEN [t EXCEPT !.sc = sc]
            ELSE WriteMemory(t, addr, v, size, HeldBack(t, c), eid)
    BY DEF javaMemWrite, eid
  <2>3. \/ WriteMemory(t, addr, v, size, HeldBack(t, c), eid) = t
        \/ \E e \in {2, 3, 5, 6} :
              WriteMemory(t, addr, v, size, HeldBack(t, c), eid) = vSetupException(t, e)
        \/ WriteMemory(t, addr, v, size, HeldBack(t, c), eid) = [t EXCEPT !.mem = mem]
           /\ Exists(addr)
    <3> HIDE DEF mem, sc
    <3>1. WriteMemory(t, addr, v, size, HeldBack(t, c), eid) =
            IF eid # Exc.NO THEN vSetupException(t, eid)
            ELSE IF HeldBack(t, c) THEN t
            ELSE IF ~Exists(addr)
                 THEN IF Bit(t.psr, PSR.AEM) THEN t ELSE vSetupException(t, Exc.ASYNC)
            ELSE [t EXCEPT !.mem = mem]
      BY DEF WriteMemory, mem
    <3>2. QED BY <2>1, <3>1 DEF Exc
  <2> HIDE DEF mem, sc
  <2>4. QED BY <2>2, <2>3
<1>2. MachineOK(t)
  BY RegistersTyped
<1>3. ASSUME u = [t EXCEPT !.sc = sc]
      PROVE  Good(s, u) /\ \A x \in Fields \ {"sc"} : u[x] = t[x]
  <2>1. ScacheSlot(addr) \in 0..(SCACHE_SIZE - 1)
    BY MachineAssumption DEF ScacheSlot, JAVAWORDSIZE
  <2>2. \A k \in DOMAIN t.sc : k \in 0..(SCACHE_SIZE - 1) /\ t.sc[k] \in Words
    BY <1>2 DEF MachineOK
  <2>3. \A k \in DOMAIN sc : k \in 0..(SCACHE_SIZE - 1) /\ sc[k] \in Words
    BY <2>1, <2>2 DEF Put
  <2> HIDE DEF sc
  <2>4. Good(s, [t EXCEPT !["sc"] = sc])
    BY <2>3, SetStorage DEF StorageOK, OtherFields
  <2>5. "sc" \in Fields
    BY DEF Fields, OtherFields
  <2>6. QED BY <1>2, <1>3, <2>4, <2>5, SetField
<1>4. ASSUME u = [t EXCEPT !.mem = mem], Exists(addr)
      PROVE  Good(s, u) /\ \A x \in Fields \ {"mem"} : u[x] = t[x]
  <2>1. Align(addr) \in DOMAIN Image
    BY <1>4 DEF Exists
  <2>2. \A a \in DOMAIN t.mem : a \in DOMAIN Image /\ t.mem[a] \in Words
    BY <1>2 DEF MachineOK
  <2>3. MemWord(t, addr) \in Words
    BY <2>1, <2>2, MachineAssumption DEF MemWord
  <2>4. part \in Words
    <3>1. v \in Int
      BY Constants
    <3>2. QED BY <2>3, <3>1, PartTyped
  <2> HIDE DEF part
  <2>5. \A a \in DOMAIN mem : a \in DOMAIN Image /\ mem[a] \in Words
    BY <2>1, <2>2, <2>4 DEF Put
  <2> HIDE DEF mem
  <2>6. Good(s, [t EXCEPT !["mem"] = mem])
    BY <2>5, SetStorage DEF StorageOK, OtherFields
  <2>7. "mem" \in Fields
    BY DEF Fields, OtherFields
  <2>8. QED BY <1>2, <1>4, <2>6, <2>7, SetField
<1>5. ASSUME NEW e \in {2, 3, 5, 6}, u = vSetupException(t, e)
      PROVE  /\ Good(s, u) /\ \A x \in Fields \ {"exc"} : u[x] = t[x]
             /\ t.exc.id # Exc.OPLIM => u.exc.id # Exc.OPLIM
  <2>1. e \in 2..12 /\ e # Exc.OPLIM
    BY DEF Exc
  <2>2. Steady(s, t)
    BY DEF Good
  <2>3. QED BY <1>5, <2>1, <2>2, SetupGood
<1> HIDE DEF eid, sc, part, mem
<1>6. "exc" \in Fields
  BY DEF Fields, OtherFields
<1>7. QED BY <1>1, <1>3, <1>4, <1>5, <1>6

LEMMA WriteWordGood ==
    ASSUME NEW s, NEW t, Good(s, t), NEW a \in Int, NEW v \in Words, NEW c
    PROVE  /\ Good(s, WriteWord(t, a, c, v))
           /\ \A x \in Fields \ {"exc", "mem", "sc"} : WriteWord(t, a, c, v)[x] = t[x]
           /\ t.exc.id # Exc.OPLIM => WriteWord(t, a, c, v).exc.id # Exc.OPLIM
<1>1. Word(a) \in Int
  BY Constants DEF Word
<1>2. QED BY <1>1, WriteGood DEF WriteWord

-----------------------------------------------------------------------------
(***************************************************************************)
(* Updates of the registers that have conditions: OPTOP and OPLIM, and     *)
(* those only the supervisor writes.                                       *)
(***************************************************************************)
LEMMA LimitTyped ==
    ASSUME NEW t, t.oplim \in Words
    PROVE  /\ t.oplim \in Nat /\ Limit(t) \in Words
           /\ ResetBit(t.oplim, 15) \in Words /\ ResetBit(t.oplim, 15) < TopBit
<1>1. t.oplim \in Int /\ 0 <= t.oplim /\ t.oplim < 65536
  BY Constants, SMT
<1>2. Limit(t) \in Words
  <2>1. t.oplim % TopBit \in Words
    BY WordTyped
  <2>2. QED BY <2>1, WordTyped DEF Limit
<1>3. /\ 0 <= ResetBit(t.oplim, 15) /\ ResetBit(t.oplim, 15) < 32768
      /\ ResetBit(t.oplim, 15) \in Int
  BY <1>1, SMT DEF ResetBit, Bit
<1>4. QED BY <1>1, <1>2, <1>3, Constants, SMT

Fits(t, v)  == LimitEnabled(t) => Limit(t) <= v
MayBe(t, v) == v >= TopBit => /\ Align(v % TopBit) <= t.optop
                              /\ t.exc.id # Exc.OPLIM

LEMMA SetOptop ==
    ASSUME NEW s, NEW t, Steady(s, t), LimitOff(t), NEW v \in Words, Fits(t, v)
    PROVE  Good(s, [t EXCEPT !.optop = v])
<1> DEFINE u == [t EXCEPT !.optop = v]
<1>1. MachineOK(t) /\ "optop" \in WordRegisters
  BY DEF Steady, WordRegisters
<1>2. MachineOK(u) /\ u.optop = v /\ \A x \in Fields \ {"optop"} : u[x] = t[x]
  BY <1>1, SetWord
<1> HIDE DEF u
<1>3. \A x \in Privileged \cup {"oplim", "psr", "trapbase", "exc"} : u[x] = t[x]
  BY <1>2 DEF Fields, WordRegisters, OtherFields, Privileged
<1>4. AboveLimit(u) /\ LimitOff(u)
  <2>1. LimitEnabled(u) <=> LimitEnabled(t)
    BY <1>3 DEF LimitEnabled
  <2>2. Limit(u) = Limit(t)
    BY <1>3 DEF Limit
  <2>3. v \in Int /\ Limit(t) \in Int
    <3>1. t.oplim \in Words
      BY <1>1 DEF MachineOK, WordRegisters
    <3>2. QED BY <3>1, LimitTyped, Constants
  <2>4. QED BY <1>2, <1>3, <2>1, <2>2, <2>3 DEF LimitOff, AboveLimit, Fits
<1>5. UserMode(s) => Kept(s, u) /\ u.psr = s.psr
  BY <1>3 DEF Steady, Kept
<1>6. QED BY <1>2, <1>4, <1>5 DEF Good, Sound, Steady, u

(* OPLIM: enabled only at or below OPTOP and with no OPLIM exception.      *)
LEMMA SetOplim ==
    ASSUME NEW s, NEW t, Steady(s, t), NEW v \in Words, MayBe(t, v)
    PROVE  Good(s, [t EXCEPT !.oplim = v])
<1> DEFINE u == [t EXCEPT !.oplim = v]
<1>1. MachineOK(t) /\ "oplim" \in WordRegisters
  BY DEF Steady, WordRegisters
<1>2. MachineOK(u) /\ u.oplim = v /\ \A x \in Fields \ {"oplim"} : u[x] = t[x]
  BY <1>1, SetWord
<1> HIDE DEF u
<1>3. \A x \in Privileged \cup {"optop", "psr", "trapbase", "exc"} : u[x] = t[x]
  BY <1>2 DEF Fields, WordRegisters, OtherFields, Privileged
<1>4. AboveLimit(u) /\ LimitOff(u)
  <2>1. t.optop \in Nat /\ v \in Int /\ Align(v % TopBit) \in Int
    <3>1. t.optop \in Words
      BY <1>1 DEF MachineOK, WordRegisters
    <3>2. v % TopBit \in Words
      BY WordTyped
    <3>3. QED BY <3>1, <3>2, WordTyped, Constants
  <2>2. QED BY <1>2, <1>3, <2>1 DEF LimitOff, AboveLimit, LimitEnabled, Limit, MayBe
<1>5. UserMode(s) => Kept(s, u) /\ u.psr = s.psr
  BY <1>3 DEF Steady, Kept
<1>6. QED BY <1>2, <1>4, <1>5 DEF Good, Sound, Steady, u

LEMMA RaiseGood ==
    ASSUME NEW s, NEW t, Steady(s, t)
    PROVE  Good(s, RaiseOplim(t))
<1> DEFINE e == vSetupException(t, Exc.OPLIM)
<1>1. Exc.OPLIM \in 2..12
  BY DEF Exc
<1>2. Steady(s, e)
  BY <1>1, SetupGood
<1>3. e.oplim \in Words
  BY <1>2 DEF Steady, MachineOK, WordRegisters
<1>4. RaiseOplim(t) = [e EXCEPT !.oplim = ResetBit(e.oplim, 15)]
  BY DEF RaiseOplim
<1> HIDE DEF e
<1>5. /\ ResetBit(e.oplim, 15) \in Words
      /\ ~(ResetBit(e.oplim, 15) >= TopBit)
  BY <1>3, LimitTyped, Constants, SMT
<1>6. MayBe(e, ResetBit(e.oplim, 15))
  BY <1>5 DEF MayBe
<1>7. QED BY <1>2, <1>4, <1>5, <1>6, SetOplim

LEMMA UpdateOptopGood ==
    ASSUME NEW s, NEW t, Good(s, t), NEW value \in Int
    PROVE  Good(s, UpdateOptop(t, value))
<1>1. CASE LimitEnabled(t) /\ Limit(t) > Word(value)
  BY <1>1, RaiseGood DEF UpdateOptop, Good
<1>2. CASE ~(LimitEnabled(t) /\ Limit(t) > Word(value))
  <2>1. Word(value) \in Words
    BY WordTyped
  <2>2. Word(value) \in Int /\ Limit(t) \in Int
    <3>1. t.oplim \in Words
      BY RegistersTyped DEF WordRegisters
    <3>2. QED BY <2>1, <3>1, LimitTyped, Constants
  <2>3. Fits(t, Word(value))
    BY <1>2, <2>2 DEF Fits
  <2>4. QED BY <1>2, <2>1, <2>3, SetOptop DEF UpdateOptop, Good, Sound
<1>3. QED BY <1>1, <1>2

LEMMA UpdateOplimGood ==
    ASSUME NEW s, NEW t, Good(s, t), NEW value \in Words,
           value >= TopBit => t.exc.id # Exc.OPLIM
    PROVE  Good(s, UpdateOplim(t, value))
<1> DEFINE n == [t EXCEPT !.oplim = Align(value)]
<1>1. MachineOK(t) /\ "oplim" \in WordRegisters
  BY DEF Steady, Good, WordRegisters
<1>2. Align(value) \in Words /\ Align(value) \in Int /\ value \in Int /\ Align(value) <= value
  BY WordTyped, Constants
<1>3. MachineOK(n) /\ n.oplim = Align(value) /\ \A x \in Fields \ {"oplim"} : n[x] = t[x]
  BY <1>1, <1>2, SetWord
<1>4. UpdateOplim(t, value) =
         IF LimitEnabled(n) /\ Limit(n) > n.optop THEN RaiseOplim(n) ELSE n
  BY DEF UpdateOplim
<1> HIDE DEF n
<1>5. \A x \in Privileged \cup {"optop", "psr", "trapbase", "exc"} : n[x] = t[x]
  BY <1>3 DEF Fields, WordRegisters, OtherFields, Privileged
<1>6. Steady(s, n)
  BY <1>3, <1>5 DEF Good, Steady, Kept
<1>7. CASE LimitEnabled(n) /\ Limit(n) > n.optop
  BY <1>4, <1>6, <1>7, RaiseGood
<1>8. CASE ~(LimitEnabled(n) /\ Limit(n) > n.optop)
  <2>1. n.optop \in Int /\ Limit(n) \in Int
    <3>1. n.optop \in Words /\ n.oplim \in Words
      BY <1>3 DEF MachineOK, WordRegisters
    <3>2. QED BY <3>1, LimitTyped, Constants
  <2>2. AboveLimit(n) /\ LimitOff(n)
    BY <1>2, <1>3, <1>5, <1>8, <2>1, Constants, SMT DEF LimitOff, AboveLimit, LimitEnabled
  <2>3. QED BY <1>4, <1>6, <1>8, <2>2 DEF Good, Sound, Steady
<1>9. QED BY <1>7, <1>8

(* A register only the supervisor may write.                               *)
LEMMA SetSystem ==
    ASSUME NEW s, NEW t, Good(s, t), ~UserMode(s), NEW v \in Words,
           NEW r \in WordRegisters \ {"optop", "oplim"}
    PROVE  Good(s, [t EXCEPT ![r] = v])
<1> DEFINE u == [t EXCEPT ![r] = v]
<1>1. MachineOK(t)
  BY DEF Good, Sound
<1>2. MachineOK(u) /\ \A x \in Fields \ {r} : u[x] = t[x]
  BY <1>1, SetWord
<1> HIDE DEF u
<1>3. \A x \in {"optop", "oplim", "exc"} : u[x] = t[x]
  BY <1>2 DEF Fields, WordRegisters, OtherFields
<1>4. AboveLimit(u) /\ LimitOff(u)
  BY <1>3 DEF Good, Sound, LimitOff, AboveLimit, LimitEnabled, Limit
<1>5. QED BY <1>2, <1>4 DEF Good, Sound, Steady, u

LEMMA SizeGood ==
    ASSUME NEW s, NEW t, Good(s, t), NEW size \in Int, NEW stack \in Int
    PROVE  Good(s, SizeAndStack(t, size, stack))
<1> DEFINE n == UpdateOptop(t, t.optop - stack * JAVAWORDSIZE)
<1>1. t.optop \in Int
  <2>1. t.optop \in Words
    BY RegistersTyped DEF WordRegisters
  <2>2. QED BY <2>1, Constants
<1>2. Good(s, n)
  <2>1. t.optop - stack * JAVAWORDSIZE \in Int
    BY <1>1 DEF JAVAWORDSIZE
  <2>2. QED BY <2>1, UpdateOptopGood
<1>3. SizeAndStack(t, size, stack) = [n EXCEPT !.pc = Word(n.pc + size)]
  BY DEF SizeAndStack
<1> HIDE DEF n
<1>4. Word(n.pc + size) \in Words
  <2>1. n.pc \in Words
    BY <1>2, RegistersTyped DEF WordRegisters
  <2>2. n.pc + size \in Int
    BY <2>1, Constants
  <2>3. QED BY <2>2, WordTyped
<1>5. PICK w \in Words : SizeAndStack(t, size, stack) = [n EXCEPT !.pc = w]
  BY <1>3, <1>4
<1>6. Good(s, [n EXCEPT !.pc = w])
  BY <1>2, SetRegisters
<1>7. QED BY <1>5, <1>6

LEMMA JumpGood ==
    ASSUME NEW s, NEW t, Good(s, t), NEW offset \in Int, NEW stack \in Int
    PROVE  Good(s, JumpAndStack(t, offset, stack))
<1> DEFINE n == [t EXCEPT !.pc = Word(t.pc + offset)]
<1>1. t.optop \in Int /\ t.pc \in Int
  <2>1. t.optop \in Words /\ t.pc \in Words
    BY RegistersTyped DEF WordRegisters
  <2>2. QED BY <2>1, Constants
<1>2. Good(s, n)
  <2>1. Word(t.pc + offset) \in Words
    BY <1>1, WordTyped
  <2>2. QED BY <2>1, SetRegisters
<1>3. t.optop - stack * JAVAWORDSIZE \in Int
  BY <1>1 DEF JAVAWORDSIZE
<1>4. JumpAndStack(t, offset, stack) = UpdateOptop(n, t.optop - stack * JAVAWORDSIZE)
  BY DEF JumpAndStack
<1> HIDE DEF n
<1>5. QED BY <1>2, <1>3, <1>4, UpdateOptopGood

-----------------------------------------------------------------------------
(***************************************************************************)
(* Folds over sequences.  iter is the function of MapThenFoldSet; that it  *)
(* exists is shown for one more element at a time.                         *)
(***************************************************************************)
LEMMA LeastSubset ==
    ASSUME NEW S, IsFiniteSet(S), NEW T, T \subseteq SUBSET S, T # {}
    PROVE  \E x \in T : \A y \in T : ~(y \subseteq x /\ y # x)
<1> DEFINE R == StrictSubsetOrdering(S)
           F == FiniteSubsetsOf(S)
<1>1. IsWellFoundedOn(R, F)
  BY FS_StrictSubsetOrderingWellFounded
<1>2. T \subseteq F
  BY FS_FiniteSubsetsOfFinite
<1>3. PICK x \in T : \A y \in T : <<y, x>> \notin R
  <2> HIDE DEF R, F
  <2>1. QED BY <1>1, <1>2, WFMin
<1>4. ASSUME NEW y \in T, y \subseteq x, y # x PROVE FALSE
  <2>1. <<y, x>> \in R
    BY <1>4 DEF StrictSubsetOrdering
  <2>2. QED BY <1>3, <2>1
<1>5. QED BY <1>4

LEMMA Induction ==
    ASSUME NEW n \in Nat, NEW T, 0 \in T, \A k \in 0..n - 1 : k \in T => k + 1 \in T
    PROVE  n \in T
<1> SUFFICES ASSUME n \notin T PROVE FALSE
  OBVIOUS
<1> DEFINE B == {0..k : k \in (0..n) \ T}
<1>1. B \subseteq SUBSET (0..n) /\ B # {}
  OBVIOUS
<1>2. IsFiniteSet(0..n)
  BY FS_Interval
<1>3. PICK x \in B : \A y \in B : ~(y \subseteq x /\ y # x)
  <2>1. PICK N : N = 0..n
    OBVIOUS
  <2>2. B \subseteq SUBSET N /\ B # {} /\ IsFiniteSet(N)
    BY <1>1, <1>2, <2>1
  <2> HIDE DEF B
  <2>3. QED BY <2>2, LeastSubset
<1>4. PICK k \in (0..n) \ T : x = 0..k
  BY <1>3
<1>5. k # 0 /\ k - 1 \in 0..n - 1 /\ k = (k - 1) + 1
  BY <1>4
<1>6. k - 1 \notin T
  BY <1>4, <1>5
<1>7. 0..k - 1 \in B
  BY <1>5, <1>6
<1>8. 0..k - 1 \subseteq 0..k /\ k \in 0..k /\ k \notin 0..k - 1
  BY <1>5
<1>9. QED BY <1>3, <1>4, <1>7, <1>8

(* The last word written of a prefix is written last.                      *)
LEMMA MaxOfPrefix ==
    ASSUME NEW k \in Nat, NEW x \in SUBSET (1..k + 1), k + 1 \in x
    PROVE  Max(x) = k + 1 /\ x \ {Max(x)} \in SUBSET (1..k)
<1>1. \A y \in x : y \in Int /\ y <= k + 1
  OBVIOUS
<1>2. \A y \in x : (\A z \in x : y >= z) => y = k + 1
  BY <1>1
<1>3. k + 1 \in x /\ \A z \in x : k + 1 >= z
  BY <1>1
<1>4. Max(x) = k + 1
  BY <1>2, <1>3 DEF Max
<1>5. QED BY <1>4

LEMMA Prefix ==
    ASSUME NEW n \in Nat, NEW k \in 0..n - 1
    PROVE  /\ 1..k + 1 \in SUBSET (1..n) /\ 1..k + 1 # {}
           /\ Max(1..k + 1) = k + 1 /\ (1..k + 1) \ {k + 1} = 1..k
<1>1. k \in Nat /\ k + 1 \in 1..k + 1 /\ 1..k + 1 \in SUBSET (1..k + 1)
  OBVIOUS
<1>2. Max(1..k + 1) = k + 1
  BY <1>1, MaxOfPrefix
<1>3. (1..k + 1) \ {k + 1} = 1..k /\ 1..k + 1 \in SUBSET (1..n)
  OBVIOUS
<1>4. QED BY <1>1, <1>2, <1>3

(* Several writes are one write after the other.                           *)
LEMMA WriteSteps ==
    ASSUME NEW t, NEW c, NEW n \in Nat, NEW puts, DOMAIN puts = 1..n
    PROVE  \E a : /\ WriteAll(t, c, puts) = a[n] /\ a[0] = t
                  /\ \A k \in 0..n - 1 :
                        a[k + 1] = WriteWord(a[k], puts[k + 1][1], c, puts[k + 1][2])
<1> DEFINE next(g, x) == IF x = {} THEN t
                         ELSE WriteWord(g[x \ {Max(x)}], puts[Max(x)][1], c, puts[Max(x)][2])
           iter[x \in SUBSET (1..n)] ==
               IF x = {} THEN t
               ELSE LET y == Max(x)
                    IN  WriteWord(iter[x \ {y}], puts[y][1], c, puts[y][2])
           T == {k \in 0..n : \E g : g = [x \in SUBSET (1..k) |-> next(g, x)]}
<1>1. WriteAll(t, c, puts) = iter[1..n]
  BY DEF WriteAll, FoldLeft, MapThenFoldSet
<1>2. iter = CHOOSE g : g = [x \in SUBSET (1..n) |-> next(g, x)]
  OBVIOUS
<1> HIDE DEF iter
<1>3. 0 \in T
  <2> DEFINE g == [x \in SUBSET (1..0) |-> t]
  <2>1. \A x \in SUBSET (1..0) : x = {}
    OBVIOUS
  <2>2. g = [x \in SUBSET (1..0) |-> next(g, x)]
    <3>1. \A x \in SUBSET (1..0) : next(g, x) = t
      BY <2>1
    <3> HIDE DEF next
    <3>2. QED BY <3>1
  <2> HIDE DEF g, next
  <2>3. QED BY <2>2
<1>4. ASSUME NEW k \in 0..n - 1, k \in T PROVE k + 1 \in T
  <2>1. PICK g : g = [x \in SUBSET (1..k) |-> next(g, x)]
    BY <1>4
  <2> DEFINE h == [x \in SUBSET (1..k + 1) |->
                     IF k + 1 \in x THEN WriteWord(g[x \ {Max(x)}], puts[Max(x)][1], c, puts[Max(x)][2])
                     ELSE g[x]]
  <2>2. \A x \in SUBSET (1..k) : x \in SUBSET (1..k + 1) /\ k + 1 \notin x
    OBVIOUS
  <2>3. \A x \in SUBSET (1..k) : h[x] = g[x]
    BY <2>2
  <2>4. ASSUME NEW x \in SUBSET (1..k + 1) PROVE h[x] = next(h, x)
    <3> HIDE DEF h, next
    <3>0. k \in Nat /\ \A y \in 1..k + 1 : y # k + 1 => y \in 1..k
      OBVIOUS
    <3> USE DEF h, next
    <3>1. CASE k + 1 \in x
      <4>1. x \ {Max(x)} \in SUBSET (1..k)
        BY <3>0, <3>1, MaxOfPrefix
      <4>2. h[x] = WriteWord(g[x \ {Max(x)}], puts[Max(x)][1], c, puts[Max(x)][2])
        BY <3>1
      <4> HIDE DEF h
      <4>3. QED BY <2>3, <3>1, <4>1, <4>2
    <3>2. CASE k + 1 \notin x
      <4>1. x \in SUBSET (1..k) /\ x \ {Max(x)} \in SUBSET (1..k)
        <5>1. x \in SUBSET (1..k)
          BY <3>0, <3>2
        <5>2. QED BY <5>1
      <4>2. h[x] = next(g, x)
        <5>1. g[x] = next(g, x)
          <6> HIDE DEF next
          <6>1. QED BY <2>1, <4>1
        <5>2. QED BY <2>3, <4>1, <5>1
      <4>3. h[x \ {Max(x)}] = g[x \ {Max(x)}]
        BY <2>3, <4>1
      <4> HIDE DEF h
      <4>4. QED BY <4>2, <4>3
    <3>3. QED BY <3>1, <3>2
  <2>5. h = [x \in SUBSET (1..k + 1) |-> next(h, x)]
    <3>1. h = [x \in SUBSET (1..k + 1) |-> h[x]]
      OBVIOUS
    <3> HIDE DEF h, next
    <3>2. QED BY <2>4, <3>1
  <2> HIDE DEF h, next
  <2>6. QED BY <2>5
<1>5. n \in T
  <2> HIDE DEF T
  <2>1. QED BY <1>3, <1>4, Induction
<1>6. iter = [x \in SUBSET (1..n) |-> next(iter, x)]
  <2> HIDE DEF next
  <2>1. QED BY <1>2, <1>5
<1>6a. \A x \in SUBSET (1..n) : iter[x] = next(iter, x)
  <2> HIDE DEF next
  <2>1. QED BY <1>6, Zenon
<1> DEFINE a == [k \in 0..n |-> iter[1..k]]
<1>7. a[n] = iter[1..n]
  OBVIOUS
<1>8. a[0] = t
  <2>1. 1..0 = {} /\ {} \in SUBSET (1..n) /\ a[0] = iter[{}]
    <3>1. 1..0 = {}
      OBVIOUS
    <3>2. QED BY <3>1
  <2>2. iter[{}] = next(iter, {})
    <3> HIDE DEF next, a
    <3>1. QED BY <1>6a, <2>1
  <2>3. QED BY <2>1, <2>2
<1>9. ASSUME NEW k \in 0..n - 1
      PROVE  a[k + 1] = WriteWord(a[k], puts[k + 1][1], c, puts[k + 1][2])
  <2>1. a[k + 1] = iter[1..k + 1] /\ a[k] = iter[1..k]
    OBVIOUS
  <2> HIDE DEF a
  <2>2. iter[1..k + 1] = next(iter, 1..k + 1)
    <3> HIDE DEF next
    <3>1. QED BY <1>6a, Prefix
  <2>3. QED BY <2>1, <2>2, Prefix
<1> HIDE DEF a, iter
<1>10. QED BY <1>1, <1>7, <1>8, <1>9

(* The same for reads, which collect the words read.                       *)
ReadOne(g, a, c) == [m |-> ReadWord(g.m, a, c).m,
                     v |-> Append(g.v, ReadWord(g.m, a, c).v)]
NoneRead(t) == [m |-> t, v |-> <<>>]
LEMMA ReadSteps ==
    ASSUME NEW t, NEW c, NEW n \in Nat, NEW addrs, DOMAIN addrs = 1..n
    PROVE  \E a : /\ ReadAll(t, addrs, c) = a[n] /\ a[0] = NoneRead(t)
                  /\ \A k \in 0..n - 1 :
                        a[k + 1] = ReadOne(a[k], addrs[k + 1], c)
<1> DEFINE next(g, x) == IF x = {} THEN NoneRead(t)
                         ELSE ReadOne(g[x \ {Max(x)}], addrs[Max(x)], c)
           iter[x \in SUBSET (1..n)] ==
               IF x = {} THEN NoneRead(t)
               ELSE LET y == Max(x)
                    IN  ReadOne(iter[x \ {y}], addrs[y], c)
           T == {k \in 0..n : \E g : g = [x \in SUBSET (1..k) |-> next(g, x)]}
<1>1. ReadAll(t, addrs, c) = iter[1..n]
  BY DEF ReadAll, FoldLeft, MapThenFoldSet, ReadOne, NoneRead, Then
<1>2. iter = CHOOSE g : g = [x \in SUBSET (1..n) |-> next(g, x)]
  OBVIOUS
<1> HIDE DEF iter
<1>3. 0 \in T
  <2> DEFINE g == [x \in SUBSET (1..0) |-> NoneRead(t)]
  <2>1. \A x \in SUBSET (1..0) : x = {}
    OBVIOUS
  <2>2. g = [x \in SUBSET (1..0) |-> next(g, x)]
    <3>1. \A x \in SUBSET (1..0) : next(g, x) = NoneRead(t)
      BY <2>1
    <3> HIDE DEF next
    <3>2. QED BY <3>1
  <2> HIDE DEF g, next
  <2>3. QED BY <2>2
<1>4. ASSUME NEW k \in 0..n - 1, k \in T PROVE k + 1 \in T
  <2>1. PICK g : g = [x \in SUBSET (1..k) |-> next(g, x)]
    BY <1>4
  <2> DEFINE h == [x \in SUBSET (1..k + 1) |->
                     IF k + 1 \in x THEN ReadOne(g[x \ {Max(x)}], addrs[Max(x)], c)
                     ELSE g[x]]
  <2>2. \A x \in SUBSET (1..k) : x \in SUBSET (1..k + 1) /\ k + 1 \notin x
    OBVIOUS
  <2>3. \A x \in SUBSET (1..k) : h[x] = g[x]
    BY <2>2
  <2>4. ASSUME NEW x \in SUBSET (1..k + 1) PROVE h[x] = next(h, x)
    <3> HIDE DEF h, next
    <3>0. k \in Nat /\ \A y \in 1..k + 1 : y # k + 1 => y \in 1..k
      OBVIOUS
    <3> USE DEF h, next
    <3>1. CASE k + 1 \in x
      <4>1. x \ {Max(x)} \in SUBSET (1..k)
        BY <3>0, <3>1, MaxOfPrefix
      <4>2. h[x] = ReadOne(g[x \ {Max(x)}], addrs[Max(x)], c)
        BY <3>1
      <4> HIDE DEF h
      <4>3. QED BY <2>3, <3>1, <4>1, <4>2
    <3>2. CASE k + 1 \notin x
      <4>1. x \in SUBSET (1..k) /\ x \ {Max(x)} \in SUBSET (1..k)
        <5>1. x \in SUBSET (1..k)
          BY <3>0, <3>2
        <5>2. QED BY <5>1
      <4>2. h[x] = next(g, x)
        <5>1. g[x] = next(g, x)
          <6> HIDE DEF next
          <6>1. QED BY <2>1, <4>1
        <5>2. QED BY <2>3, <4>1, <5>1
      <4>3. h[x \ {Max(x)}] = g[x \ {Max(x)}]
        BY <2>3, <4>1
      <4> HIDE DEF h
      <4>4. QED BY <4>2, <4>3
    <3>3. QED BY <3>1, <3>2
  <2>5. h = [x \in SUBSET (1..k + 1) |-> next(h, x)]
    <3>1. h = [x \in SUBSET (1..k + 1) |-> h[x]]
      OBVIOUS
    <3> HIDE DEF h, next
    <3>2. QED BY <2>4, <3>1
  <2> HIDE DEF h, next
  <2>6. QED BY <2>5
<1>5. n \in T
  <2> HIDE DEF T
  <2>1. QED BY <1>3, <1>4, Induction
<1>6. iter = [x \in SUBSET (1..n) |-> next(iter, x)]
  <2> HIDE DEF next
  <2>1. QED BY <1>2, <1>5
<1>6a. \A x \in SUBSET (1..n) : iter[x] = next(iter, x)
  <2> HIDE DEF next
  <2>1. QED BY <1>6, Zenon
<1> DEFINE a == [k \in 0..n |-> iter[1..k]]
<1>7. a[n] = iter[1..n]
  OBVIOUS
<1>8. a[0] = NoneRead(t)
  <2>1. 1..0 = {} /\ {} \in SUBSET (1..n) /\ a[0] = iter[{}]
    <3>1. 1..0 = {}
      OBVIOUS
    <3>2. QED BY <3>1
  <2>2. iter[{}] = next(iter, {})
    <3> HIDE DEF next, a
    <3>1. QED BY <1>6a, <2>1
  <2>3. QED BY <2>1, <2>2
<1>9. ASSUME NEW k \in 0..n - 1
      PROVE  a[k + 1] = ReadOne(a[k], addrs[k + 1], c)
  <2>1. a[k + 1] = iter[1..k + 1] /\ a[k] = iter[1..k]
    OBVIOUS
  <2> HIDE DEF a
  <2>2. iter[1..k + 1] = next(iter, 1..k + 1)
    <3> HIDE DEF next
    <3>1. QED BY <1>6a, Prefix
  <2>3. QED BY <2>1, <2>2, Prefix
<1> HIDE DEF a, iter
<1>10. QED BY <1>1, <1>7, <1>8, <1>9

(* And for copies within the stack.                                        *)
Copy(g, c) == COPY_STACK_ITEM(g, OPTOP_OFFSET(g, c[1]), "O", OPTOP_OFFSET(g, c[2]), "O")
LEMMA CopySteps ==
    ASSUME NEW t, NEW n \in Nat, NEW moves, DOMAIN moves = 1..n
    PROVE  \E a : /\ CopyWithin(t, moves) = a[n] /\ a[0] = t
                  /\ \A k \in 0..n - 1 :
                        a[k + 1] = Copy(a[k], moves[k + 1])
<1> DEFINE next(g, x) == IF x = {} THEN t
                         ELSE Copy(g[x \ {Max(x)}], moves[Max(x)])
           iter[x \in SUBSET (1..n)] ==
               IF x = {} THEN t
               ELSE LET y == Max(x)
                    IN  Copy(iter[x \ {y}], moves[y])
           T == {k \in 0..n : \E g : g = [x \in SUBSET (1..k) |-> next(g, x)]}
<1>1. CopyWithin(t, moves) = iter[1..n]
  BY DEF CopyWithin, FoldLeft, MapThenFoldSet, Copy
<1>2. iter = CHOOSE g : g = [x \in SUBSET (1..n) |-> next(g, x)]
  OBVIOUS
<1> HIDE DEF iter
<1>3. 0 \in T
  <2> DEFINE g == [x \in SUBSET (1..0) |-> t]
  <2>1. \A x \in SUBSET (1..0) : x = {}
    OBVIOUS
  <2>2. g = [x \in SUBSET (1..0) |-> next(g, x)]
    <3>1. \A x \in SUBSET (1..0) : next(g, x) = t
      BY <2>1
    <3> HIDE DEF next
    <3>2. QED BY <3>1
  <2> HIDE DEF g, next
  <2>3. QED BY <2>2
<1>4. ASSUME NEW k \in 0..n - 1, k \in T PROVE k + 1 \in T
  <2>1. PICK g : g = [x \in SUBSET (1..k) |-> next(g, x)]
    BY <1>4
  <2> DEFINE h == [x \in SUBSET (1..k + 1) |->
                     IF k + 1 \in x THEN Copy(g[x \ {Max(x)}], moves[Max(x)])
                     ELSE g[x]]
  <2>2. \A x \in SUBSET (1..k) : x \in SUBSET (1..k + 1) /\ k + 1 \notin x
    OBVIOUS
  <2>3. \A x \in SUBSET (1..k) : h[x] = g[x]
    BY <2>2
  <2>4. ASSUME NEW x \in SUBSET (1..k + 1) PROVE h[x] = next(h, x)
    <3> HIDE DEF h, next
    <3>0. k \in Nat /\ \A y \in 1..k + 1 : y # k + 1 => y \in 1..k
      OBVIOUS
    <3> USE DEF h, next
    <3>1. CASE k + 1 \in x
      <4>1. x \ {Max(x)} \in SUBSET (1..k)
        BY <3>0, <3>1, MaxOfPrefix
      <4>2. h[x] = Copy(g[x \ {Max(x)}], moves[Max(x)])
        BY <3>1
      <4> HIDE DEF h
      <4>3. QED BY <2>3, <3>1, <4>1, <4>2
    <3>2. CASE k + 1 \notin x
      <4>1. x \in SUBSET (1..k) /\ x \ {Max(x)} \in SUBSET (1..k)
        <5>1. x \in SUBSET (1..k)
          BY <3>0, <3>2
        <5>2. QED BY <5>1
      <4>2. h[x] = next(g, x)
        <5>1. g[x] = next(g, x)
          <6> HIDE DEF next
          <6>1. QED BY <2>1, <4>1
        <5>2. QED BY <2>3, <4>1, <5>1
      <4>3. h[x \ {Max(x)}] = g[x \ {Max(x)}]
        BY <2>3, <4>1
      <4> HIDE DEF h
      <4>4. QED BY <4>2, <4>3
    <3>3. QED BY <3>1, <3>2
  <2>5. h = [x \in SUBSET (1..k + 1) |-> next(h, x)]
    <3>1. h = [x \in SUBSET (1..k + 1) |-> h[x]]
      OBVIOUS
    <3> HIDE DEF h, next
    <3>2. QED BY <2>4, <3>1
  <2> HIDE DEF h, next
  <2>6. QED BY <2>5
<1>5. n \in T
  <2> HIDE DEF T
  <2>1. QED BY <1>3, <1>4, Induction
<1>6. iter = [x \in SUBSET (1..n) |-> next(iter, x)]
  <2> HIDE DEF next
  <2>1. QED BY <1>2, <1>5
<1>6a. \A x \in SUBSET (1..n) : iter[x] = next(iter, x)
  <2> HIDE DEF next
  <2>1. QED BY <1>6, Zenon
<1> DEFINE a == [k \in 0..n |-> iter[1..k]]
<1>7. a[n] = iter[1..n]
  OBVIOUS
<1>8. a[0] = t
  <2>1. 1..0 = {} /\ {} \in SUBSET (1..n) /\ a[0] = iter[{}]
    <3>1. 1..0 = {}
      OBVIOUS
    <3>2. QED BY <3>1
  <2>2. iter[{}] = next(iter, {})
    <3> HIDE DEF next, a
    <3>1. QED BY <1>6a, <2>1
  <2>3. QED BY <2>1, <2>2
<1>9. ASSUME NEW k \in 0..n - 1
      PROVE  a[k + 1] = Copy(a[k], moves[k + 1])
  <2>1. a[k + 1] = iter[1..k + 1] /\ a[k] = iter[1..k]
    OBVIOUS
  <2> HIDE DEF a
  <2>2. iter[1..k + 1] = next(iter, 1..k + 1)
    <3> HIDE DEF next
    <3>1. QED BY <1>6a, Prefix
  <2>3. QED BY <2>1, <2>2, Prefix
<1> HIDE DEF a, iter
<1>10. QED BY <1>1, <1>7, <1>8, <1>9

(* What reads and writes leave alone.                                      *)
Stays(t, u) ==
    /\ \A x \in Fields \ {"exc", "mem", "sc"} : u[x] = t[x]
    /\ t.exc.id # Exc.OPLIM => u.exc.id # Exc.OPLIM

PutsOK(puts, n) == \A k \in 1..n : puts[k][1] \in Int /\ puts[k][2] \in Words
LEMMA WriteAllGood ==
    ASSUME NEW s, NEW t, Good(s, t), NEW c, NEW n \in Nat, NEW puts, DOMAIN puts = 1..n,
           PutsOK(puts, n)
    PROVE  Good(s, WriteAll(t, c, puts)) /\ Stays(t, WriteAll(t, c, puts))
<1>1. PICK a : /\ WriteAll(t, c, puts) = a[n] /\ a[0] = t
               /\ \A k \in 0..n - 1 :
                     a[k + 1] = WriteWord(a[k], puts[k + 1][1], c, puts[k + 1][2])
  BY WriteSteps
<1> DEFINE T == {k \in 0..n : Good(s, a[k]) /\ Stays(t, a[k])}
<1>2. 0 \in T
  BY <1>1 DEF Stays
<1>3. ASSUME NEW k \in 0..n - 1, k \in T PROVE k + 1 \in T
  <2>1. k + 1 \in 1..n /\ k + 1 \in 0..n
    OBVIOUS
  <2>2. PICK x, y : x = puts[k + 1][1] /\ y = puts[k + 1][2] /\ x \in Int /\ y \in Words
    BY <2>1 DEF PutsOK
  <2>3. Good(s, WriteWord(a[k], x, c, y)) /\ Stays(a[k], WriteWord(a[k], x, c, y))
    BY <1>3, <2>2, WriteWordGood DEF Stays
  <2>4. a[k + 1] = WriteWord(a[k], x, c, y)
    BY <1>1, <2>2
  <2>5. QED BY <1>3, <2>1, <2>3, <2>4 DEF Stays
<1> HIDE DEF T
<1>4. n \in T
  BY <1>2, <1>3, Induction
<1>5. QED BY <1>1, <1>4 DEF T

LEMMA ReadAllGood ==
    ASSUME NEW s, NEW t, Good(s, t), NEW c, NEW n \in Nat, NEW addrs, DOMAIN addrs = 1..n
    PROVE  /\ Good(s, ReadAll(t, addrs, c).m) /\ Stays(t, ReadAll(t, addrs, c).m)
           /\ ReadAll(t, addrs, c).v \in Seq(Words) /\ Len(ReadAll(t, addrs, c).v) = n
           /\ \A k \in 1..n : ReadAll(t, addrs, c).v[k] \in Words
<1>1. PICK a : /\ ReadAll(t, addrs, c) = a[n] /\ a[0] = NoneRead(t)
               /\ \A k \in 0..n - 1 : a[k + 1] = ReadOne(a[k], addrs[k + 1], c)
  BY ReadSteps
<1> DEFINE T == {k \in 0..n : /\ Good(s, a[k].m) /\ Stays(t, a[k].m)
                              /\ a[k].v \in Seq(Words) /\ Len(a[k].v) = k}
<1>2. 0 \in T
  <2>1. a[0].m = t /\ a[0].v = <<>>
    BY <1>1 DEF NoneRead
  <2>2. Good(s, a[0].m) /\ Stays(t, a[0].m)
    BY <2>1 DEF Stays
  <2>3. <<>> \in Seq(Words) /\ Len(<<>>) = 0 /\ 0 \in 0..n
    OBVIOUS
  <2>4. QED BY <2>1, <2>2, <2>3
<1>3. ASSUME NEW k \in 0..n - 1, k \in T PROVE k + 1 \in T
  <2>1. k + 1 \in 0..n
    OBVIOUS
  <2>2. PICK r : r = ReadWord(a[k].m, addrs[k + 1], c)
    OBVIOUS
  <2>3. Good(s, r.m) /\ Stays(a[k].m, r.m) /\ r.v \in Words
    BY <1>3, <2>2, ReadGood DEF Stays
  <2>4. a[k + 1] = [m |-> r.m, v |-> Append(a[k].v, r.v)]
    BY <1>1, <2>2 DEF ReadOne
  <2>5. Append(a[k].v, r.v) \in Seq(Words) /\ Len(Append(a[k].v, r.v)) = k + 1
    BY <1>3, <2>3
  <2>6. Stays(t, r.m)
    BY <1>3, <2>3 DEF Stays
  <2>7. a[k + 1].m = r.m /\ a[k + 1].v = Append(a[k].v, r.v)
    BY <2>4
  <2>8. QED BY <2>1, <2>3, <2>5, <2>6, <2>7
<1> HIDE DEF T
<1>4. n \in T
  BY <1>2, <1>3, Induction
<1>5. QED BY <1>1, <1>4 DEF T

LEMMA TopGood ==
    ASSUME NEW s, NEW t, Good(s, t), NEW n \in Nat
    PROVE  /\ Good(s, Top(t, n).m) /\ Stays(t, Top(t, n).m)
           /\ Top(t, n).v \in Seq(Words) /\ Len(Top(t, n).v) = n
           /\ \A k \in 1..n : Top(t, n).v[k] \in Words
<1> DEFINE addrs == [i \in 1..n |-> OPTOP_OFFSET(t, i)]
<1>1. Top(t, n) = ReadAll(t, addrs, "O") /\ DOMAIN addrs = 1..n
  BY DEF Top
<1> HIDE DEF addrs
<1>2. PICK r : r = ReadAll(t, addrs, "O")
  OBVIOUS
<1>3. /\ Good(s, r.m) /\ Stays(t, r.m) /\ r.v \in Seq(Words) /\ Len(r.v) = n
      /\ \A k \in 1..n : r.v[k] \in Words
  BY <1>1, <1>2, ReadAllGood
<1>4. QED BY <1>1, <1>2, <1>3

LEMMA OnTopGood ==
    ASSUME NEW s, NEW t, Good(s, t), NEW c, NEW puts, puts \in Seq(Int \X Words)
    PROVE  /\ Good(s, WriteAll(t, c, OnTop(t, puts)))
           /\ Stays(t, WriteAll(t, c, OnTop(t, puts)))
<1> DEFINE on == OnTop(t, puts)
<1>1. PICK n \in Nat : n = Len(puts) /\ \A k \in 1..n : puts[k][1] \in Int /\ puts[k][2] \in Words
  <2>1. \A k \in 1..Len(puts) : puts[k] \in Int \X Words
    OBVIOUS
  <2>2. QED BY <2>1
<1>2. DOMAIN on = 1..n /\ \A k \in 1..n : on[k] = <<OPTOP_OFFSET(t, puts[k][1]), puts[k][2]>>
  BY <1>1 DEF OnTop
<1> HIDE DEF on
<1>3. PutsOK(on, n)
  <2>1. ASSUME NEW k \in 1..n PROVE on[k][1] \in Int /\ on[k][2] \in Words
    <3>1. PICK x, y : x = puts[k][1] /\ y = puts[k][2] /\ x \in Int /\ y \in Words
      BY <1>1
    <3>2. on[k] = <<OPTOP_OFFSET(t, x), y>>
      BY <1>2, <3>1
    <3>3. OPTOP_OFFSET(t, x) \in Int
      BY <3>1, RegistersTyped
    <3>4. QED BY <3>1, <3>2, <3>3
  <2>2. QED BY <2>1 DEF PutsOK
<1>4. Good(s, WriteAll(t, c, on)) /\ Stays(t, WriteAll(t, c, on))
  BY <1>2, <1>3, WriteAllGood, Zenon
<1>5. QED BY <1>4 DEF on

LEMMA PutStackGood ==
    ASSUME NEW s, NEW t, Good(s, t), NEW puts, puts \in Seq(Int \X Words)
    PROVE  Good(s, PutStack(t, puts)) /\ Stays(t, PutStack(t, puts))
  BY OnTopGood DEF PutStack

LEMMA CopyGood ==
    ASSUME NEW s, NEW t, Good(s, t), NEW to \in Int, NEW tt, NEW from, NEW ft
    PROVE  /\ Good(s, COPY_STACK_ITEM(t, to, tt, from, ft))
           /\ Stays(t, COPY_STACK_ITEM(t, to, tt, from, ft))
<1>1. PICK r : r = ReadWord(t, from, ft)
  OBVIOUS
<1>2. Good(s, r.m) /\ Stays(t, r.m) /\ r.v \in Words
  BY <1>1, ReadGood DEF Stays
<1>3. COPY_STACK_ITEM(t, to, tt, from, ft) = WriteWord(r.m, to, tt, r.v)
  BY <1>1 DEF COPY_STACK_ITEM, Then
<1>4. QED BY <1>2, <1>3, WriteWordGood DEF Stays

MovesOK(moves, n) == \A k \in 1..n : moves[k][1] \in Int /\ moves[k][2] \in Int
LEMMA CopyWithinGood ==
    ASSUME NEW s, NEW t, Good(s, t), NEW n \in Nat, NEW moves,
           DOMAIN moves = 1..n, MovesOK(moves, n)
    PROVE  Good(s, CopyWithin(t, moves)) /\ Stays(t, CopyWithin(t, moves))
<1>1. PICK a : /\ CopyWithin(t, moves) = a[n] /\ a[0] = t
               /\ \A k \in 0..n - 1 : a[k + 1] = Copy(a[k], moves[k + 1])
  BY CopySteps
<1> DEFINE T == {k \in 0..n : Good(s, a[k]) /\ Stays(t, a[k])}
<1>2. 0 \in T
  BY <1>1 DEF Stays
<1>3. ASSUME NEW k \in 0..n - 1, k \in T PROVE k + 1 \in T
  <2>1. k + 1 \in 1..n /\ k + 1 \in 0..n
    OBVIOUS
  <2>2. PICK x, y : x = OPTOP_OFFSET(a[k], moves[k + 1][1]) /\ y = OPTOP_OFFSET(a[k], moves[k + 1][2])
    OBVIOUS
  <2>3. x \in Int
    BY <1>3, <2>1, <2>2, RegistersTyped DEF MovesOK
  <2>4. a[k + 1] = COPY_STACK_ITEM(a[k], x, "O", y, "O")
    BY <1>1, <2>2 DEF Copy
  <2>5. Good(s, a[k + 1]) /\ Stays(a[k], a[k + 1])
    BY <1>3, <2>3, <2>4, CopyGood
  <2>6. QED BY <1>3, <2>1, <2>5 DEF Stays
<1> HIDE DEF T
<1>4. n \in T
  BY <1>2, <1>3, Induction
<1>5. QED BY <1>1, <1>4 DEF T

-----------------------------------------------------------------------------
(***************************************************************************)
(* Traps.                                                                  *)
(***************************************************************************)
LEMMA TrapPsrTyped ==
    ASSUME NEW p \in Words
    PROVE  TrapPsr(p) \in Words /\ Bit(TrapPsr(p), PSR.SU)
<1>1. PSR.SU = 5 /\ PSR.IE = 4
  BY DEF PSR
<1>2. p \in Int /\ 0 <= p /\ p < 65536
  BY Constants, SMT
<1>3. PICK q \in Int : /\ q = SetBit(p, 5) /\ 0 <= q /\ q < 65536
                       /\ (q \div 32) % 2 = 1
  <2>1. 2^5 = 32 /\ SetBit(p, 5) = IF (p \div 2^5) % 2 = 1 THEN p ELSE p + 2^5
    BY DEF SetBit, Bit
  <2>2. CASE (p \div 32) % 2 = 1
    BY <1>2, <2>1, <2>2, SMT
  <2>3. CASE (p \div 32) % 2 # 1
    <3>1. p + 32 < 65536 /\ ((p + 32) \div 32) % 2 = 1
      BY <1>2, <2>3, SMT
    <3>2. QED BY <1>2, <2>1, <2>3, <3>1, SMT
  <2>4. QED BY <2>2, <2>3
<1>4. PICK r \in Int : /\ r = ResetBit(q, 4) /\ 0 <= r /\ r < 65536
                       /\ (r \div 32) % 2 = 1
  <2>1. 2^4 = 16 /\ ResetBit(q, 4) = IF (q \div 2^4) % 2 = 1 THEN q - 2^4 ELSE q
    BY DEF ResetBit, Bit
  <2>2. CASE (q \div 16) % 2 # 1
    BY <1>3, <2>1, <2>2, SMT
  <2>3. CASE (q \div 16) % 2 = 1
    <3>1. q - 16 >= 0 /\ ((q - 16) \div 32) % 2 = 1
      BY <1>3, <2>3, SMT
    <3>2. QED BY <1>3, <2>1, <2>3, <3>1, SMT
  <2>4. QED BY <2>2, <2>3
<1>5. TrapPsr(p) = r
  BY <1>1, <1>3, <1>4 DEF TrapPsr
<1>6. r \in Words
  BY <1>4, Constants, SMT
<1>7. Bit(r, 5)
  BY <1>4, SMT DEF Bit
<1>8. QED BY <1>1, <1>5, <1>6, <1>7

LEMMA TrapBase ==
    ASSUME NEW b \in Words, NEW tt \in 0..255
    PROVE  /\ b - (b % 2^11) + tt * 8 \in Words
           /\ (b - (b % 2^11) + tt * 8) \div 2^11 = b \div 2^11
<1>1. b \in Int /\ 0 <= b /\ b < 65536
  BY Constants, SMT
<1>2. PICK q \in Int, x \in Int : b = 2048 * q + x /\ 0 <= x /\ x < 2048 /\ x = b % 2048 /\ q = b \div 2048
  BY <1>1, SMT
<1>3. 0 <= q /\ q < 32
  BY <1>1, <1>2, SMT
<1>4. 2^11 = 2048 /\ b - (b % 2^11) + tt * 8 = 2048 * q + tt * 8
  BY <1>2, SMT
<1>5. 0 <= 2048 * q + tt * 8 /\ 2048 * q + tt * 8 < 65536
  BY <1>3, SMT
<1>6. (2048 * q + tt * 8) \div 2048 = q
  BY <1>3, SMT
<1>7. QED BY <1>2, <1>4, <1>5, <1>6, Constants, SMT

LEMMA EnterHandlerDone ==
    ASSUME NEW s, NEW t, Good(s, t), NEW pc \in Words
    PROVE  Done(s, EnterHandler(t, pc))
<1> DEFINE f == Word(t.optop + 3 * JAVAWORDSIZE)
           p == TrapPsr(t.psr)
           u == EnterHandler(t, pc)
<1>1. MachineOK(t) /\ t.optop \in Words /\ t.psr \in Words
  BY RegistersTyped DEF WordRegisters
<1>2. f \in Words /\ p \in Words
  <2>1. t.optop + 3 * JAVAWORDSIZE \in Int
    BY <1>1, Constants DEF JAVAWORDSIZE
  <2>2. QED BY <1>1, <2>1, WordTyped, TrapPsrTyped
<1>3. u = [t EXCEPT !.pc = pc, !.frame = f, !.psr = p]
  BY DEF EnterHandler, TrapPsr
<1> HIDE DEF u, f
<1>4. /\ u = [x \in Fields |-> u[x]]
      /\ u.pc = pc /\ u.frame = f /\ u.psr = p
      /\ \A x \in Fields \ {"pc", "frame", "psr"} : u[x] = t[x]
  <2> HIDE DEF p
  <2>1. QED BY <1>1, <1>3 DEF MachineOK, Fields, WordRegisters, OtherFields
<1> HIDE DEF p
<1>5. MachineOK(u)
  BY <1>1, <1>2, <1>4 DEF MachineOK, Fields, WordRegisters, OtherFields
<1>6. \A x \in Privileged \cup {"optop", "oplim", "trapbase", "exc"} : u[x] = t[x]
  BY <1>4 DEF Fields, WordRegisters, OtherFields, Privileged
<1>7. AboveLimit(u) /\ LimitOff(u)
  BY <1>6 DEF Good, Sound, LimitOff, AboveLimit, LimitEnabled, Limit
<1>8. UserMode(s) => Kept(s, u) /\ u.psr = TrapPsr(s.psr)
  BY <1>4, <1>6 DEF p, Good, Steady, Kept
<1>9. QED BY <1>5, <1>7, <1>8 DEF Done, Sound, u

LEMMA PushGood ==
    ASSUME NEW s, NEW t, Steady(s, t), LimitOff(t), Fits(t, Word(t.optop - 16))
    PROVE  Good(s, PushTrapFrame(t, TrapFrame(t)))
<1> DEFINE n == [t EXCEPT !.optop = Word(t.optop - 16)]
           f == TrapFrame(t)
<1>1. t.optop \in Words /\ t.psr \in Words /\ t.pc \in Words /\ t.vars \in Words /\ t.frame \in Words
  BY DEF Steady, MachineOK, WordRegisters
<1>2. Word(t.optop - 16) \in Words
  <2>1. t.optop - 16 \in Int
    BY <1>1, Constants
  <2>2. QED BY <2>1, WordTyped
<1>3. Good(s, n)
  BY <1>2, SetOptop
<1>4. f \in Seq(Int \X Words)
  BY <1>1 DEF TrapFrame
<1>5. PushTrapFrame(t, f) = WriteAll(n, "T", OnTop(n, f))
  <2>1. 4 * JAVAWORDSIZE = 16
    BY DEF JAVAWORDSIZE
  <2>2. QED BY <2>1 DEF PushTrapFrame, Then
<1> HIDE DEF n, f
<1>6. QED BY <1>3, <1>4, <1>5, OnTopGood DEF f

LEMMA TrapDone ==
    ASSUME NEW s, NEW t, Steady(s, t), LimitOff(t), NEW tt \in 0..255,
           tt # TT.oplim_trap \/ ~LimitEnabled(t)
    PROVE  Done(s, invoke_trap(t, tt))
<1> DEFINE over == tt # TT.oplim_trap /\ ~TrapFrameFits(t)
           ttt == IF over THEN TT.oplim_trap ELSE tt
           tb == t.trapbase - (t.trapbase % 2^11) + ttt * 8
           lim == IF over THEN ResetBit(t.oplim, 15) ELSE t.oplim
           n == [t EXCEPT !.oplim = lim, !.trapbase = tb]
           r == ReadWord(n, tb, "X")
           w == PushTrapFrame(r.m, TrapFrame(r.m))
<1>1. /\ MachineOK(t) /\ t.optop \in Words /\ t.trapbase \in Words /\ t.oplim \in Words
      /\ TT.oplim_trap = 12
  BY DEF Steady, MachineOK, WordRegisters, TT
<1>2. invoke_trap(t, tt) = TakeTrap(r)
  BY DEF invoke_trap
<1>3. tb \in Words /\ tb \div 2^11 = t.trapbase \div 2^11
  <2>1. ttt \in 0..255
    BY <1>1
  <2> HIDE DEF ttt
  <2>2. QED BY <1>1, <2>1, TrapBase
<1> HIDE DEF tb
<1>4. lim \in Words /\ (over => lim < TopBit) /\ (~over => lim = t.oplim)
  BY <1>1, LimitTyped
<1>5. ~over => Fits(t, Word(t.optop - 16))
  <2>1. ASSUME TrapFrameFits(t), LimitEnabled(t) PROVE Limit(t) <= Word(t.optop - 16)
    <3>1. t.oplim % TopBit \in Words /\ Align(t.oplim % TopBit) <= t.oplim % TopBit
      BY <1>1, WordTyped
    <3>2. Word(t.optop - 16) \in Int
      <4>1. t.optop - 16 \in Int
        BY <1>1, Constants
      <4>2. QED BY <4>1, WordTyped, Constants
    <3>3. t.oplim % TopBit \in Int /\ Align(t.oplim % TopBit) \in Int
      BY <3>1, WordTyped, Constants
    <3>4. ~(Word(t.optop - 16) < t.oplim % TopBit)
      BY <2>1 DEF TrapFrameFits
    <3>5. QED BY <3>1, <3>2, <3>3, <3>4 DEF Limit
  <2>2. QED BY <2>1, <1>1 DEF Fits
<1> HIDE DEF lim, over, ttt
<1>6. Steady(s, n) /\ LimitOff(n) /\ Fits(n, Word(n.optop - 16))
  <2>1. /\ n = [x \in Fields |-> n[x]] /\ n.oplim = lim /\ n.trapbase = tb
        /\ \A x \in Fields \ {"oplim", "trapbase"} : n[x] = t[x]
    BY <1>1 DEF MachineOK, Fields, WordRegisters, OtherFields
  <2> HIDE DEF n
  <2>2. MachineOK(n)
    BY <1>1, <1>3, <1>4, <2>1 DEF MachineOK, Fields, WordRegisters, OtherFields
  <2>3. \A x \in Privileged \cup {"optop", "psr", "exc"} : n[x] = t[x]
    BY <2>1 DEF Fields, WordRegisters, OtherFields, Privileged
  <2>4. UserMode(s) => Kept(s, n) /\ n.psr = s.psr
    BY <1>3, <2>1, <2>3 DEF Steady, Kept
  <2>5. lim \in Int /\ t.oplim \in Int
    BY <1>1, <1>4, Constants
  <2>6. CASE over
    <3>1. ~LimitEnabled(n)
      BY <1>4, <2>1, <2>5, <2>6, Constants, SMT DEF LimitEnabled
    <3>2. QED BY <2>2, <2>4, <3>1 DEF LimitOff, Steady, Fits
  <2>7. CASE ~over
    <3>1. (LimitEnabled(n) <=> LimitEnabled(t)) /\ Limit(n) = Limit(t)
      BY <1>4, <2>1, <2>7 DEF LimitEnabled, Limit
    <3>2. QED BY <1>5, <2>2, <2>3, <2>4, <2>7, <3>1 DEF LimitOff, Steady, Fits
  <2>8. QED BY <2>6, <2>7
<1> HIDE DEF n
<1>7. Steady(s, r.m) /\ r.v \in Words /\ Stays(n, r.m)
  BY <1>6, ReadSteady DEF Stays
<1> HIDE DEF r
<1>8. Fits(r.m, Word(r.m.optop - 16)) /\ LimitOff(r.m)
  <2>1. r.m.optop = n.optop /\ r.m.oplim = n.oplim
    BY <1>7 DEF Stays, Fields, WordRegisters, OtherFields
  <2>2. QED BY <1>6, <1>7, <2>1 DEF Fits, LimitOff, Stays, LimitEnabled, Limit
<1>9. Good(s, w)
  BY <1>7, <1>8, PushGood
<1> HIDE DEF w
<1>10. Done(s, EnterHandler(w, r.v))
  BY <1>7, <1>9, EnterHandlerDone
<1>11. QED BY <1>2, <1>10 DEF TakeTrap, w

LEMMA GoodDone ==
    ASSUME NEW s, NEW t, Good(s, t)
    PROVE  Done(s, t)
  BY DEF Good, Steady, Done

LEMMA LowTrapDone ==
    ASSUME NEW s, NEW t, Good(s, t), NEW tt \in 0..255 \ {TT.oplim_trap}
    PROVE  Done(s, LowPriorityTrap(t, tt))
  BY TrapDone, GoodDone DEF LowPriorityTrap, Good, Sound

LEMMA TrapNumber ==
    ASSUME NEW eid \in 2..12
    PROVE  ExceptionTrap[eid] \in 0..255 /\ (ExceptionTrap[eid] = TT.oplim_trap <=> eid = Exc.OPLIM)
<1>1. eid \in {2, 3, 4, 5, 6, 7, 8, 9, 10, 11, 12}
  OBVIOUS
<1>2. /\ ExceptionTrap[2] = 1 /\ ExceptionTrap[3] = 2 /\ ExceptionTrap[4] = 12
      /\ ExceptionTrap[5] = 7 /\ ExceptionTrap[6] = 8 /\ ExceptionTrap[7] = 4
      /\ ExceptionTrap[8] = 6 /\ ExceptionTrap[9] = 5 /\ ExceptionTrap[10] = 9
      /\ ExceptionTrap[11] = 3 /\ ExceptionTrap[12] = 10
  BY DEF ExceptionTrap, TT
<1>3. TT.oplim_trap = 12 /\ Exc.OPLIM = 4
  BY DEF TT, Exc
<1>4. QED BY <1>1, <1>2, <1>3

(***************************************************************************)
(* The despatch.  The saved OPTOP may lie below a limit enabled since, so  *)
(* that the restored machine is steady, but is sound only after the trap.  *)
(***************************************************************************)
LEMMA DespatchDone ==
    ASSUME NEW s, NEW t, Done(s, t)
    PROVE  Done(s, vDespatchPendingException(t))
<1>1. CASE ~bAnyExceptionPending(t)
  BY <1>1 DEF vDespatchPendingException
<1>2. CASE bAnyExceptionPending(t)
  <2> DEFINE eid == t.exc.id
             cpu == t.exc.cpu
             n == [x \in DOMAIN t |-> IF x = "exc" THEN NoException
                                      ELSE IF x \in DOMAIN cpu THEN cpu[x] ELSE t[x]]
  <2>1. MachineOK(t) /\ t.exc.id # 0
    BY <1>2 DEF Done, Sound, bAnyExceptionPending, Exc
  <2>2. t.exc \in [id : 2..12, cpu : [SavedRegisters -> Words]]
    <3>1. NoException.id = 0
      BY DEF NoException, Exc
    <3>2. t.exc # NoException
      BY <2>1, <3>1
    <3>3. QED BY <2>1, <3>2 DEF MachineOK, ExceptionOK
  <2>3. eid \in 2..12 /\ cpu \in [SavedRegisters -> Words]
    BY <2>2
  <2>4. vDespatchPendingException(t) = invoke_trap(n, ExceptionTrap[eid])
    BY <1>2 DEF vDespatchPendingException
  <2>5. t = [x \in Fields |-> t[x]]
    BY <2>1 DEF MachineOK, Fields
  <2>6. DOMAIN t = Fields
    BY <2>5
  <2> HIDE DEF eid, cpu
  <2>7. n = [x \in Fields |-> n[x]]
    BY <2>6
  <2>8. n.exc = NoException
    BY <2>6 DEF Fields, OtherFields
  <2>9. \A x \in SavedRegisters : n[x] = cpu[x]
    BY <2>3, <2>6 DEF Fields, SavedRegisters, WordRegisters
  <2>10. \A x \in Fields \ SavedRegisters : x # "exc" => n[x] = t[x]
    BY <2>3, <2>6
  <2> HIDE DEF n
  <2>11. MachineOK(n)
    <3>1. \A r \in WordRegisters : n[r] \in Words
      <4>1. ASSUME NEW r \in WordRegisters PROVE n[r] \in Words
        <5>1. CASE r \in SavedRegisters
          BY <2>3, <2>9, <5>1
        <5>2. CASE r \notin SavedRegisters
          <6>1. r \in Fields \ SavedRegisters /\ r # "exc"
            BY <5>2 DEF Fields, WordRegisters
          <6>2. QED BY <2>1, <2>10, <6>1 DEF MachineOK
        <5>3. QED BY <5>1, <5>2
      <4>2. QED BY <4>1
    <3>2. \A x \in OtherFields : x # "exc" => n[x] = t[x]
      BY <2>10 DEF Fields, OtherFields, SavedRegisters
    <3>3. QED BY <2>1, <2>7, <2>8, <3>1, <3>2 DEF MachineOK, Fields, OtherFields, ExceptionOK
  <2>12. UserMode(s) => Kept(s, n) /\ n.psr = s.psr
    <3>1. ASSUME UserMode(s)
          PROVE  /\ cpu.userrange1 = s.userrange1 /\ cpu.userrange2 = s.userrange2
                 /\ cpu.scBottom = s.scBottom /\ cpu.psr = s.psr
                 /\ cpu.trapbase \div 2^11 = s.trapbase \div 2^11
                 /\ \A r \in Privileged : t[r] = s[r]
      BY <1>2, <3>1 DEF Done, Kept, bAnyExceptionPending, cpu
    <3>2. /\ n.userrange1 = cpu.userrange1 /\ n.userrange2 = cpu.userrange2
          /\ n.scBottom = cpu.scBottom /\ n.psr = cpu.psr /\ n.trapbase = cpu.trapbase
      BY <2>9 DEF SavedRegisters
    <3>3. \A r \in {"brk1a", "brk2a", "brk12c", "gcConfig"} : n[r] = t[r]
      BY <2>10 DEF Fields, WordRegisters, SavedRegisters
    <3>4. n.exc.id = Exc.NO
      BY <2>8 DEF NoException
    <3>5. QED BY <3>1, <3>2, <3>3, <3>4 DEF Kept, Privileged
  <2>13. LimitOff(n)
    BY <2>8 DEF LimitOff, NoException, Exc
  <2>14. ExceptionTrap[eid] # TT.oplim_trap \/ ~LimitEnabled(n)
    <3>1. n.oplim = t.oplim
      BY <2>10 DEF Fields, WordRegisters, SavedRegisters
    <3>2. eid = Exc.OPLIM => ~LimitEnabled(n)
      BY <3>1 DEF Done, Sound, LimitOff, LimitEnabled, eid
    <3>3. QED BY <2>3, <3>2, TrapNumber
  <2>15. QED BY <2>3, <2>4, <2>11, <2>12, <2>13, <2>14, TrapNumber, TrapDone DEF Steady
<1>3. QED BY <1>1, <1>2

-----------------------------------------------------------------------------
(***************************************************************************)
(* The results of the operations are words.                                *)
(***************************************************************************)
Gives(v, n) == \A k \in 1..n : v[k] \in Words

LEMMA GivesOne ==
    ASSUME NEW w \in Words
    PROVE  Gives(<<w>>, 1)
  BY DEF Gives

LEMMA GivesTwo ==
    ASSUME NEW w \in Words, NEW x \in Words
    PROVE  Gives(<<w, x>>, 2)
<1>1. ASSUME NEW k \in 1..2 PROVE <<w, x>>[k] \in Words
  <2>1. k = 1 \/ k = 2
    OBVIOUS
  <2>2. QED BY <2>1
<1>2. QED BY <1>1 DEF Gives

LEMMA Small ==
    /\ 0 \in Words /\ 1 \in Words /\ Word(-1) \in Words /\ INan \in Words
    /\ \A w \in Words : Mag(w) \in Words /\ Mag(w) \in Int
<1>1. 0 \in Words /\ 1 \in Words
  BY Constants
<1>2. Word(-1) \in Words
  BY WordTyped
<1>3. INan \in Words
  BY Constants, SMT DEF INan
<1>4. \A w \in Words : Mag(w) \in Words
  BY WordTyped DEF Mag
<1>5. QED BY <1>1, <1>2, <1>3, <1>4, Constants

LEMMA BitsTyped ==
    ASSUME NEW b, \A k \in 0..15 : b[k] \in {0, 1}
    PROVE  BitsWhere(b) \in Words
<1>1. PICK c0 \in 0..1, c1 \in 0..1, c2 \in 0..1, c3 \in 0..1,
           c4 \in 0..1, c5 \in 0..1, c6 \in 0..1, c7 \in 0..1 :
         /\ b[0] = c0 /\ b[1] = c1 /\ b[2] = c2 /\ b[3] = c3
         /\ b[4] = c4 /\ b[5] = c5 /\ b[6] = c6 /\ b[7] = c7
  OBVIOUS
<1>2. PICK d0 \in 0..1, d1 \in 0..1, d2 \in 0..1, d3 \in 0..1,
           d4 \in 0..1, d5 \in 0..1, d6 \in 0..1, d7 \in 0..1 :
         /\ b[8] = d0 /\ b[9] = d1 /\ b[10] = d2 /\ b[11] = d3
         /\ b[12] = d4 /\ b[13] = d5 /\ b[14] = d6 /\ b[15] = d7
  OBVIOUS
<1>3. BitsWhere(b) = c0 + 2 * c1 + 4 * c2 + 8 * c3 + 16 * c4 + 32 * c5
                     + 64 * c6 + 128 * c7 + 256 * d0 + 512 * d1 + 1024 * d2
                     + 2048 * d3 + 4096 * d4 + 8192 * d5 + 16384 * d6 + 32768 * d7
  BY <1>1, <1>2, SMT DEF BitsWhere
<1>4. PICK w \in Int : w = BitsWhere(b) /\ 0 <= w /\ w < 65536
  BY <1>3, SMT
<1>5. QED BY <1>4, Constants, SMT

LEMMA AndOrXorTyped == \A x, y : And(x, y) \in Words /\ Or(x, y) \in Words /\ Xor(x, y) \in Words
<1> SUFFICES ASSUME NEW x, NEW y
             PROVE  And(x, y) \in Words /\ Or(x, y) \in Words /\ Xor(x, y) \in Words
  OBVIOUS
<1>1. And(x, y) \in Words
  BY BitsTyped DEF And, Bool
<1>2. Or(x, y) \in Words
  BY BitsTyped DEF Or, Bool
<1>3. Xor(x, y) \in Words
  BY BitsTyped DEF Xor, Bool
<1>4. QED BY <1>1, <1>2, <1>3

LEMMA HostTyped == \A op, v : Gives(Host(op, v), Out(op))
  BY Small DEF Gives, Host

LEMMA SignExtendTyped ==
    ASSUME NEW w \in Words, NEW bits \in {4, 8}, bits = 4 => w < 16, bits = 8 => w < 256
    PROVE  SignExtend(w, bits) \in Words
<1>1. w \in Int
  BY Constants
<1>2. CASE ~Bit(w, bits - 1)
  BY <1>2 DEF SignExtend
<1>3. CASE Bit(w, bits - 1)
  <2>1. 2^bits \in {2^4, 2^8}
    BY Zenon
  <2>2. w - 2^bits \in Int
    BY <1>1, <2>1, SMT
  <2>3. QED BY <1>3, <2>2, WordTyped DEF SignExtend
<1>4. QED BY <1>2, <1>3

LEMMA LAddTyped ==
    ASSUME NEW a, NEW b, Gives(a, 2), Gives(b, 2)
    PROVE  Gives(LAdd(a, b), 2) /\ Gives(LNeg(a), 2)
<1>1. /\ a[1] \in Int /\ a[2] \in Int /\ b[1] \in Int /\ b[2] \in Int
      /\ a[1] \in Words /\ a[2] \in Words /\ b[1] \in Words /\ b[2] \in Words
  <2>1. 1 \in 1..2 /\ 2 \in 1..2
    OBVIOUS
  <2>2. QED BY <2>1, Constants DEF Gives
<1>2. ASSUME NEW x, NEW y, x[1] \in Int, x[2] \in Int, y[1] \in Int, y[2] \in Int
      PROVE  Gives(LAdd(x, y), 2)
  <2>1. x[2] + y[2] \in Int /\ x[1] + y[1] + ((x[2] + y[2]) \div WordSize) \in Int
    BY <1>2, Constants, SMT
  <2>2. QED BY <2>1, WordTyped, GivesTwo DEF LAdd
<1>3. Gives(LAdd(a, b), 2)
  BY <1>1, <1>2
<1>4. WordSize - 1 - a[1] \in Int /\ WordSize - 1 - a[2] \in Int
  BY <1>1, Constants, SMT
<1>5. Gives(LNeg(a), 2)
  <2>1. PICK p \in Int, q \in Int : p = WordSize - 1 - a[1] /\ q = WordSize - 1 - a[2]
    BY <1>4
  <2>2. LNeg(a) = LAdd(<<p, q>>, <<0, 1>>)
    BY <2>1, Zenon DEF LNeg
  <2>3. <<p, q>>[1] = p /\ <<p, q>>[2] = q /\ <<0, 1>>[1] = 0 /\ <<0, 1>>[2] = 1
    OBVIOUS
  <2>4. Gives(LAdd(<<p, q>>, <<0, 1>>), 2)
    BY <1>2, <2>3
  <2>5. QED BY <2>2, <2>4
<1>6. QED BY <1>3, <1>5

LEMMA Powers ==
    ASSUME NEW n \in 0..16
    PROVE  2^n \in Nat \ {0}
<1>1. n \in {0, 1, 2, 3, 4, 5, 6, 7, 8, 9, 10, 11, 12, 13, 14, 15, 16}
  OBVIOUS
<1>2. 2^n \in {2^0, 2^1, 2^2, 2^3, 2^4, 2^5, 2^6, 2^7, 2^8, 2^9, 2^10, 2^11,
               2^12, 2^13, 2^14, 2^15, 2^16}
  BY <1>1, Zenon
<1>3. QED BY <1>2, SMT

(* A word shifted right, and the two parts of a pair shifted right.        *)
ShiftParts == {<<1, 65536>>, <<2, 32768>>, <<4, 16384>>, <<8, 8192>>, <<16, 4096>>,
               <<32, 2048>>, <<64, 1024>>, <<128, 512>>, <<256, 256>>, <<512, 128>>,
               <<1024, 64>>, <<2048, 32>>, <<4096, 16>>, <<8192, 8>>, <<16384, 4>>,
               <<32768, 2>>}
Parts(x, y) == <<2^x, 2^y>>
LEMMA Shifts ==
    ASSUME NEW n \in 0..15
    PROVE  <<2^n, 2^(16 - n)>> \in ShiftParts
<1>1. PICK r \in Int : r = 16 - n /\ r + n = 16
  OBVIOUS
<1>2. \/ n = 0 \/ n = 1 \/ n = 2 \/ n = 3 \/ n = 4 \/ n = 5 \/ n = 6 \/ n = 7
      \/ n = 8 \/ n = 9 \/ n = 10 \/ n = 11 \/ n = 12 \/ n = 13 \/ n = 14 \/ n = 15
  OBVIOUS
<1>3. \/ (n = 0 /\ r = 16) \/ (n = 1 /\ r = 15) \/ (n = 2 /\ r = 14)
      \/ (n = 3 /\ r = 13) \/ (n = 4 /\ r = 12) \/ (n = 5 /\ r = 11)
      \/ (n = 6 /\ r = 10) \/ (n = 7 /\ r = 9) \/ (n = 8 /\ r = 8)
      \/ (n = 9 /\ r = 7) \/ (n = 10 /\ r = 6) \/ (n = 11 /\ r = 5)
      \/ (n = 12 /\ r = 4) \/ (n = 13 /\ r = 3) \/ (n = 14 /\ r = 2)
      \/ (n = 15 /\ r = 1)
  BY <1>1, <1>2, SMT
<1>4. Parts(n, r) \in {Parts(0, 16), Parts(1, 15), Parts(2, 14), Parts(3, 13), Parts(4, 12),
                       Parts(5, 11), Parts(6, 10), Parts(7, 9), Parts(8, 8), Parts(9, 7),
                       Parts(10, 6), Parts(11, 5), Parts(12, 4), Parts(13, 3), Parts(14, 2),
                       Parts(15, 1)}
  BY <1>3
<1>5. {Parts(0, 16), Parts(1, 15), Parts(2, 14), Parts(3, 13), Parts(4, 12),
       Parts(5, 11), Parts(6, 10), Parts(7, 9), Parts(8, 8), Parts(9, 7),
       Parts(10, 6), Parts(11, 5), Parts(12, 4), Parts(13, 3), Parts(14, 2),
       Parts(15, 1)}
      \subseteq ShiftParts
  BY SMT DEF Parts, ShiftParts
<1>6. QED BY <1>1, <1>4, <1>5 DEF Parts

LEMMA ShiftRight ==
    ASSUME NEW v \in Words, NEW w \in Words, NEW p \in Nat \ {0}, NEW q \in Nat \ {0},
           <<p, q>> \in ShiftParts
    PROVE  v \div p \in Words /\ (v \div p) + ((w % p) * q) \in Words
<1>1. /\ v \in Int /\ 0 <= v /\ v < 65536 /\ w \in Int /\ 0 <= w /\ w < 65536
      /\ \A x : x \in Words <=> x \in Int /\ 0 <= x /\ x < 65536
  BY Constants, SMT
<1>2. CASE p = 1 /\ q = 65536
  BY <1>1, <1>2, SMT
<1>3. CASE p = 2 /\ q = 32768
  BY <1>1, <1>3, SMT
<1>4. CASE p = 4 /\ q = 16384
  BY <1>1, <1>4, SMT
<1>5. CASE p = 8 /\ q = 8192
  BY <1>1, <1>5, SMT
<1>6. CASE p = 16 /\ q = 4096
  BY <1>1, <1>6, SMT
<1>7. CASE p = 32 /\ q = 2048
  BY <1>1, <1>7, SMT
<1>8. CASE p = 64 /\ q = 1024
  BY <1>1, <1>8, SMT
<1>9. CASE p = 128 /\ q = 512
  BY <1>1, <1>9, SMT
<1>10. CASE p = 256 /\ q = 256
  BY <1>1, <1>10, SMT
<1>11. CASE p = 512 /\ q = 128
  BY <1>1, <1>11, SMT
<1>12. CASE p = 1024 /\ q = 64
  BY <1>1, <1>12, SMT
<1>13. CASE p = 2048 /\ q = 32
  BY <1>1, <1>13, SMT
<1>14. CASE p = 4096 /\ q = 16
  BY <1>1, <1>14, SMT
<1>15. CASE p = 8192 /\ q = 8
  BY <1>1, <1>15, SMT
<1>16. CASE p = 16384 /\ q = 4
  BY <1>1, <1>16, SMT
<1>17. CASE p = 32768 /\ q = 2
  BY <1>1, <1>17, SMT
<1>18. QED
  BY <1>2, <1>3, <1>4, <1>5, <1>6, <1>7, <1>8, <1>9, <1>10, <1>11, <1>12, <1>13,
     <1>14, <1>15, <1>16, <1>17, SMT DEF ShiftParts

(* How many words the operations take and leave.                           *)
LEMMA TakeAndLeave ==
    /\ \A op \in IntOps \cup FloatOps \cup IntShifts : In(op) = 2 /\ Out(op) = 1
    /\ \A op \in LongOps \cup DoubleOps : In(op) = 4 /\ Out(op) = 2
    /\ \A op \in LongShifts : In(op) = 3 /\ Out(op) = 2
    /\ \A op \in Narrowing \cup {"sethi", "ineg", "fneg"} : In(op) = 1 /\ Out(op) = 1
    /\ \A op \in {"lneg", "dneg", "l2d", "d2l"} : In(op) = 2 /\ Out(op) = 2
    /\ \A op \in {"fcmpl", "fcmpg"} : In(op) = 2 /\ Out(op) = 1
    /\ \A op \in {"lcmp", "dcmpl", "dcmpg"} : In(op) = 4 /\ Out(op) = 1
    /\ \A op \in {"l2i", "l2f", "d2i", "d2f"} : In(op) = 2 /\ Out(op) = 1
    /\ \A op \in {"i2l", "i2d", "f2l", "f2d"} : In(op) = 1 /\ Out(op) = 2
    /\ \A op \in {"i2f", "f2i"} : In(op) = 1 /\ Out(op) = 1
<1>1. \A op \in IntOps \cup FloatOps \cup IntShifts : In(op) = 2 /\ Out(op) = 1
  BY DEF In, Out, IntOps, FloatOps, IntShifts, LongOps, DoubleOps, LongShifts
<1>2. \A op \in LongOps \cup DoubleOps : In(op) = 4 /\ Out(op) = 2
  BY DEF In, Out, IntOps, FloatOps, IntShifts, LongOps, DoubleOps, LongShifts
<1>3. \A op \in LongShifts : In(op) = 3 /\ Out(op) = 2
  BY DEF In, Out, IntOps, FloatOps, IntShifts, LongOps, DoubleOps, LongShifts
<1>4. \A op \in Narrowing \cup {"sethi", "ineg", "fneg"} : In(op) = 1 /\ Out(op) = 1
  BY DEF In, Out, IntOps, FloatOps, IntShifts, LongOps, DoubleOps, LongShifts, Narrowing
<1>5. \A op \in {"lneg", "dneg", "l2d", "d2l"} : In(op) = 2 /\ Out(op) = 2
  BY DEF In, Out, IntOps, FloatOps, IntShifts, LongOps, DoubleOps, LongShifts
<1>6. \A op \in {"fcmpl", "fcmpg"} : In(op) = 2 /\ Out(op) = 1
  BY DEF In, Out, IntOps, FloatOps, IntShifts, LongOps, DoubleOps, LongShifts
<1>7. \A op \in {"lcmp", "dcmpl", "dcmpg"} : In(op) = 4 /\ Out(op) = 1
  BY DEF In, Out, IntOps, FloatOps, IntShifts, LongOps, DoubleOps, LongShifts
<1>8. \A op \in {"l2i", "l2f", "d2i", "d2f"} : In(op) = 2 /\ Out(op) = 1
  BY DEF In, Out, IntOps, FloatOps, IntShifts, LongOps, DoubleOps, LongShifts
<1>9. \A op \in {"i2l", "i2d", "f2l", "f2d"} : In(op) = 1 /\ Out(op) = 2
  BY DEF In, Out, IntOps, FloatOps, IntShifts, LongOps, DoubleOps, LongShifts
<1>10. \A op \in {"i2f", "f2i"} : In(op) = 1 /\ Out(op) = 1
  BY DEF In, Out, IntOps, FloatOps, IntShifts, LongOps, DoubleOps, LongShifts
<1>11. QED BY <1>1, <1>2, <1>3, <1>4, <1>5, <1>6, <1>7, <1>8, <1>9, <1>10

LEMMA PairTyped ==
    ASSUME NEW v, NEW n \in Nat, Gives(v, n)
    PROVE  /\ n >= 1 => v[1] \in Words
           /\ n >= 2 => v[2] \in Words /\ Gives(Pair(v, 1), 2)
           /\ n >= 3 => v[3] \in Words /\ Gives(Pair(v, 2), 2)
           /\ n >= 4 => v[4] \in Words /\ Gives(Pair(v, 3), 2)
<1>1. /\ n >= 1 => v[1] \in Words
      /\ n >= 2 => v[2] \in Words
      /\ n >= 3 => v[3] \in Words
      /\ n >= 4 => v[4] \in Words
  BY DEF Gives
<1>2. /\ Pair(v, 1) = <<v[1], v[2]>> /\ Pair(v, 2) = <<v[2], v[3]>>
      /\ Pair(v, 3) = <<v[3], v[4]>>
  BY DEF Pair
<1>3. QED BY <1>1, <1>2, GivesTwo

LEMMA FromIntTyped ==
    ASSUME NEW op \in FromInt, NEW v, Gives(v, In(op))
    PROVE  Gives(ConvertInt(op, v), Out(op))
<1>1. CASE op \in {"i2f", "i2d", "l2f", "l2d"}
  BY <1>1, HostTyped DEF ConvertInt
<1>2. CASE op = "i2l"
  <2>1. In(op) = 1 /\ Out(op) = 2
    BY <1>2, TakeAndLeave
  <2>2. v[1] \in Words
    BY <2>1, PairTyped
  <2>3. (IF Neg(v[1]) THEN Word(-1) ELSE 0) \in Words
    BY Small
  <2>4. ConvertInt(op, v) = <<IF Neg(v[1]) THEN Word(-1) ELSE 0, v[1]>>
    BY <1>2 DEF ConvertInt
  <2>5. QED BY <2>1, <2>2, <2>3, <2>4, GivesTwo
<1>3. CASE op = "l2i"
  <2>1. In(op) = 2 /\ Out(op) = 1
    BY <1>3, TakeAndLeave
  <2>2. v[2] \in Words
    BY <2>1, PairTyped
  <2>3. ConvertInt(op, v) = <<v[2]>>
    BY <1>3 DEF ConvertInt
  <2>4. QED BY <2>1, <2>2, <2>3, GivesOne
<1>4. QED BY <1>1, <1>2, <1>3 DEF FromInt

LEMMA FromFloatTyped ==
    ASSUME NEW op \in FromFloat, NEW v, Gives(v, In(op))
    PROVE  Gives(ConvertFloat(op, v), Out(op))
<1>1. CASE op \in {"f2i", "d2i"}
  <2>1. Out(op) = 1
    BY <1>1, TakeAndLeave
  <2>2. ConvertFloat(op, v) \in {<<0>>, Host(op, v)}
    BY <1>1 DEF ConvertFloat
  <2>3. QED BY <2>1, <2>2, Small, HostTyped, GivesOne
<1>2. CASE op \in {"f2l", "d2l"}
  <2>1. Out(op) = 2
    BY <1>2, TakeAndLeave
  <2>2. ConvertFloat(op, v) \in {<<0, 0>>, Host(op, v)}
    BY <1>2 DEF ConvertFloat
  <2>3. QED BY <2>1, <2>2, Small, HostTyped, GivesTwo
<1>3. CASE op = "f2d"
  <2>1. In(op) = 1 /\ Out(op) = 2
    BY <1>3, TakeAndLeave
  <2>2. Mag(v[1]) \in Words
    BY <2>1, PairTyped, Small
  <2>3. ConvertFloat(op, v) \in {<<Mag(v[1]), 0>>, Host(op, v)}
    BY <1>3 DEF ConvertFloat
  <2>4. QED BY <2>1, <2>2, <2>3, Small, HostTyped, GivesTwo
<1>4. CASE op = "d2f"
  <2>1. Out(op) = 1
    BY <1>4, TakeAndLeave
  <2>2. ConvertFloat(op, v) \in {<<INan>>, Host(op, v)}
    BY <1>4 DEF ConvertFloat
  <2>3. QED BY <2>1, <2>2, Small, HostTyped, GivesOne
<1>5. QED BY <1>1, <1>2, <1>3, <1>4 DEF FromFloat

LEMMA NarrowTyped ==
    ASSUME NEW op \in Narrowing, NEW v, Gives(v, In(op))
    PROVE  Gives(Narrow(op, v), Out(op))
<1>1. In(op) = 1 /\ Out(op) = 1
  BY TakeAndLeave
<1>2. v[1] \in Words
  BY <1>1, PairTyped
<1>3. ByteBits = 4 /\ BitsOf(1) = 8
  <2>1. 2^1 = 2
    OBVIOUS
  <2>2. QED BY <2>1 DEF ByteBits, BitsOf
<1>4. PICK x \in Words, y \in Words : x = v[1] % 2^4 /\ x < 16 /\ y = v[1] % 2^8 /\ y < 256
  BY <1>2, Constants, SMT
<1>5. SignExtend(x, 4) \in Words /\ SignExtend(y, 8) \in Words
  BY <1>4, SignExtendTyped
<1>6. Narrow(op, v) \in {<<SignExtend(x, 4)>>, <<y>>, <<SignExtend(y, 8)>>}
  BY <1>3, <1>4 DEF Narrow, Narrowing
<1>7. QED BY <1>1, <1>4, <1>5, <1>6, GivesOne

LEMMA CompareTyped ==
    ASSUME NEW op \in Compares, NEW v
    PROVE  Gives(Compare(op, v), Out(op))
<1>1. Out(op) = 1
  BY TakeAndLeave DEF Compares
<1>2. \A x, y : Order(x, y) \in Words
  BY Small DEF Order, Bool
<1>3. \E x, y : Compare(op, v) \in {<<Order(x, y)>>, <<Word(-1)>>, <<1>>}
  BY DEF Compare
<1>4. QED BY <1>1, <1>2, <1>3, Small, GivesOne

LEMMA TruncatedTyped ==
    ASSUME NEW a \in Int, NEW b \in Int, b # 0
    PROVE  Truncated(a, b) \in Int
<1>1. Abs(a) \in Nat /\ Abs(b) \in Nat \ {0}
  BY DEF Abs
<1>2. PICK q \in Int : q = Abs(a) \div Abs(b)
  BY <1>1
<1>3. Truncated(a, b) \in {q, -q}
  BY <1>2 DEF Truncated
<1>4. QED BY <1>3

LEMMA IntTyped ==
    ASSUME NEW op \in IntOps, NEW v, Gives(v, In(op)), NEW w \in Words,
           op \in {"idiv", "irem"} => v[1] # 0
    PROVE  Gives(IntResult(op, v, w), Out(op))
<1>1. In(op) = 2 /\ Out(op) = 1
  BY TakeAndLeave
<1>2. v[1] \in Words /\ v[2] \in Words
  BY <1>1, PairTyped
<1>3. PICK a \in Int, b \in Int : a = Signed(v[2]) /\ b = Signed(v[1])
  <2>1. v[1] \in Int /\ v[2] \in Int
    BY <1>2, Constants, SMT
  <2>2. QED BY <2>1, WordTyped
<1>4. Word(a + b) \in Words /\ Word(a - b) \in Words /\ Word(a * b) \in Words
  <2>1. a + b \in Int /\ a - b \in Int /\ a * b \in Int
    OBVIOUS
  <2>2. QED BY <2>1, WordTyped
<1>5. ASSUME op \in {"idiv", "irem"}
      PROVE  Word(Truncated(a, b)) \in Words /\ Word(a - b * Truncated(a, b)) \in Words
  <2>1. v[1] \in Int /\ v[1] # 0 /\ 0 <= v[1] /\ v[1] < 65536
    BY <1>2, <1>5, Constants, SMT
  <2>2. b # 0
    BY <1>3, <2>1, Constants, SMT DEF Signed
  <2>3. PICK q \in Int : q = Truncated(a, b)
    BY <2>2, TruncatedTyped
  <2>4. a - b * q \in Int
    OBVIOUS
  <2>5. QED BY <2>3, <2>4, WordTyped
<1>6. \/ \E x \in {Word(a + b), Word(a - b), Word(a * b), And(v[2], v[1]),
                   Or(v[2], v[1]), Xor(v[2], v[1]), w} : IntResult(op, v, w) = <<x>>
      \/ /\ op \in {"idiv", "irem"}
         /\ \E x \in {Word(Truncated(a, b)), Word(a - b * Truncated(a, b))} :
               IntResult(op, v, w) = <<x>>
  BY <1>3 DEF IntResult, IntOps
<1>7. PICK x \in Words : IntResult(op, v, w) = <<x>>
  BY <1>4, <1>5, <1>6, AndOrXorTyped
<1>8. QED BY <1>1, <1>7, GivesOne

LEMMA LongTyped ==
    ASSUME NEW op \in LongOps, NEW v, Gives(v, In(op))
    PROVE  Gives(LongResult(op, v), Out(op))
<1>1. In(op) = 4 /\ Out(op) = 2
  BY TakeAndLeave
<1>2. PICK a, b : a = Pair(v, 3) /\ b = Pair(v, 1) /\ Gives(a, 2) /\ Gives(b, 2)
  BY <1>1, PairTyped
<1>3. LongResult(op, v) \in {LAdd(a, b), LAdd(a, LNeg(b)),
                             <<And(a[1], b[1]), And(a[2], b[2])>>,
                             <<Or(a[1], b[1]), Or(a[2], b[2])>>,
                             <<Xor(a[1], b[1]), Xor(a[2], b[2])>>}
  BY <1>2 DEF LongResult, LongOps
<1>4. Gives(LAdd(a, b), 2) /\ Gives(LAdd(a, LNeg(b)), 2)
  BY <1>2, LAddTyped
<1>5. QED BY <1>1, <1>3, <1>4, AndOrXorTyped, GivesTwo

LEMMA IntShiftTyped ==
    ASSUME NEW op \in IntShifts, NEW v, Gives(v, In(op))
    PROVE  Gives(IntShift(op, v), Out(op))
<1>1. In(op) = 2 /\ Out(op) = 1
  BY TakeAndLeave
<1>2. v[1] \in Words /\ v[2] \in Words /\ v[1] \in Int /\ v[2] \in Int
  BY <1>1, PairTyped, Constants
<1>3. PICK n \in 0..15 : n = v[1] % 16
  BY <1>2
<1>4. PICK p \in Nat \ {0}, q \in Nat \ {0} : p = 2^n /\ q = 2^(16 - n)
  <2>1. n \in 0..16 /\ 16 - n \in 0..16
    OBVIOUS
  <2>2. QED BY <2>1, Powers
<1>5. <<p, q>> \in ShiftParts
  BY <1>4, Shifts
<1>6. PICK a \in Int : a = Signed(v[2])
  BY <1>2, WordTyped
<1>7. v[2] * p \in Int /\ a \div p \in Int
  BY <1>2
<1>8. Word(v[2] * p) \in Words /\ Word(a \div p) \in Words /\ v[2] \div p \in Words
  BY <1>2, <1>5, <1>7, WordTyped, ShiftRight
<1>9. IntShift(op, v) \in {<<Word(v[2] * p)>>, <<Word(a \div p)>>, <<v[2] \div p>>}
  BY <1>3, <1>4, <1>6 DEF IntShift, IntShifts
<1>10. QED BY <1>1, <1>8, <1>9, GivesOne

LEMMA LongShiftTyped ==
    ASSUME NEW op \in LongShifts, NEW v, Gives(v, In(op))
    PROVE  Gives(LongShift(op, v), Out(op))
<1>1. In(op) = 3 /\ Out(op) = 2
  BY TakeAndLeave
<1>2. PICK x \in Words, y \in Words : Pair(v, 2) = <<x, y>> /\ x \in Int /\ y \in Int
  <2>1. v[1] \in Words /\ v[2] \in Words /\ v[3] \in Words
    BY <1>1, PairTyped
  <2>2. QED BY <2>1, Constants DEF Pair
<1>3. PICK n \in 0..31 : n = v[1] % 32
  <2>1. v[1] \in Int
    BY <1>1, PairTyped, Constants
  <2>2. QED BY <2>1
<1>4. PICK f \in Int : f = IF op = "lshr" THEN Signed(x) ELSE x
  BY <1>2, WordTyped
<1>5. CASE n < 16
  <2>1. n \in 0..15 /\ n \in 0..16 /\ 16 - n \in 0..16
    BY <1>5
  <2>2. PICK p \in Nat \ {0}, q \in Nat \ {0} : p = 2^n /\ q = 2^(16 - n)
    BY <2>1, Powers
  <2>3. <<p, q>> \in ShiftParts
    BY <2>1, <2>2, Shifts
  <2>4. x * p + (y \div q) \in Int /\ y * p \in Int /\ f \div p \in Int
    BY <1>2
  <2>5. /\ Word(x * p + (y \div q)) \in Words /\ Word(y * p) \in Words
        /\ Word(f \div p) \in Words /\ (y \div p) + ((x % p) * q) \in Words
    BY <2>3, <2>4, WordTyped, ShiftRight
  <2>6. LongShift(op, v) \in {<<Word(x * p + (y \div q)), Word(y * p)>>,
                              <<Word(f \div p), (y \div p) + ((x % p) * q)>>}
    BY <1>2, <1>3, <1>4, <1>5, <2>2 DEF LongShift, LongShifts
  <2>7. QED BY <1>1, <2>5, <2>6, GivesTwo
<1>6. CASE n >= 16
  <2>1. n - 16 \in 0..16
    BY <1>6
  <2>2. PICK p \in Nat \ {0} : p = 2^(n - 16)
    BY <2>1, Powers
  <2>3. y * p \in Int /\ f \div p \in Int
    BY <1>2
  <2>4. /\ Word(y * p) \in Words /\ Word(f \div p) \in Words
    BY <2>3, WordTyped
  <2>5. LongShift(op, v) \in {<<Word(y * p), 0>>,
                              <<Word(-1), Word(f \div p)>>, <<0, Word(f \div p)>>}
    BY <1>2, <1>3, <1>4, <1>6, <2>2 DEF LongShift, LongShifts
  <2>6. QED BY <1>1, <2>4, <2>5, Small, GivesTwo
<1>7. QED BY <1>5, <1>6

LEMMA FloatTyped ==
    ASSUME NEW op \in FloatOps, NEW v, Gives(v, In(op))
    PROVE  Gives(FloatResult(op, v), Out(op))
<1>1. In(op) = 2 /\ Out(op) = 1
  BY TakeAndLeave
<1>2. v[1] \in Words /\ v[2] \in Words
  BY <1>1, PairTyped
<1>3. FloatResult(op, v) \in {<<Mag(v[2])>>, <<Mag(v[1])>>, <<INan>>, Host(op, v)}
  BY DEF FloatResult
<1>4. QED BY <1>1, <1>2, <1>3, Small, HostTyped, GivesOne

LEMMA DoubleTyped ==
    ASSUME NEW op \in DoubleOps, NEW v, Gives(v, In(op))
    PROVE  Gives(DoubleResult(op, v), Out(op))
<1>1. In(op) = 4 /\ Out(op) = 2
  BY TakeAndLeave
<1>2. v[1] \in Words /\ v[2] \in Words /\ v[3] \in Words /\ v[4] \in Words
  BY <1>1, PairTyped
<1>3. DoubleResult(op, v) \in {<<Mag(v[3]), v[4]>>, <<Mag(v[1]), v[2]>>, <<INan, 0>>,
                               Host(op, v)}
  BY DEF DoubleResult, Pair
<1>4. QED BY <1>1, <1>2, <1>3, Small, HostTyped, GivesTwo

LEMMA NegateTyped ==
    ASSUME NEW op \in Negations, NEW v, Gives(v, In(op))
    PROVE  Gives(Negate(op, v), Out(op))
<1>1. ASSUME NEW w \in Words PROVE Word(-w) \in Words /\ Word(w + TopBit) \in Words
  <2>1. -w \in Int /\ w + TopBit \in Int
    BY Constants, SMT
  <2>2. QED BY <2>1, WordTyped
<1>2. CASE op \in {"ineg", "fneg"}
  <2>1. In(op) = 1 /\ Out(op) = 1
    BY <1>2, TakeAndLeave
  <2>2. v[1] \in Words
    BY <2>1, PairTyped
  <2>3. Negate(op, v) \in {<<Word(-v[1])>>, <<Word(v[1] + TopBit)>>}
    BY <1>2 DEF Negate
  <2>4. QED BY <1>1, <2>1, <2>2, <2>3, GivesOne
<1>3. CASE op \in {"lneg", "dneg"}
  <2>1. In(op) = 2 /\ Out(op) = 2 /\ Gives(v, 2)
    BY <1>3, TakeAndLeave
  <2>2. v[1] \in Words /\ v[2] \in Words
    BY <2>1, PairTyped
  <2>3. Negate(op, v) \in {LNeg(v), <<Word(v[1] + TopBit), v[2]>>}
    BY <1>3 DEF Negate
  <2>4. Gives(LNeg(v), 2)
    BY <2>1, LAddTyped
  <2>5. QED BY <1>1, <2>1, <2>2, <2>3, <2>4, GivesTwo
<1>4. QED BY <1>2, <1>3 DEF Negations

LEMMA SethiTyped ==
    ASSUME NEW v, Gives(v, 1), NEW hi \in Int
    PROVE  Gives(Sethi(v, hi), 1)
<1>1. v[1] \in Words
  BY PairTyped
<1>2. 2^BitsOf(1) = 256
  BY ShiftTyped
<1>3. PICK x \in Int : x = v[1] % 2^BitsOf(1) /\ 0 <= x /\ x < 256
  <2>1. v[1] % 256 \in Int /\ 0 <= v[1] % 256 /\ v[1] % 256 < 256
    BY <1>1, Constants, SMT
  <2>2. QED BY <1>2, <2>1
<1>4. PICK y \in Int : y = Word(hi * 2^BitsOf(1)) /\ 0 <= y /\ y <= 65280
  <2>1. PICK k \in Int, r \in Int : hi = 256 * k + r /\ 0 <= r /\ r < 256
    <3>1. hi = 256 * (hi \div 256) + (hi % 256) /\ hi % 256 \in Int /\ hi \div 256 \in Int
          /\ 0 <= hi % 256 /\ hi % 256 < 256
      BY SMT
    <3>2. QED BY <3>1, SMT
  <2>2. hi * 256 = 65536 * k + 256 * r
    BY <2>1, SMT
  <2>3. (65536 * k + 256 * r) % 65536 = 256 * r
    BY <2>1, SMT
  <2>4. Word(hi * 256) = 256 * r
    BY <2>2, <2>3, Constants, SMT DEF Word
  <2>5. 256 * r \in Int /\ 0 <= 256 * r /\ 256 * r <= 65280
    BY <2>1, SMT
  <2>6. QED BY <1>2, <2>4, <2>5, SMT
<1>5. Sethi(v, hi) = <<x + y>>
  BY <1>3, <1>4, SMT DEF Sethi
<1>6. x + y \in Words
  BY <1>3, <1>4, Constants, SMT
<1>7. QED BY <1>5, <1>6, GivesOne

LEMMA ValueTyped ==
    ASSUME NEW t, t.junk \in Words, NEW i, i.x \in Int, i.op \in Operations,
           NEW v, Gives(v, In(i.op)), i.op \in {"idiv", "irem"} => v[1] # 0
    PROVE  Gives(Value(t, i, v), Out(i.op))
<1>1. PICK op : op = i.op
  OBVIOUS
<1>2. CASE op = "sethi"
  <2>1. Value(t, i, v) = Sethi(v, i.x)
    BY <1>1, <1>2 DEF Value, FromInt, FromFloat, Narrowing, Compares, IntOps, LongOps,
       IntShifts, LongShifts, FloatOps, DoubleOps, Negations
  <2>2. QED BY <1>1, <1>2, <2>1, TakeAndLeave, SethiTyped
<1>3. CASE op # "sethi"
  <2>1. \/ op \in FromInt /\ Value(t, i, v) = ConvertInt(op, v)
        \/ op \in FromFloat /\ Value(t, i, v) = ConvertFloat(op, v)
        \/ op \in Narrowing /\ Value(t, i, v) = Narrow(op, v)
        \/ op \in Compares /\ Value(t, i, v) = Compare(op, v)
        \/ op \in IntOps /\ Value(t, i, v) = IntResult(op, v, t.junk)
        \/ op \in LongOps /\ Value(t, i, v) = LongResult(op, v)
        \/ op \in IntShifts /\ Value(t, i, v) = IntShift(op, v)
        \/ op \in LongShifts /\ Value(t, i, v) = LongShift(op, v)
        \/ op \in FloatOps /\ Value(t, i, v) = FloatResult(op, v)
        \/ op \in DoubleOps /\ Value(t, i, v) = DoubleResult(op, v)
        \/ op \in Negations /\ Value(t, i, v) = Negate(op, v)
    BY <1>1, <1>3 DEF Value, Operations
  <2>2. QED
    BY <1>1, <2>1, FromIntTyped, FromFloatTyped, NarrowTyped, CompareTyped, IntTyped,
       LongTyped, IntShiftTyped, LongShiftTyped, FloatTyped, DoubleTyped, NegateTyped
<1>4. QED BY <1>2, <1>3

-----------------------------------------------------------------------------
(***************************************************************************)
(* What the instructions have in common.                                   *)
(***************************************************************************)
Got(s, r)       == Good(s, r.m) /\ r.v \in Words
GotAll(s, r, n) == /\ Good(s, r.m) /\ Gives(r.v, n)
                   /\ r.v \in Seq(Words) /\ Len(r.v) = n

LEMMA WordGot ==
    ASSUME NEW s, NEW t, Good(s, t), NEW a, NEW c
    PROVE  Got(s, ReadWord(t, a, c))
  BY ReadGood DEF Got

LEMMA AllGot ==
    ASSUME NEW s, NEW t, Good(s, t), NEW n \in Nat, NEW addrs, DOMAIN addrs = 1..n, NEW c
    PROVE  GotAll(s, ReadAll(t, addrs, c), n)
  BY ReadAllGood DEF GotAll, Gives

LEMMA TopGot ==
    ASSUME NEW s, NEW t, Good(s, t), NEW n \in Nat
    PROVE  GotAll(s, Top(t, n), n)
  BY TopGood DEF GotAll, Gives

LEMMA TopWords ==
    ASSUME NEW s, NEW r, NEW n \in Nat, GotAll(s, r, n)
    PROVE  /\ Good(s, r.m)
           /\ n >= 1 => r.v[1] \in Words
           /\ n >= 2 => r.v[2] \in Words
           /\ n >= 3 => r.v[3] \in Words
  BY PairTyped DEF GotAll

LEMMA RegistersOf ==
    ASSUME NEW s, NEW t, Good(s, t)
    PROVE  /\ t.pc \in Words /\ t.vars \in Words /\ t.frame \in Words
           /\ t.optop \in Words /\ t.oplim \in Words /\ t.const_pool \in Words
           /\ t.psr \in Words /\ t.trapbase \in Words /\ t.junk \in Words
  BY RegistersTyped DEF WordRegisters

LEMMA Operands ==
    ASSUME NEW i, InstructionOK(i)
    PROVE  /\ i.x \in Int /\ i.y \in Int /\ i.len \in Int /\ i.len \in Nat
           /\ i.code \in 0..255 \ {TT.oplim_trap}
  BY DEF InstructionOK

LEMMA TrapNumbers ==
    {TT.arithmetic_excep, TT.indexoutofbnds_excep, TT.nullptr_excep,
     TT.lock_count_overflow_trap, TT.lock_enter_miss_trap, TT.lock_release_trap,
     TT.lock_exit_miss_trap, TT.gc_notify, TT.ZeroLineEmulationTrap, TT.soft_trap,
     TT.illegal_instr} \subseteq 0..255 \ {TT.oplim_trap}
  BY DEF TT

LEMMA AnyTrapDone ==
    ASSUME NEW s, NEW t, Good(s, t), NEW tt \in 0..255 \ {TT.oplim_trap}
    PROVE  Done(s, invoke_trap(t, tt)) /\ Done(s, LowPriorityTrap(t, tt))
  BY TrapDone, LowTrapDone DEF Good, Sound

LEMMA ResultGood ==
    ASSUME NEW s, NEW t, Good(s, t), NEW i, InstructionOK(i), NEW in \in Int,
           NEW out \in Nat, NEW vals, Gives(vals, out)
    PROVE  Good(s, Result(t, i, in, out, vals))
<1> DEFINE puts == [k \in 1..out |-> <<in - out + k, vals[k]>>]
<1>1. puts \in Seq(Int \X Words)
  <2>1. \A k \in 1..out : <<in - out + k, vals[k]>> \in Int \X Words
    BY DEF Gives
  <2>2. QED BY <2>1
<1>2. Result(t, i, in, out, vals) = SizeAndStack(PutStack(t, puts), i.len, out - in)
  BY DEF Result
<1> HIDE DEF puts
<1>3. Good(s, PutStack(t, puts))
  BY <1>1, PutStackGood
<1>4. out - in \in Int /\ i.len \in Int
  BY Operands
<1>5. QED BY <1>2, <1>3, <1>4, SizeGood

(* One word written to the stack, as they all are.                         *)
LEMMA PutOneGood ==
    ASSUME NEW s, NEW t, Good(s, t), NEW k \in Int, NEW w \in Words
    PROVE  Good(s, PutStack(t, <<<<k, w>>>>)) /\ Stays(t, PutStack(t, <<<<k, w>>>>))
<1>1. <<<<k, w>>>> \in Seq(Int \X Words)
  OBVIOUS
<1>2. QED BY <1>1, PutStackGood

LEMMA SizeOfGood ==
    ASSUME NEW s, NEW t, Good(s, t), NEW i, InstructionOK(i), NEW stack \in Int
    PROVE  Good(s, SizeAndStack(t, i.len, stack))
  BY Operands, SizeGood

LEMMA MaskTyped ==
    ASSUME NEW w \in Words
    PROVE  /\ MASK_OBJREF(w) \in Words /\ MASK_OBJREF(w) \in Int
           /\ MASK_OBJREF(w) + 4 \in Words /\ MASK_OBJREF(w) + 4 \in Int
           /\ MASK_MV_PTR(w) \in Int /\ MASK_ARRAY_LENGTH(w) \in Words
<1>1. PICK a \in Int : a = w % 16384 /\ 0 <= a /\ a < 16384
  BY Constants, SMT
<1>2. PICK b \in Int : b = MASK_OBJREF(w) /\ 0 <= b /\ b < 16384
  <2>1. Align(a) \in Int /\ 0 <= Align(a) /\ Align(a) < 16384
    BY <1>1, SMT DEF Align, JAVAWORDSIZE
  <2>2. MASK_OBJREF(w) = Align(a)
    BY <1>1, Constants, SMT DEF MASK_OBJREF
  <2>3. QED BY <2>1, <2>2
<1>3. MASK_MV_PTR(w) \in Int
  BY Constants, SMT DEF MASK_MV_PTR
<1>4. MASK_ARRAY_LENGTH(w) \in Words
  <2>1. 2^12 = 4096
    OBVIOUS
  <2>2. w % 4096 \in Words
    BY Constants, SMT
  <2>3. QED BY <2>1, <2>2, SMT DEF MASK_ARRAY_LENGTH
<1>5. b \in Words /\ b + 4 \in Words /\ b + 4 \in Int
  BY <1>2, Constants, SMT
<1>6. QED BY <1>2, <1>3, <1>4, <1>5

LEMMA StorageGot ==
    ASSUME NEW s, NEW t, Good(s, t), NEW ref \in Words
    PROVE  Got(s, StorageAddr(t, ref))
<1>1. PICK a \in Words : a = MASK_OBJREF(ref) + 4
  BY MaskTyped
<1>2. StorageAddr(t, ref) = IF IS_HANDLE(ref) THEN ReadWord(t, a, "H") ELSE [m |-> t, v |-> a]
  BY <1>1 DEF StorageAddr
<1>3. CASE IS_HANDLE(ref)
  BY <1>2, <1>3, WordGot
<1>4. CASE ~IS_HANDLE(ref)
  BY <1>2, <1>4 DEF Got
<1>5. QED BY <1>3, <1>4

LEMMA WriteFromGood ==
    ASSUME NEW s, NEW t, Good(s, t), NEW a \in Int, NEW c, NEW vals \in Seq(Words)
    PROVE  Good(s, WriteFrom(t, a, c, vals))
<1> DEFINE puts == [k \in 1..Len(vals) |-> <<a + 4 * (k - 1), vals[k]>>]
<1>1. PICK n \in Nat : n = Len(vals) /\ \A k \in 1..n : vals[k] \in Words
  OBVIOUS
<1>2. DOMAIN puts = 1..n
  BY <1>1
<1>3. PutsOK(puts, n)
  <2>1. ASSUME NEW k \in 1..n PROVE puts[k][1] \in Int /\ puts[k][2] \in Words
    <3>1. a + 4 * (k - 1) \in Int /\ vals[k] \in Words
      BY <1>1
    <3>2. puts[k] = <<a + 4 * (k - 1), vals[k]>>
      BY <1>1
    <3> HIDE DEF puts
    <3>3. QED BY <3>1, <3>2
  <2> HIDE DEF puts
  <2>2. QED BY <2>1 DEF PutsOK
<1>4. WriteFrom(t, a, c, vals) = WriteAll(t, c, puts)
  BY DEF WriteFrom
<1> HIDE DEF puts
<1>5. QED BY <1>2, <1>3, <1>4, WriteAllGood

-----------------------------------------------------------------------------
(***************************************************************************)
(* The instructions of ObjectOps.                                          *)
(***************************************************************************)
LEMMA LdcGood ==
    ASSUME NEW s, NEW t, Good(s, t), NEW i, InstructionOK(i), NEW n \in Nat
    PROVE  Good(s, doLdc_quick(t, i, n))
<1>1. PICK r : r = ReadAll(t, [k \in 1..n |-> CP_OFFSET(t, i.x + k - 1)], "C")
  OBVIOUS
<1>2. GotAll(s, r, n)
  BY <1>1, AllGot
<1>3. doLdc_quick(t, i, n) = Result(r.m, i, 0, n, r.v)
  BY <1>1 DEF doLdc_quick, Then
<1>4. QED BY <1>2, <1>3, ResultGood DEF GotAll

LEMMA GetstaticGood ==
    ASSUME NEW s, NEW t, Good(s, t), NEW i, InstructionOK(i), NEW n \in Nat
    PROVE  Good(s, doGetstatic_quick(t, i, n))
<1>1. PICK f : f = ReadWord(t, CP_OFFSET(t, i.x), "C") /\ Got(s, f)
  BY WordGot
<1>2. PICK r : r = ReadAll(f.m, [k \in 1..n |-> StaticAddr(f.v, n) + 4 * (k - 1)], "B")
  OBVIOUS
<1>3. GotAll(s, r, n)
  BY <1>1, <1>2, AllGot DEF Got
<1>4. doGetstatic_quick(t, i, n) = Result(r.m, i, 0, n, r.v)
  BY <1>1, <1>2 DEF doGetstatic_quick, Then
<1>5. QED BY <1>3, <1>4, ResultGood DEF GotAll

LEMMA PutstaticGood ==
    ASSUME NEW s, NEW t, Good(s, t), NEW i, InstructionOK(i), NEW n \in Nat
    PROVE  Good(s, doPutstatic_quick(t, i, n))
<1>1. PICK f : f = ReadWord(t, CP_OFFSET(t, i.x), "C") /\ Got(s, f)
  BY WordGot
<1>2. PICK r : r = Top(f.m, n) /\ GotAll(s, r, n)
  BY <1>1, TopGot DEF Got
<1>3. PICK a \in Int : a = StaticAddr(f.v, n)
  BY <1>1, Constants, SMT DEF Got, StaticAddr
<1>4. doPutstatic_quick(t, i, n) = SizeAndStack(WriteFrom(r.m, a, "B", r.v), i.len, -n)
  BY <1>1, <1>2, <1>3 DEF doPutstatic_quick, Then
<1>5. Good(s, WriteFrom(r.m, a, "B", r.v))
  BY <1>2, WriteFromGood DEF GotAll
<1>6. QED BY <1>4, <1>5, SizeOfGood

LEMMA APutstaticDone ==
    ASSUME NEW s, NEW t, Good(s, t), NEW i, InstructionOK(i)
    PROVE  Done(s, doAPutstatic_quick(t, i))
<1>1. PICK f : f = ReadWord(t, CP_OFFSET(t, i.x), "C") /\ Got(s, f)
  BY WordGot
<1>2. PICK r : r = Top(f.m, 1) /\ Good(s, r.m) /\ r.v[1] \in Words
  BY <1>1, TopGot, TopWords DEF Got
<1>3. PICK a \in Int : a = MASK_OBJREF(f.v)
  BY <1>1, MaskTyped DEF Got
<1>4. doAPutstatic_quick(t, i) =
        IF gc_trap(r.m, f.v, r.v[1]) THEN LowPriorityTrap(r.m, TT.gc_notify)
        ELSE SizeAndStack(WriteWord(r.m, a, "B", r.v[1]), i.len, -1)
  BY <1>1, <1>2, <1>3 DEF doAPutstatic_quick, Then
<1>5. Done(s, LowPriorityTrap(r.m, TT.gc_notify))
  BY <1>2, AnyTrapDone, TrapNumbers
<1>6. Good(s, WriteWord(r.m, a, "B", r.v[1]))
  BY <1>2, WriteWordGood
<1>7. Done(s, SizeAndStack(WriteWord(r.m, a, "B", r.v[1]), i.len, -1))
  BY <1>6, SizeOfGood, GoodDone
<1>8. QED BY <1>4, <1>5, <1>7

LEMMA GetfieldDone ==
    ASSUME NEW s, NEW t, Good(s, t), NEW i, InstructionOK(i), NEW n \in Nat
    PROVE  Done(s, doGetfield_quick(t, i, n))
<1>1. PICK o : o = Top(t, 1) /\ Good(s, o.m) /\ o.v[1] \in Words
  BY TopGot, TopWords
<1>2. PICK b : b = StorageAddr(o.m, o.v[1]) /\ Got(s, b)
  BY <1>1, StorageGot
<1>3. PICK r : r = ReadAll(b.m, [k \in 1..n |-> b.v + 4 * (i.x + k - 1)], "B")
  OBVIOUS
<1>4. GotAll(s, r, n)
  BY <1>2, <1>3, AllGot DEF Got
<1>5. doGetfield_quick(t, i, n) =
        IF o.v[1] = 0 THEN invoke_trap(o.m, TT.nullptr_excep)
        ELSE Result(r.m, i, 1, n, r.v)
  BY <1>1, <1>2, <1>3 DEF doGetfield_quick, Then
<1>6. Done(s, invoke_trap(o.m, TT.nullptr_excep))
  BY <1>1, AnyTrapDone, TrapNumbers
<1>7. Done(s, Result(r.m, i, 1, n, r.v))
  BY <1>4, ResultGood, GoodDone DEF GotAll
<1>8. QED BY <1>5, <1>6, <1>7

LEMMA PutfieldDone ==
    ASSUME NEW s, NEW t, Good(s, t), NEW i, InstructionOK(i), NEW n \in Nat, NEW barrier
    PROVE  Done(s, doPutfield_quick(t, i, n, barrier))
<1>1. PICK o : o = Top(t, n + 1) /\ GotAll(s, o, n + 1)
  BY TopGot
<1>2. PICK ref \in Words : ref = o.v[n + 1]
  BY <1>1 DEF GotAll, Gives
<1>3. PICK b : b = StorageAddr(o.m, ref) /\ Got(s, b)
  BY <1>1, StorageGot DEF GotAll
<1>4. PICK vals \in Seq(Words) : vals = SubSeq(o.v, 1, n)
  <2>1. o.v \in Seq(Words) /\ Len(o.v) = n + 1 /\ \A k \in 1..n : o.v[k] \in Words
    BY <1>1 DEF GotAll, Gives
  <2>2. n \in Int /\ 1 \in Int
    OBVIOUS
  <2>3. SubSeq(o.v, 1, n) \in Seq(Words)
    BY <2>1, <2>2, SubSeqProperties, Zenon
  <2>4. QED BY <2>3
<1>5. PICK a \in Int : a = b.v + 4 * i.x
  <2>1. i.x \in Int
    BY Operands
  <2>2. b.v \in Int
    BY <1>3, Constants DEF Got
  <2>3. QED BY <2>1, <2>2
<1>6. doPutfield_quick(t, i, n, barrier) =
        IF ref = 0 THEN invoke_trap(o.m, TT.nullptr_excep)
        ELSE IF barrier /\ gc_trap(o.m, ref, o.v[1])
             THEN LowPriorityTrap(o.m, TT.gc_notify)
        ELSE SizeAndStack(WriteFrom(b.m, a, "B", vals), i.len, -(n + 1))
  BY <1>1, <1>2, <1>3, <1>4, <1>5 DEF doPutfield_quick, Then
<1>7. Done(s, invoke_trap(o.m, TT.nullptr_excep)) /\ Done(s, LowPriorityTrap(o.m, TT.gc_notify))
  <2>1. Good(s, o.m)
    BY <1>1 DEF GotAll
  <2>2. QED BY <2>1, AnyTrapDone, TrapNumbers
<1>8. Good(s, WriteFrom(b.m, a, "B", vals))
  BY <1>3, WriteFromGood DEF Got
<1>9. Done(s, SizeAndStack(WriteFrom(b.m, a, "B", vals), i.len, -(n + 1)))
  BY <1>8, SizeOfGood, GoodDone
<1>10. QED BY <1>6, <1>7, <1>9

LEMMA SetFour ==
    ASSUME NEW s, NEW t, Good(s, t), NEW a \in Words, NEW b \in Words, NEW c \in Words,
           NEW d \in Words
    PROVE  Good(s, [t EXCEPT !.const_pool = a, !.pc = b, !.vars = c, !.frame = d])
<1>1. PICK u : u = [t EXCEPT !.const_pool = a] /\ Good(s, u)
  BY SetRegisters
<1>2. PICK v : v = [u EXCEPT !.pc = b] /\ Good(s, v)
  BY <1>1, SetRegisters
<1>3. PICK w : w = [v EXCEPT !.vars = c] /\ Good(s, w)
  BY <1>2, SetRegisters
<1>4. Good(s, [w EXCEPT !.frame = d])
  BY <1>3, SetRegisters
<1>5. [w EXCEPT !.frame = d]
         = [t EXCEPT !.const_pool = a, !.pc = b, !.vars = c, !.frame = d]
  BY <1>1, <1>2, <1>3
<1>6. QED BY <1>4, <1>5

LEMMA MethodGood ==
    ASSUME NEW s, NEW t, Good(s, t), NEW desc \in Words, NEW nargs \in Int
    PROVE  Good(s, setupMethodCall(t, desc, nargs))
<1>1. PICK p : p = ReadWord(t, desc + Method.code, "B") /\ Got(s, p)
  BY WordGot
<1>2. PICK l : l = ReadWord(p.m, desc + Method.nlocals, "B") /\ Got(s, l)
  BY <1>1, WordGot DEF Got
<1>3. /\ t.optop \in Words /\ t.pc \in Words /\ t.vars \in Words /\ t.frame \in Words
      /\ t.const_pool \in Words /\ l.v \in Words
      /\ t.optop \in Int /\ t.pc \in Int /\ l.v \in Int
  BY <1>2, RegistersOf, Constants DEF Got
<1>4. PICK nf \in Words : nf = Word(t.optop - l.v)
  <2>1. t.optop - l.v \in Int
    BY <1>3
  <2>2. QED BY <2>1, WordTyped
<1>5. PICK no \in Words : no = Word(nf - 20) /\ no \in Int
  <2>1. nf - 20 \in Int
    BY Constants
  <2>2. QED BY <2>1, WordTyped, Constants
<1>6. PICK try : try = UpdateOptop(l.m, no) /\ Good(s, try)
  BY <1>2, <1>5, UpdateOptopGood DEF Got
<1>7. PICK back : back = UpdateOptop(try, t.optop) /\ Good(s, back)
  BY <1>3, <1>6, UpdateOptopGood
<1>8. PICK cp : cp = ReadWord(back, desc + Method.constpool, "B") /\ Got(s, cp)
  BY <1>7, WordGot
<1>9. PICK down : down = UpdateOptop(cp.m, t.optop - Align(l.v)) /\ Good(s, down)
  <2>1. t.optop - Align(l.v) \in Int
    BY <1>3, WordTyped
  <2>2. QED BY <1>8, <2>1, UpdateOptopGood DEF Got
<1>10. PICK ret \in Words, va \in Words : ret = Word(t.pc + 3) /\ va = Word(t.optop + nargs)
  <2>1. t.pc + 3 \in Int /\ t.optop + nargs \in Int
    BY <1>3
  <2>2. QED BY <2>1, WordTyped
<1> DEFINE puts == <<<<0, ret>>, <<-1, t.vars>>, <<-2, t.frame>>,
                     <<-3, t.const_pool>>, <<-4, desc>>>>
<1>11. PICK m1 : m1 = PutStack(down, puts) /\ Good(s, m1)
  <2>1. puts \in Seq(Int \X Words)
    BY <1>3
  <2> HIDE DEF puts
  <2>2. QED BY <1>9, <2>1, PutStackGood
<1>12. PICK n : n = [m1 EXCEPT !.const_pool = cp.v, !.pc = p.v, !.vars = va, !.frame = nf]
                /\ Good(s, n)
  <2>1. PICK cv \in Words, pv \in Words : cv = cp.v /\ pv = p.v
    BY <1>1, <1>8 DEF Got
  <2>2. Good(s, [m1 EXCEPT !.const_pool = cv, !.pc = pv, !.vars = va, !.frame = nf])
    BY <1>11, SetFour
  <2>3. QED BY <2>1, <2>2
<1>13. setupMethodCall(t, desc, nargs) =
         IF bAnyExceptionPending(try) THEN try ELSE UpdateOptop(n, no)
  BY <1>1, <1>2, <1>4, <1>5, <1>6, <1>7, <1>8, <1>9, <1>10, <1>11, <1>12
     DEF setupMethodCall, Then
<1>14. Good(s, UpdateOptop(n, no))
  BY <1>5, <1>12, UpdateOptopGood
<1>15. QED BY <1>6, <1>13, <1>14

LEMMA VirtualGot ==
    ASSUME NEW s, NEW t, Good(s, t), NEW ref, NEW index
    PROVE  Got(s, VirtualMethod(t, ref, index))
<1>1. PICK mv : mv = ReadWord(t, MASK_OBJREF(ref), "B") /\ Good(s, mv.m)
  BY WordGot DEF Got
<1>2. VirtualMethod(t, ref, index) = ReadWord(mv.m, MASK_MV_PTR(mv.v) + 4 * index, "B")
  BY <1>1 DEF VirtualMethod, Then
<1>3. QED BY <1>1, <1>2, WordGot

LEMMA ClassGot ==
    ASSUME NEW s, NEW t, Good(s, t), NEW ref
    PROVE  Got(s, ClassOfObject(t, ref))
<1>1. PICK mv : mv = ReadWord(t, MASK_OBJREF(ref), "B") /\ Good(s, mv.m)
  BY WordGot DEF Got
<1>2. ClassOfObject(t, ref) = ReadWord(mv.m, MASK_MV_PTR(mv.v) - 8, "B")
  BY <1>1 DEF ClassOfObject, Then
<1>3. QED BY <1>1, <1>2, WordGot

LEMMA InvokevirtualDone ==
    ASSUME NEW s, NEW t, Good(s, t), NEW i, InstructionOK(i)
    PROVE  Done(s, doInvokevirtual_quick(t, i))
<1>1. PICK o : o = ReadWord(t, OPTOP_OFFSET(t, i.y), "V") /\ Good(s, o.m)
  BY WordGot DEF Got
<1>2. PICK d : d = VirtualMethod(o.m, o.v, i.x) /\ Got(s, d)
  BY <1>1, VirtualGot
<1>3. doInvokevirtual_quick(t, i) =
        IF o.v = 0 THEN invoke_trap(o.m, TT.nullptr_excep)
        ELSE setupMethodCall(d.m, d.v, i.y * 4)
  BY <1>1, <1>2 DEF doInvokevirtual_quick, Then
<1>4. Done(s, invoke_trap(o.m, TT.nullptr_excep))
  BY <1>1, AnyTrapDone, TrapNumbers
<1>5. i.y * 4 \in Int
  BY Operands
<1>6. Done(s, setupMethodCall(d.m, d.v, i.y * 4))
  BY <1>2, <1>5, MethodGood, GoodDone DEF Got
<1>7. QED BY <1>3, <1>4, <1>6

LEMMA ArgsTyped ==
    ASSUME NEW a \in Words
    PROVE  ArgsWords(a) * 4 \in Int /\ a % 2^8 \in Int
<1>1. a \in Int
  BY Constants
<1>2. QED BY <1>1, SMT DEF ArgsWords

LEMMA InvokevirtualWideDone ==
    ASSUME NEW s, NEW t, Good(s, t), NEW i, InstructionOK(i)
    PROVE  Done(s, doInvokevirtual_quick_w(t, i))
<1>1. PICK c : c = ReadWord(t, CP_OFFSET(t, i.x), "C") /\ Good(s, c.m)
  BY WordGot DEF Got
<1>2. PICK a : a = ReadWord(c.m, c.v + Method.argsSize, "B") /\ Got(s, a)
  BY <1>1, WordGot
<1>3. PICK o : o = ReadWord(a.m, OPTOP_OFFSET(t, ArgsWords(a.v)), "V") /\ Good(s, o.m)
  BY <1>2, WordGot DEF Got
<1>4. PICK d : d = VirtualMethod(o.m, o.v, a.v \div 2^8) /\ Got(s, d)
  BY <1>3, VirtualGot
<1>5. doInvokevirtual_quick_w(t, i) =
        IF o.v = 0 THEN invoke_trap(o.m, TT.nullptr_excep)
        ELSE setupMethodCall(d.m, d.v, ArgsWords(a.v) * 4)
  BY <1>1, <1>2, <1>3, <1>4 DEF doInvokevirtual_quick_w, Then
<1>6. Done(s, invoke_trap(o.m, TT.nullptr_excep))
  BY <1>3, AnyTrapDone, TrapNumbers
<1>7. ArgsWords(a.v) * 4 \in Int
  BY <1>2, ArgsTyped DEF Got
<1>8. Done(s, setupMethodCall(d.m, d.v, ArgsWords(a.v) * 4))
  BY <1>4, <1>7, MethodGood, GoodDone DEF Got
<1>9. QED BY <1>5, <1>6, <1>8

LEMMA CallDone ==
    ASSUME NEW s, NEW t, Good(s, t), NEW desc \in Words
    PROVE  Done(s, CallOnObject(t, desc))
<1>1. PICK a : a = ReadWord(t, desc + Method.argsSize, "B") /\ Got(s, a)
  BY WordGot
<1>2. PICK o : o = ReadWord(a.m, OPTOP_OFFSET(t, ArgsWords(a.v)), "V") /\ Good(s, o.m)
  BY <1>1, WordGot DEF Got
<1>3. CallOnObject(t, desc) =
        IF o.v = 0 THEN invoke_trap(o.m, TT.nullptr_excep)
        ELSE setupMethodCall(o.m, desc, ArgsWords(a.v) * 4)
  BY <1>1, <1>2 DEF CallOnObject, Then
<1>4. Done(s, invoke_trap(o.m, TT.nullptr_excep))
  BY <1>2, AnyTrapDone, TrapNumbers
<1>5. ArgsWords(a.v) * 4 \in Int
  BY <1>1, ArgsTyped DEF Got
<1>6. Done(s, setupMethodCall(o.m, desc, ArgsWords(a.v) * 4))
  BY <1>2, <1>5, MethodGood, GoodDone
<1>7. QED BY <1>3, <1>4, <1>6

LEMMA InvokenonvirtualDone ==
    ASSUME NEW s, NEW t, Good(s, t), NEW i, InstructionOK(i)
    PROVE  Done(s, doInvokenonvirtual_quick(t, i))
<1>1. PICK c : c = ReadWord(t, CP_OFFSET(t, i.x), "C") /\ Got(s, c)
  BY WordGot
<1>2. doInvokenonvirtual_quick(t, i) = CallOnObject(c.m, c.v)
  BY <1>1 DEF doInvokenonvirtual_quick, Then
<1>3. QED BY <1>1, <1>2, CallDone DEF Got

LEMMA InvokesuperDone ==
    ASSUME NEW s, NEW t, Good(s, t), NEW i, InstructionOK(i)
    PROVE  Done(s, doInvokesuper_quick(t, i))
<1> DEFINE f == ReadWord(t, t.frame - 16, "V")
           k == ReadWord(f.m, f.v + Method.class, "B")
           c == ReadWord(k.m, k.v + 4 + Class.superClass, "B")
           h == ReadWord(c.m, c.v + 4 + Class.objHintBlk, "B")
           d == ReadWord(h.m, h.v + 8 + Hint.methods + 4 * i.x, "B")
<1>1. doInvokesuper_quick(t, i) = CallOnObject(d.m, d.v)
  BY DEF doInvokesuper_quick, Then
<1> HIDE DEF f, k, c, h, d
<1>2. Good(s, f.m)
  BY WordGot DEF f, Got
<1>3. Good(s, k.m)
  BY <1>2, WordGot DEF k, Got
<1>4. Good(s, c.m)
  BY <1>3, WordGot DEF c, Got
<1>5. Good(s, h.m)
  BY <1>4, WordGot DEF h, Got
<1>6. Got(s, d)
  BY <1>5, WordGot DEF d
<1>7. QED BY <1>1, <1>6, CallDone DEF Got

LEMMA InvokestaticGood ==
    ASSUME NEW s, NEW t, Good(s, t), NEW i, InstructionOK(i)
    PROVE  Good(s, doInvokestatic_quick(t, i))
<1>1. PICK c : c = ReadWord(t, CP_OFFSET(t, i.x), "C") /\ Got(s, c)
  BY WordGot
<1>2. PICK a : a = ReadWord(c.m, c.v + Method.argsSize, "M") /\ Got(s, a)
  BY <1>1, WordGot DEF Got
<1>3. PICK n \in Int : n = a.v % 2^8
  BY <1>2, ArgsTyped DEF Got
<1>4. doInvokestatic_quick(t, i) = setupMethodCall(a.m, c.v, n)
  BY <1>1, <1>2, <1>3 DEF doInvokestatic_quick, Then
<1>5. QED BY <1>1, <1>2, <1>4, MethodGood DEF Got

LEMMA CurrentClassGood ==
    ASSUME NEW s, NEW t, Good(s, t), NEW i, InstructionOK(i)
    PROVE  Good(s, doGetCurrentClass(t, i))
<1>1. PICK f : f = ReadWord(t, t.frame - 16, "V") /\ Good(s, f.m)
  BY WordGot DEF Got
<1>2. PICK k : k = ReadWord(f.m, f.v + Method.class, "B") /\ Got(s, k)
  BY <1>1, WordGot DEF Got
<1>3. doGetCurrentClass(t, i) = Result(k.m, i, 0, 1, <<k.v>>)
  BY <1>1, <1>2 DEF doGetCurrentClass, Then
<1>4. Gives(<<k.v>>, 1)
  BY <1>2, GivesOne DEF Got
<1>5. QED BY <1>2, <1>3, <1>4, ResultGood DEF Got

LEMMA AddTyped ==
    ASSUME NEW w \in Words, NEW n \in Int
    PROVE  Word(w + n) \in Words
<1>1. w + n \in Int
  BY Constants
<1>2. QED BY <1>1, WordTyped

LEMMA TableSwitchGood ==
    ASSUME NEW s, NEW t, Good(s, t)
    PROVE  Good(s, doTableSwitch(t))
<1> DEFINE a == Align(t.pc) + 4
           h == ReadAll(t, <<a, a + 4, a + 8>>, "Z")
           o == Top(h.m, 1)
           index == Signed(o.v[1])
           low == Signed(h.v[2])
           e == IF index < low \/ index > Signed(h.v[3])
                THEN [m |-> o.m, v |-> h.v[1]]
                ELSE ReadWord(o.m, a + 12 + 4 * (index - low), "Z")
           w == Word(e.m.pc + e.v)
<1>1. doTableSwitch(t) = SizeAndStack([e.m EXCEPT !.pc = w], 0, -1)
  BY DEF doTableSwitch, Then
<1> HIDE DEF a
<1>2. GotAll(s, h, 3)
  <2> DEFINE addrs == <<a, a + 4, a + 8>>
  <2>1. DOMAIN addrs = 1..3
    OBVIOUS
  <2> HIDE DEF addrs
  <2>2. GotAll(s, ReadAll(t, addrs, "Z"), 3)
    BY <2>1, AllGot
  <2>3. QED BY <2>2 DEF addrs
<1> HIDE DEF h
<1>3. Good(s, h.m) /\ h.v[1] \in Words
  BY <1>2, TopWords
<1>4. Good(s, o.m)
  BY <1>3, TopGot DEF GotAll
<1> HIDE DEF o, index, low
<1>5. Got(s, e)
  BY <1>3, <1>4, WordGot DEF Got
<1> HIDE DEF e
<1>6. w \in Words
  <2>1. e.m.pc \in Words
    BY <1>5, RegistersOf DEF Got
  <2>2. e.v \in Int
    BY <1>5, Constants DEF Got
  <2>3. QED BY <2>1, <2>2, AddTyped
<1> HIDE DEF w
<1>7. Good(s, [e.m EXCEPT !.pc = w])
  BY <1>5, <1>6, SetRegisters DEF Got
<1>8. QED BY <1>1, <1>7, SizeGood

LEMMA CheckCastDone ==
    ASSUME NEW s, NEW t, Good(s, t), NEW i, InstructionOK(i)
    PROVE  Done(s, doCheckCast_quick(t, i))
<1> DEFINE o == Top(t, 1)
           c == ReadWord(o.m, CP_OFFSET(t, i.x), "C")
           k == ClassOfObject(c.m, o.v[1])
<1>1. doCheckCast_quick(t, i) =
        IF o.v[1] = 0 THEN SizeAndStack(o.m, i.len, 0)
        ELSE IF c.v = k.v THEN SizeAndStack(k.m, i.len, 0)
        ELSE LowPriorityTrap(k.m, i.code)
  BY DEF doCheckCast_quick, Then
<1> HIDE DEF o, c, k
<1>2. Good(s, o.m)
  BY TopGot DEF o, GotAll
<1>3. Good(s, c.m)
  BY <1>2, WordGot DEF c, Got
<1>4. Good(s, k.m)
  BY <1>3, ClassGot DEF k, Got
<1>5. Done(s, SizeAndStack(o.m, i.len, 0)) /\ Done(s, SizeAndStack(k.m, i.len, 0))
  BY <1>2, <1>4, SizeOfGood, GoodDone
<1>6. Done(s, LowPriorityTrap(k.m, i.code))
  BY <1>4, AnyTrapDone, Operands
<1>7. QED BY <1>1, <1>5, <1>6

LEMMA InstanceOfDone ==
    ASSUME NEW s, NEW t, Good(s, t), NEW i, InstructionOK(i)
    PROVE  Done(s, doInstanceOf_quick(t, i))
<1> DEFINE o == Top(t, 1)
           c == ReadWord(o.m, CP_OFFSET(t, i.x), "C")
           k == ClassOfObject(c.m, o.v[1])
<1>1. doInstanceOf_quick(t, i) =
        IF o.v[1] = 0 THEN Result(o.m, i, 1, 1, <<0>>)
        ELSE IF c.v = k.v THEN Result(k.m, i, 1, 1, <<1>>)
        ELSE LowPriorityTrap(k.m, i.code)
  BY DEF doInstanceOf_quick, Then
<1> HIDE DEF o, c, k
<1>2. Good(s, o.m)
  BY TopGot DEF o, GotAll
<1>3. Good(s, c.m)
  BY <1>2, WordGot DEF c, Got
<1>4. Good(s, k.m)
  BY <1>3, ClassGot DEF k, Got
<1>5. Gives(<<0>>, 1) /\ Gives(<<1>>, 1)
  BY Small, GivesOne
<1>6. Done(s, Result(o.m, i, 1, 1, <<0>>)) /\ Done(s, Result(k.m, i, 1, 1, <<1>>))
  BY <1>2, <1>4, <1>5, ResultGood, GoodDone
<1>7. Done(s, LowPriorityTrap(k.m, i.code))
  BY <1>4, AnyTrapDone, Operands
<1>8. QED BY <1>1, <1>6, <1>7

LEMMA NonnullDone ==
    ASSUME NEW s, NEW t, Good(s, t), NEW i, InstructionOK(i)
    PROVE  Done(s, doNonnull_quick(t, i))
<1> DEFINE o == Top(t, 1)
<1>1. doNonnull_quick(t, i) =
        IF o.v[1] = 0 THEN invoke_trap(o.m, TT.nullptr_excep)
        ELSE SizeAndStack(o.m, i.len, -1)
  BY DEF doNonnull_quick, Then
<1> HIDE DEF o
<1>2. Good(s, o.m)
  BY TopGot DEF o, GotAll
<1>3. Done(s, invoke_trap(o.m, TT.nullptr_excep))
  BY <1>2, AnyTrapDone, TrapNumbers
<1>4. Done(s, SizeAndStack(o.m, i.len, -1))
  BY <1>2, SizeOfGood, GoodDone
<1>5. QED BY <1>1, <1>3, <1>4

(* Monitors: the lock registers are of the type of the storage.            *)
LEMMA CountTyped ==
    ASSUME NEW c \in Words, NEW d \in {1, -1}
    PROVE  CountBy(c, d) \in Words
<1>1. c \in Int /\ 0 <= c /\ c < 65536
  BY Constants, SMT
<1>2. PICK q \in Int, x \in Int : c = 256 * q + x /\ 0 <= x /\ x < 256 /\ x = c % 256
  BY <1>1, SMT
<1>3. PICK y \in Int : y = (x + d) % 256 /\ 0 <= y /\ y < 256
  BY <1>2, SMT
<1>4. 2^8 = 256
  OBVIOUS
<1>5. CountBy(c, d) = (c - x) + y
  BY <1>2, <1>3, <1>4, SMT DEF CountBy, Count
<1>6. 0 <= (c - x) + y /\ (c - x) + y < 65536 /\ (c - x) + y \in Int
  BY <1>1, <1>2, <1>3, SMT
<1>7. QED BY <1>5, <1>6, Constants, SMT

LEMMA SetLocks ==
    ASSUME NEW s, NEW t, Good(s, t), NEW f \in [LockRegs -> Words]
    PROVE  Good(s, [t EXCEPT !.lockCount = f]) /\ Good(s, [t EXCEPT !.lockAddr = f])
<1>1. StorageOK("lockCount", f) /\ StorageOK("lockAddr", f)
  BY DEF StorageOK
<1>2. "lockCount" \in OtherFields \ {"exc"} /\ "lockAddr" \in OtherFields \ {"exc"}
  BY DEF OtherFields
<1>3. QED BY <1>1, <1>2, SetStorage

LEMMA LocksOf ==
    ASSUME NEW s, NEW t, Good(s, t)
    PROVE  t.lockCount \in [LockRegs -> Words] /\ t.lockAddr \in [LockRegs -> Words]
  BY RegistersTyped DEF MachineOK

LEMMA MonitorEnterDone ==
    ASSUME NEW s, NEW t, Good(s, t), NEW i, InstructionOK(i)
    PROVE  Done(s, doMonitorEnter(t, i))
<1> DEFINE o == Top(t, 1)
           ref == MASK_OBJREF(o.v[1])
           hits == Hits(o.m, ref)
           counts == [k \in LockRegs |-> IF k \in hits THEN CountBy(o.m.lockCount[k], 1)
                                         ELSE o.m.lockCount[k]]
           n == [o.m EXCEPT !.lockCount = counts]
           h == ReadWord(o.m, ref, "B")
           a == AcquireFree(h.m, ref)
<1>1. doMonitorEnter(t, i) =
        IF o.v[1] = 0 THEN invoke_trap(o.m, TT.nullptr_excep)
        ELSE IF \E k \in hits : Count(n.lockCount[k]) = 0
             THEN LowPriorityTrap(n, TT.lock_count_overflow_trap)
        ELSE IF hits # {} THEN SizeAndStack(n, i.len, -1)
        ELSE IF ~flag_fast_monitors \/ FreeRegs(o.m) = {}
             THEN LowPriorityTrap(o.m, TT.lock_enter_miss_trap)
        ELSE IF h.v % 2 = 0 THEN SizeAndStack(a, i.len, -1)
        ELSE LowPriorityTrap(h.m, TT.lock_enter_miss_trap)
  BY DEF doMonitorEnter, Then
<1> HIDE DEF o
<1>2. Good(s, o.m) /\ o.v[1] \in Words
  BY TopGot, TopWords DEF o
<1>3. Good(s, n)
  <2>1. o.m.lockCount \in [LockRegs -> Words]
    BY <1>2, LocksOf
  <2> HIDE DEF hits
  <2>2. counts \in [LockRegs -> Words]
    BY <2>1, CountTyped
  <2> HIDE DEF counts
  <2>3. QED BY <1>2, <2>2, SetLocks
<1>4. ref \in Words
  BY <1>2, MaskTyped
<1> HIDE DEF ref, n, hits
<1>5. Good(s, h.m)
  BY <1>2, WordGot DEF Got
<1> HIDE DEF h
<1>6. Good(s, a)
  <2> DEFINE k == CHOOSE k \in FreeRegs(h.m) : \A l \in FreeRegs(h.m) : k <= l
             addrs == [h.m.lockAddr EXCEPT ![k] = ref]
             locks == [h.m.lockCount EXCEPT ![k] = TopBit + 1]
  <2>1. h.m.lockCount \in [LockRegs -> Words] /\ h.m.lockAddr \in [LockRegs -> Words]
    BY <1>5, LocksOf
  <2> HIDE DEF k
  <2>2. TopBit + 1 \in Words
    BY Constants, SMT
  <2>3. addrs \in [LockRegs -> Words] /\ locks \in [LockRegs -> Words]
    BY <1>4, <2>1, <2>2
  <2>4. a = [h.m EXCEPT !.lockAddr = addrs, !.lockCount = locks]
    BY DEF AcquireFree, k
  <2> HIDE DEF addrs, locks
  <2>5. PICK u : u = [h.m EXCEPT !.lockAddr = addrs] /\ Good(s, u)
    BY <1>5, <2>3, SetLocks
  <2>6. Good(s, [u EXCEPT !.lockCount = locks])
    BY <2>3, <2>5, SetLocks
  <2>7. [u EXCEPT !.lockCount = locks] = a
    BY <2>4, <2>5
  <2>8. QED BY <2>6, <2>7
<1> HIDE DEF a
<1>7. /\ Done(s, invoke_trap(o.m, TT.nullptr_excep))
      /\ Done(s, LowPriorityTrap(n, TT.lock_count_overflow_trap))
      /\ Done(s, LowPriorityTrap(o.m, TT.lock_enter_miss_trap))
      /\ Done(s, LowPriorityTrap(h.m, TT.lock_enter_miss_trap))
  <2>1. Done(s, invoke_trap(o.m, TT.nullptr_excep))
    BY <1>2, <1>3, <1>5, AnyTrapDone, TrapNumbers
  <2>2. Done(s, LowPriorityTrap(n, TT.lock_count_overflow_trap))
    BY <1>2, <1>3, <1>5, AnyTrapDone, TrapNumbers
  <2>3. Done(s, LowPriorityTrap(o.m, TT.lock_enter_miss_trap))
    BY <1>2, <1>3, <1>5, AnyTrapDone, TrapNumbers
  <2>4. Done(s, LowPriorityTrap(h.m, TT.lock_enter_miss_trap))
    BY <1>2, <1>3, <1>5, AnyTrapDone, TrapNumbers
  <2>5. QED BY <2>1, <2>2, <2>3, <2>4
<1>8. Done(s, SizeAndStack(n, i.len, -1)) /\ Done(s, SizeAndStack(a, i.len, -1))
  BY <1>3, <1>6, SizeOfGood, GoodDone
<1>9. QED BY <1>1, <1>7, <1>8

LEMMA MonitorExitDone ==
    ASSUME NEW s, NEW t, Good(s, t), NEW i, InstructionOK(i)
    PROVE  Done(s, doMonitorExit(t, i))
<1> DEFINE o == Top(t, 1)
           hits == Hits(o.m, MASK_OBJREF(o.v[1]))
           new == [k \in LockRegs |-> IF k \in hits THEN CountBy(o.m.lockCount[k], -1)
                                      ELSE o.m.lockCount[k]]
           free == {k \in hits : flag_fast_monitors /\ Released(new[k])}
           counts == [k \in LockRegs |-> IF k \in free THEN 0 ELSE new[k]]
           addrs == [k \in LockRegs |-> IF k \in free THEN 0 ELSE o.m.lockAddr[k]]
           n == [o.m EXCEPT !.lockCount = counts, !.lockAddr = addrs]
<1>1. doMonitorExit(t, i) =
        IF o.v[1] = 0 THEN invoke_trap(o.m, TT.nullptr_excep)
        ELSE IF \E k \in hits : Count(new[k]) = 2^8 - 1
             THEN LowPriorityTrap(n, TT.lock_count_overflow_trap)
        ELSE IF \E k \in hits : Count(new[k]) = 0 /\ Bit(new[k], 14)
             THEN LowPriorityTrap(n, TT.lock_release_trap)
        ELSE IF hits = {} THEN LowPriorityTrap(n, TT.lock_exit_miss_trap)
        ELSE SizeAndStack(n, i.len, -1)
  BY DEF doMonitorExit, Then
<1> HIDE DEF o
<1>2. Good(s, o.m)
  BY TopGot DEF o, GotAll
<1>3. Good(s, n)
  <2>1. o.m.lockCount \in [LockRegs -> Words] /\ o.m.lockAddr \in [LockRegs -> Words]
    BY <1>2, LocksOf
  <2> HIDE DEF hits
  <2>2. new \in [LockRegs -> Words]
    BY <2>1, CountTyped
  <2> HIDE DEF new, free
  <2>3. counts \in [LockRegs -> Words] /\ addrs \in [LockRegs -> Words]
    BY <2>1, <2>2, Small
  <2> HIDE DEF counts, addrs
  <2>4. PICK u : u = [o.m EXCEPT !.lockCount = counts] /\ Good(s, u)
    BY <1>2, <2>3, SetLocks
  <2>5. Good(s, [u EXCEPT !.lockAddr = addrs])
    BY <2>3, <2>4, SetLocks
  <2>6. [u EXCEPT !.lockAddr = addrs] = n
    BY <2>4
  <2>7. QED BY <2>5, <2>6
<1> HIDE DEF n, hits, new
<1>4. /\ Done(s, invoke_trap(o.m, TT.nullptr_excep))
      /\ Done(s, LowPriorityTrap(n, TT.lock_count_overflow_trap))
      /\ Done(s, LowPriorityTrap(n, TT.lock_release_trap))
      /\ Done(s, LowPriorityTrap(n, TT.lock_exit_miss_trap))
  <2>1. Done(s, invoke_trap(o.m, TT.nullptr_excep))
    BY <1>2, <1>3, AnyTrapDone, TrapNumbers
  <2>2. Done(s, LowPriorityTrap(n, TT.lock_count_overflow_trap))
    BY <1>2, <1>3, AnyTrapDone, TrapNumbers
  <2>3. Done(s, LowPriorityTrap(n, TT.lock_release_trap))
    BY <1>2, <1>3, AnyTrapDone, TrapNumbers
  <2>4. Done(s, LowPriorityTrap(n, TT.lock_exit_miss_trap))
    BY <1>2, <1>3, AnyTrapDone, TrapNumbers
  <2>5. QED BY <2>1, <2>2, <2>3, <2>4
<1>5. Done(s, SizeAndStack(n, i.len, -1))
  BY <1>3, SizeOfGood, GoodDone
<1>6. QED BY <1>1, <1>4, <1>5

-----------------------------------------------------------------------------
(***************************************************************************)
(* Arrays.                                                                 *)
(***************************************************************************)
ElementOK(s, e) == /\ e.ok => Good(s, e.m) /\ e.storage \in Words /\ e.index \in Int
                   /\ ~e.ok => Done(s, e.m)

LEMMA ElementTyped ==
    ASSUME NEW s, NEW t, Good(s, t), NEW k
    PROVE  ElementOK(s, ArrayElement(t, k))
<1> DEFINE r == ReadWord(t, OPTOP_OFFSET(t, k + 1), "O")
           b == StorageAddr(r.m, r.v)
           x == ReadWord(b.m, OPTOP_OFFSET(t, k), "O")
           l == ReadWord(x.m, b.v, "M")
           index == Signed(x.v)
           none == [ok |-> FALSE, m |-> invoke_trap(r.m, TT.nullptr_excep)]
           out  == [ok |-> FALSE, m |-> invoke_trap(l.m, TT.indexoutofbnds_excep)]
           in   == [ok |-> TRUE, m |-> l.m, storage |-> b.v, index |-> index]
           e == ArrayElement(t, k)
<1>1. e = IF r.v = 0 THEN none
          ELSE IF index < 0 \/ index >= Signed(MASK_ARRAY_LENGTH(l.v)) THEN out ELSE in
  BY DEF ArrayElement, Then
<1> HIDE DEF e, r
<1>2. Got(s, r)
  BY WordGot DEF r
<1> HIDE DEF b
<1>3. Got(s, b)
  BY <1>2, StorageGot DEF b, Got
<1> HIDE DEF x
<1>4. Got(s, x)
  BY <1>3, WordGot DEF x, Got
<1> HIDE DEF l
<1>5. Got(s, l)
  BY <1>4, WordGot DEF l, Got
<1>6. index \in Int
  <2>1. x.v \in Int
    BY <1>4, Constants DEF Got
  <2>2. QED BY <2>1, WordTyped
<1> HIDE DEF index
<1>7. Done(s, invoke_trap(r.m, TT.nullptr_excep)) /\ Done(s, invoke_trap(l.m, TT.indexoutofbnds_excep))
  BY <1>2, <1>5, AnyTrapDone, TrapNumbers DEF Got
<1>8. CASE e = none
  BY <1>7, <1>8 DEF ElementOK, e
<1>9. CASE e = out
  BY <1>7, <1>9 DEF ElementOK, e
<1>10. CASE e = in
  BY <1>3, <1>5, <1>6, <1>10 DEF ElementOK, Got, e
<1>11. QED BY <1>1, <1>8, <1>9, <1>10

(* The part of a word a type of access takes, widened.                     *)
LEMMA SizeTyped ==
    ASSUME NEW ty \in DOMAIN SizeOf
    PROVE  /\ SizeOf[ty] \in 0..2 /\ 2^SizeOf[ty] \in Nat
           /\ ty \in {"short", "byte"} => SizeOf[ty] \in 0..1
<1>1. SizeOf[ty] \in 0..2 /\ (ty \in {"short", "byte"} => SizeOf[ty] \in 0..1)
  BY DEF SizeOf
<1>2. SizeOf[ty] \in 0..16
  BY <1>1
<1>3. 2^SizeOf[ty] \in Nat \ {0}
  BY <1>2, Powers
<1>4. QED BY <1>1, <1>3

LEMMA WidenTyped ==
    ASSUME NEW ty \in {"short", "byte"}, NEW w \in Words, w < 2^BitsOf(SizeOf[ty])
    PROVE  SignExtend(w, BitsOf(SizeOf[ty])) \in Words
<1>1. CASE ty = "short"
  <2>1. BitsOf(SizeOf[ty]) = 8
    BY <1>1 DEF SizeOf, BitsOf, ByteBits
  <2>2. w < 2^8
    BY <2>1, Zenon
  <2>3. w < 256
    BY <2>2, SMT
  <2>4. SignExtend(w, 8) \in Words
    BY <2>3, SignExtendTyped
  <2>5. QED BY <2>1, <2>4, Zenon
<1>2. CASE ty = "byte"
  <2>1. BitsOf(SizeOf[ty]) = 4
    BY <1>2 DEF SizeOf, BitsOf, ByteBits
  <2>2. w < 2^4
    BY <2>1, Zenon
  <2>3. w < 16
    BY <2>2, SMT
  <2>4. SignExtend(w, 4) \in Words
    BY <2>3, SignExtendTyped
  <2>5. QED BY <2>1, <2>4, Zenon
<1>3. QED BY <1>1, <1>2

LEMMA PartBelow ==
    ASSUME NEW w \in Words, NEW a \in Int, NEW size \in 0..2
    PROVE  GetPart(w, a, size) < 2^BitsOf(size)
<1> DEFINE low == 2^ShiftIn(a, size)
           n == 2^BitsOf(size)
<1>1. GetPart(w, a, size) = (w \div low) % n
  BY DEF GetPart
<1>2. low \in Nat \ {0} /\ n \in Nat \ {0}
  <2>1. \/ n = 16 /\ low \in {1, 16, 256, 4096}
        \/ n = 256 /\ low \in {1, 256}
        \/ n = 65536 /\ low = 1
    BY ShiftTyped, SMT
  <2> HIDE DEF low, n
  <2>2. QED BY <2>1, SMT
<1>3. w \in Nat
  BY WordTyped
<1> HIDE DEF low, n
<1>4. (w \div low) % n < n
  BY <1>2, <1>3
<1>5. QED BY <1>1, <1>4 DEF n

LEMMA ReadPartGot ==
    ASSUME NEW s, NEW t, Good(s, t), NEW a \in Int, NEW ty \in DOMAIN SizeOf, NEW c
    PROVE  Got(s, ReadPart(t, a, ty, c))
<1> DEFINE r == ReadWord(t, a, c)
           p == GetPart(r.v, Word(a), SizeOf[ty])
           q == IF ty \in {"short", "byte"} THEN SignExtend(p, BitsOf(SizeOf[ty])) ELSE p
<1>1. ReadPart(t, a, ty, c) = [m |-> r.m, v |-> q]
  BY DEF ReadPart, Then
<1> HIDE DEF r
<1>2. Got(s, r)
  BY WordGot DEF r
<1>3. PICK w \in Words : w = r.v
  BY <1>2 DEF Got
<1>4. PICK z \in Int : z = Word(a)
  BY WordTyped, Constants
<1>5. p \in Words /\ p < 2^BitsOf(SizeOf[ty])
  <2>1. SizeOf[ty] \in 0..2
    BY SizeTyped
  <2>2. PICK size \in 0..2 : size = SizeOf[ty]
    BY <2>1
  <2>3. GetPart(w, z, size) \in Words /\ GetPart(w, z, size) < 2^BitsOf(size)
    BY PartTyped, PartBelow
  <2>4. QED BY <1>3, <1>4, <2>2, <2>3
<1> HIDE DEF p
<1>6. q \in Words
  BY <1>5, WidenTyped
<1> HIDE DEF q
<1>7. QED BY <1>1, <1>2, <1>6 DEF Got

LEMMA TypeOf ==
    ASSUME NEW i, InstructionOK(i), i.op \in WithType
    PROVE  i.t \in DOMAIN SizeOf
  BY DEF InstructionOK

LEMMA ElementAt ==
    ASSUME NEW e, e.storage \in Words, e.index \in Int
    PROVE  /\ LongElement(e) \in Int /\ LongElement(e) + 4 \in Int
           /\ \A ty \in DOMAIN SizeOf : ElementAddr(e, ty) \in Int
<1>1. e.storage \in Int
  BY Constants
<1>2. ASSUME NEW ty \in DOMAIN SizeOf PROVE ElementAddr(e, ty) \in Int
  <2>1. PICK p \in Nat : p = 2^SizeOf[ty]
    BY SizeTyped
  <2>2. ElementAddr(e, ty) = e.storage + 4 + e.index * p
    BY <2>1 DEF ElementAddr
  <2>3. QED BY <1>1, <2>2
<1>3. QED BY <1>1, <1>2 DEF LongElement

LEMMA ArrayLengthDone ==
    ASSUME NEW s, NEW t, Good(s, t), NEW i, InstructionOK(i)
    PROVE  Done(s, doArrayLength(t, i))
<1> DEFINE o == Top(t, 1)
           b == StorageAddr(o.m, o.v[1])
           l == ReadWord(b.m, b.v, "M")
           v == MASK_ARRAY_LENGTH(l.v)
<1>1. doArrayLength(t, i) = IF o.v[1] = 0 THEN invoke_trap(o.m, TT.nullptr_excep)
                            ELSE Result(l.m, i, 1, 1, <<v>>)
  BY DEF doArrayLength, Then
<1> HIDE DEF o
<1>2. Good(s, o.m) /\ o.v[1] \in Words
  BY TopGot, TopWords DEF o
<1> HIDE DEF b
<1>3. Got(s, b)
  BY <1>2, StorageGot DEF b
<1> HIDE DEF l
<1>4. Got(s, l)
  BY <1>3, WordGot DEF l, Got
<1>5. v \in Words
  BY <1>4, MaskTyped DEF Got
<1> HIDE DEF v
<1>6. Gives(<<v>>, 1)
  BY <1>5, GivesOne
<1>7. Done(s, invoke_trap(o.m, TT.nullptr_excep))
  BY <1>2, AnyTrapDone, TrapNumbers
<1>8. Done(s, Result(l.m, i, 1, 1, <<v>>))
  BY <1>4, <1>6, ResultGood, GoodDone DEF Got
<1>9. QED BY <1>1, <1>7, <1>8

LEMMA ArrayLoadDone ==
    ASSUME NEW s, NEW t, Good(s, t), NEW i, InstructionOK(i), i.t \in DOMAIN SizeOf
    PROVE  Done(s, doArrayLoad(t, i))
<1> DEFINE e == ArrayElement(t, 1)
           r == ReadPart(e.m, ElementAddr(e, i.t), i.t, "M")
<1>1. doArrayLoad(t, i) = IF ~e.ok THEN e.m ELSE Result(r.m, i, 2, 1, <<r.v>>)
  BY DEF doArrayLoad, Then
<1> HIDE DEF e
<1>2. ElementOK(s, e)
  BY ElementTyped DEF e
<1>3. CASE ~e.ok
  BY <1>1, <1>2, <1>3 DEF ElementOK
<1>4. CASE e.ok
  <2>1. Good(s, e.m) /\ ElementAddr(e, i.t) \in Int
    BY <1>2, <1>4, ElementAt DEF ElementOK
  <2>2. Got(s, r)
    BY <2>1, ReadPartGot
  <2> HIDE DEF r
  <2>3. Gives(<<r.v>>, 1)
    BY <2>2, GivesOne DEF Got
  <2>4. Done(s, Result(r.m, i, 2, 1, <<r.v>>))
    BY <2>2, <2>3, ResultGood, GoodDone DEF Got
  <2>5. QED BY <1>1, <1>4, <2>4
<1>5. QED BY <1>3, <1>4

LEMMA ArrayStoreDone ==
    ASSUME NEW s, NEW t, Good(s, t), NEW i, InstructionOK(i), i.t \in DOMAIN SizeOf
    PROVE  Done(s, doArrayStore(t, i))
<1> DEFINE e == ArrayElement(t, 2)
           r == ReadWord(e.m, OPTOP_OFFSET(e.m, 1), "O")
           a == Word(ElementAddr(e, i.t))
           u == javaMemWrite(r.m, a, r.v, SizeOf[i.t], "M")
<1>1. doArrayStore(t, i) = IF ~e.ok THEN e.m ELSE SizeAndStack(u, i.len, -3)
  BY DEF doArrayStore, Then
<1> HIDE DEF e
<1>2. ElementOK(s, e)
  BY ElementTyped DEF e
<1>3. CASE ~e.ok
  BY <1>1, <1>2, <1>3 DEF ElementOK
<1>4. CASE e.ok
  <2>1. Good(s, e.m) /\ ElementAddr(e, i.t) \in Int
    BY <1>2, <1>4, ElementAt DEF ElementOK
  <2>2. a \in Int
    BY <2>1, WordTyped, Constants
  <2> HIDE DEF r, a
  <2>3. Got(s, r)
    BY <2>1, WordGot DEF r
  <2>4. PICK w \in Words : w = r.v
    BY <2>3 DEF Got
  <2>5. PICK size \in 0..2 : size = SizeOf[i.t]
    BY SizeTyped
  <2>6. u = javaMemWrite(r.m, a, w, size, "M")
    BY <2>4, <2>5
  <2> HIDE DEF u
  <2>7. Good(s, u)
    BY <2>2, <2>3, <2>6, WriteGood DEF Got
  <2>8. Good(s, SizeAndStack(u, i.len, -3))
    BY <2>7, SizeOfGood
  <2>9. QED BY <1>1, <1>4, <2>8, GoodDone
<1>5. QED BY <1>3, <1>4

LEMMA LongLoadDone ==
    ASSUME NEW s, NEW t, Good(s, t), NEW i, InstructionOK(i)
    PROVE  Done(s, do64bArrayLoad(t, i))
<1> DEFINE e == ArrayElement(t, 1)
           a == LongElement(e)
           hi == ReadWord(e.m, a, "M")
           p == PutStack(hi.m, <<<<1, hi.v>>>>)
           lo == ReadWord(p, a + 4, "M")
           q == PutStack(lo.m, <<<<2, lo.v>>>>)
<1>1. do64bArrayLoad(t, i) = IF ~e.ok THEN e.m ELSE SizeAndStack(q, i.len, 0)
  BY DEF do64bArrayLoad, Then
<1> HIDE DEF e
<1>2. ElementOK(s, e)
  BY ElementTyped DEF e
<1>3. CASE ~e.ok
  BY <1>1, <1>2, <1>3 DEF ElementOK
<1>4. CASE e.ok
  <2>1. Good(s, e.m)
    BY <1>2, <1>4 DEF ElementOK
  <2> HIDE DEF hi, a
  <2>2. Got(s, hi)
    BY <2>1, WordGot DEF hi
  <2> HIDE DEF p
  <2>3. Good(s, p)
    BY <2>2, PutOneGood DEF p, Got
  <2> HIDE DEF lo
  <2>4. Got(s, lo)
    BY <2>3, WordGot DEF lo
  <2> HIDE DEF q
  <2>5. Good(s, q)
    BY <2>4, PutOneGood DEF q, Got
  <2>6. Good(s, SizeAndStack(q, i.len, 0))
    BY <2>5, SizeOfGood
  <2>7. QED BY <1>1, <1>4, <2>6, GoodDone
<1>5. QED BY <1>3, <1>4

LEMMA LongStoreDone ==
    ASSUME NEW s, NEW t, Good(s, t), NEW i, InstructionOK(i)
    PROVE  Done(s, do64bArrayStore(t, i))
<1> DEFINE e == ArrayElement(t, 3)
           r == Top(e.m, 2)
           a == LongElement(e)
           u == WriteFrom(r.m, a, "M", r.v)
<1>1. do64bArrayStore(t, i) = IF ~e.ok THEN e.m ELSE SizeAndStack(u, i.len, -4)
  BY DEF do64bArrayStore, Then
<1> HIDE DEF e
<1>2. ElementOK(s, e)
  BY ElementTyped DEF e
<1>3. CASE ~e.ok
  BY <1>1, <1>2, <1>3 DEF ElementOK
<1>4. CASE e.ok
  <2>1. Good(s, e.m) /\ a \in Int
    BY <1>2, <1>4, ElementAt DEF ElementOK
  <2> HIDE DEF r, a
  <2>2. GotAll(s, r, 2)
    BY <2>1, TopGot DEF r
  <2> HIDE DEF u
  <2>3. Good(s, u)
    BY <2>1, <2>2, WriteFromGood DEF u, GotAll
  <2>4. Good(s, SizeAndStack(u, i.len, -4))
    BY <2>3, SizeOfGood
  <2>5. QED BY <1>1, <1>4, <2>4, GoodDone
<1>5. QED BY <1>3, <1>4

LEMMA AastoreDone ==
    ASSUME NEW s, NEW t, Good(s, t), NEW i, InstructionOK(i)
    PROVE  Done(s, doAastore_quick(t, i))
<1> DEFINE a == ReadWord(t, OPTOP_OFFSET(t, 3), "O")
           ref == MASK_OBJREF(a.v)
           b == StorageAddr(a.m, ref)
           x == ReadWord(b.m, OPTOP_OFFSET(t, 2), "O")
           l == ReadWord(x.m, b.v, "M")
           index == Signed(x.v)
           v == ReadWord(l.m, OPTOP_OFFSET(t, 1), "O")
           to == b.v + 4 * (index + 1)
           u == WriteWord(v.m, to, "M", v.v)
<1>1. doAastore_quick(t, i) =
        IF a.v = 0 THEN invoke_trap(a.m, TT.nullptr_excep)
        ELSE IF index < 0 \/ index >= Signed(MASK_ARRAY_LENGTH(l.v))
             THEN invoke_trap(l.m, TT.indexoutofbnds_excep)
        ELSE IF gc_trap(v.m, ref, v.v) THEN LowPriorityTrap(v.m, TT.gc_notify)
        ELSE SizeAndStack(u, i.len, -3)
  BY DEF doAastore_quick, Then
<1> HIDE DEF a
<1>2. Got(s, a)
  BY WordGot DEF a
<1>3. ref \in Words
  BY <1>2, MaskTyped DEF Got
<1> HIDE DEF ref, b
<1>4. Got(s, b)
  BY <1>2, <1>3, StorageGot DEF b, Got
<1> HIDE DEF x
<1>5. Got(s, x)
  BY <1>4, WordGot DEF x, Got
<1> HIDE DEF l
<1>6. Got(s, l)
  BY <1>5, WordGot DEF l, Got
<1> HIDE DEF v
<1>7. Got(s, v)
  BY <1>6, WordGot DEF v, Got
<1>8. to \in Int
  <2>1. x.v \in Int /\ b.v \in Int
    BY <1>4, <1>5, Constants DEF Got
  <2>2. index \in Int
    BY <2>1, WordTyped
  <2> HIDE DEF index
  <2>3. QED BY <2>1, <2>2
<1> HIDE DEF to, index, u
<1>9. Good(s, u)
  BY <1>7, <1>8, WriteWordGood DEF u, Got
<1>10. Done(s, SizeAndStack(u, i.len, -3))
  <2>1. Good(s, SizeAndStack(u, i.len, -3))
    BY <1>9, SizeOfGood
  <2>2. QED BY <2>1, GoodDone
<1>11. Done(s, invoke_trap(a.m, TT.nullptr_excep))
  BY <1>2, AnyTrapDone, TrapNumbers DEF Got
<1>12. Done(s, invoke_trap(l.m, TT.indexoutofbnds_excep))
  BY <1>6, AnyTrapDone, TrapNumbers DEF Got
<1>13. Done(s, LowPriorityTrap(v.m, TT.gc_notify))
  BY <1>7, AnyTrapDone, TrapNumbers DEF Got
<1>14. QED BY <1>1, <1>10, <1>11, <1>12, <1>13

-----------------------------------------------------------------------------
(***************************************************************************)
(* Local variables and returns.                                            *)
(***************************************************************************)
LEMMA Offsets ==
    ASSUME NEW s, NEW t, Good(s, t), NEW n \in Int
    PROVE  /\ OPTOP_OFFSET(t, n) \in Int /\ VARS_OFFSET(t, n) \in Int
           /\ FRAME_OFFSET(t, n) \in Int
  BY RegistersTyped

LEMMA LocalAddress ==
    ASSUME NEW s, NEW t, Good(s, t), NEW i, InstructionOK(i)
    PROVE  VARS_OFFSET(t, -i.x) \in Int /\ VARS_OFFSET(t, -i.x - 1) \in Int
<1>1. -i.x \in Int /\ -i.x - 1 \in Int
  BY Operands
<1>2. QED BY <1>1, Offsets

LEMMA LoadGood ==
    ASSUME NEW s, NEW t, Good(s, t), NEW i, InstructionOK(i)
    PROVE  Good(s, Load(t, i)) /\ Good(s, Load2(t, i))
<1> DEFINE a == COPY_STACK_ITEM(t, OPTOP_OFFSET(t, 0), "O", VARS_OFFSET(t, -i.x), "V")
           b == COPY_STACK_ITEM(a, OPTOP_OFFSET(t, -1), "O", VARS_OFFSET(t, -i.x - 1), "V")
<1>1. Load(t, i) = SizeAndStack(a, i.len, 1) /\ Load2(t, i) = SizeAndStack(b, i.len, 2)
  BY DEF Load, Load2, Then
<1>2. OPTOP_OFFSET(t, 0) \in Int
  BY Offsets
<1>3. OPTOP_OFFSET(t, -1) \in Int
  BY Offsets
<1>4. Good(s, a)
  BY <1>2, CopyGood
<1> HIDE DEF a
<1>5. Good(s, b)
  BY <1>3, <1>4, CopyGood
<1> HIDE DEF b
<1>6. QED BY <1>1, <1>4, <1>5, SizeOfGood

LEMMA StoreGood ==
    ASSUME NEW s, NEW t, Good(s, t), NEW i, InstructionOK(i)
    PROVE  Good(s, Store(t, i)) /\ Good(s, Store2(t, i))
<1> DEFINE a == COPY_STACK_ITEM(t, VARS_OFFSET(t, -i.x), "V", OPTOP_OFFSET(t, 1), "O")
           b == COPY_STACK_ITEM(t, VARS_OFFSET(t, -i.x), "V", OPTOP_OFFSET(t, 2), "O")
           c == COPY_STACK_ITEM(b, VARS_OFFSET(t, -i.x - 1), "V", OPTOP_OFFSET(t, 1), "O")
<1>1. Store(t, i) = SizeAndStack(a, i.len, -1)
  BY DEF Store
<1>2. Store2(t, i) = SizeAndStack(c, i.len, -2)
  BY DEF Store2, Then
<1>3. Good(s, a) /\ Good(s, b)
  BY LocalAddress, CopyGood
<1> HIDE DEF a, b
<1>4. Good(s, c)
  BY <1>3, LocalAddress, CopyGood
<1> HIDE DEF c
<1>5. Good(s, SizeAndStack(a, i.len, -1))
  BY <1>3, SizeOfGood
<1>6. Good(s, SizeAndStack(c, i.len, -2))
  BY <1>4, SizeOfGood
<1>7. QED BY <1>1, <1>2, <1>5, <1>6

LEMMA IincGood ==
    ASSUME NEW s, NEW t, Good(s, t), NEW i, InstructionOK(i)
    PROVE  Good(s, Iinc(t, i))
<1> DEFINE r == ReadWord(t, VARS_OFFSET(t, -i.x), "V")
           v == Word(r.v + i.y)
           u == WriteWord(r.m, VARS_OFFSET(t, -i.x), "V", v)
<1>1. Iinc(t, i) = SizeAndStack(u, i.len, 0)
  BY DEF Iinc, Then
<1> HIDE DEF r
<1>2. Got(s, r)
  BY WordGot DEF r
<1>3. v \in Words
  BY <1>2, AddTyped, Operands DEF Got
<1> HIDE DEF v
<1>4. Good(s, u)
  BY <1>2, <1>3, LocalAddress, WriteWordGood DEF Got
<1> HIDE DEF u
<1>5. QED BY <1>1, <1>4, SizeOfGood

LEMMA FrameGot ==
    ASSUME NEW s, NEW t, Good(s, t), NEW n
    PROVE  Got(s, FromFrame(t, n))
  BY WordGot DEF FromFrame

LEMMA LeaveGood ==
    ASSUME NEW s, NEW t, Good(s, t)
    PROVE  Good(s, LeaveFrame(t)) /\ Good(s, TakePc(t))
<1> DEFINE c == FromFrame(t, -3)
           u == [c.m EXCEPT !.const_pool = c.v]
           f == FromFrame(u, -2)
           p == FromFrame(t, 0)
<1>1. LeaveFrame(t) = [f.m EXCEPT !.frame = f.v] /\ TakePc(t) = [p.m EXCEPT !.pc = p.v]
  BY DEF LeaveFrame, TakePc, Then
<1> HIDE DEF c, p
<1>2. Got(s, c) /\ Got(s, p)
  BY FrameGot DEF c, p
<1> HIDE DEF u
<1>3. Good(s, u)
  BY <1>2, SetRegisters DEF Got, u
<1> HIDE DEF f
<1>4. Got(s, f)
  BY <1>3, FrameGot DEF f
<1>5. Good(s, [f.m EXCEPT !.frame = f.v]) /\ Good(s, [p.m EXCEPT !.pc = p.v])
  BY <1>2, <1>4, SetRegisters DEF Got
<1>6. QED BY <1>1, <1>5

LEMMA IReturnGood ==
    ASSUME NEW s, NEW t, Good(s, t)
    PROVE  Good(s, IReturn(t))
<1> DEFINE p == TakePc(t)
           v == FromFrame(p, -1)
           a == COPY_STACK_ITEM(v.m, t.vars, "V", OPTOP_OFFSET(t, 1), "O")
           l == LeaveFrame(a)
           u == UpdateOptop(l, t.vars - JAVAWORDSIZE)
<1>1. IReturn(t) = [u EXCEPT !.vars = v.v]
  BY DEF IReturn, Then
<1> HIDE DEF p
<1>2. Good(s, p)
  BY LeaveGood DEF p
<1> HIDE DEF v
<1>3. Got(s, v)
  BY <1>2, FrameGot DEF v
<1>4. t.vars \in Int /\ t.vars - JAVAWORDSIZE \in Int
  BY RegistersOf, Constants DEF JAVAWORDSIZE
<1> HIDE DEF a
<1>5. Good(s, a)
  BY <1>3, <1>4, CopyGood DEF Got, a
<1> HIDE DEF l
<1>6. Good(s, l)
  BY <1>5, LeaveGood DEF l
<1> HIDE DEF u
<1>7. Good(s, u)
  BY <1>4, <1>6, UpdateOptopGood DEF u
<1>8. Good(s, [u EXCEPT !.vars = v.v])
  BY <1>3, <1>7, SetRegisters DEF Got
<1>9. QED BY <1>1, <1>8

LEMMA LReturnGood ==
    ASSUME NEW s, NEW t, Good(s, t)
    PROVE  Good(s, LReturn(t))
<1> DEFINE p == TakePc(t)
           v == FromFrame(p, -1)
           a == COPY_STACK_ITEM(v.m, t.vars, "V", OPTOP_OFFSET(t, 2), "O")
           b == COPY_STACK_ITEM(a, VARS_OFFSET(t, -1), "V", OPTOP_OFFSET(t, 1), "O")
           c == [b EXCEPT !.vars = v.v]
           l == LeaveFrame(c)
<1>1. LReturn(t) = UpdateOptop(l, t.vars - 2 * JAVAWORDSIZE)
  BY DEF LReturn, Then
<1> HIDE DEF p
<1>2. Good(s, p)
  BY LeaveGood DEF p
<1> HIDE DEF v
<1>3. Got(s, v)
  BY <1>2, FrameGot DEF v
<1>4. t.vars \in Int /\ t.vars - 2 * JAVAWORDSIZE \in Int
  BY RegistersOf, Constants DEF JAVAWORDSIZE
<1>5. VARS_OFFSET(t, -1) \in Int
  BY Offsets
<1> HIDE DEF a
<1>6. Good(s, a)
  BY <1>3, <1>4, CopyGood DEF Got, a
<1> HIDE DEF b
<1>7. Good(s, b)
  BY <1>5, <1>6, CopyGood DEF b
<1> HIDE DEF c
<1>8. Good(s, c)
  BY <1>3, <1>7, SetRegisters DEF Got, c
<1> HIDE DEF l
<1>9. Good(s, l)
  BY <1>8, LeaveGood DEF l
<1>10. QED BY <1>1, <1>4, <1>9, UpdateOptopGood

LEMMA ReturnGood ==
    ASSUME NEW s, NEW t, Good(s, t)
    PROVE  Good(s, Return(t))
<1> DEFINE p == TakePc(t)
           v == FromFrame(p, -1)
           l == LeaveFrame(v.m)
           c == [l EXCEPT !.vars = v.v]
<1>1. Return(t) = UpdateOptop(c, t.vars)
  BY DEF Return, Then
<1> HIDE DEF p
<1>2. Good(s, p)
  BY LeaveGood DEF p
<1> HIDE DEF v
<1>3. Got(s, v)
  BY <1>2, FrameGot DEF v
<1> HIDE DEF l
<1>4. Good(s, l)
  BY <1>3, LeaveGood DEF Got, l
<1> HIDE DEF c
<1>5. Good(s, c)
  BY <1>3, <1>4, SetRegisters DEF Got, c
<1>6. t.vars \in Int
  BY RegistersOf, Constants
<1>7. QED BY <1>1, <1>5, <1>6, UpdateOptopGood

LEMMA ExitSyncGood ==
    ASSUME NEW s, NEW t, Good(s, t)
    PROVE  Good(s, ExitSyncMethod(t))
<1> DEFINE r == FromFrame(t, -5)
           u == [r.m EXCEPT !.pc = r.v]
<1>1. ExitSyncMethod(t) = SizeAndStack(u, 0, 0)
  BY DEF ExitSyncMethod, Then
<1> HIDE DEF r
<1>2. Got(s, r)
  BY FrameGot DEF r
<1> HIDE DEF u
<1>3. Good(s, u)
  BY <1>2, SetRegisters DEF Got, u
<1>4. QED BY <1>1, <1>3, SizeGood

LEMMA OperateDone ==
    ASSUME NEW s, NEW t, Good(s, t), NEW i, InstructionOK(i), i.op \in Operations
    PROVE  Done(s, Operate(t, i))
<1> DEFINE r == Top(t, In(i.op))
           o == Top(t, 1)
           v == Value(r.m, i, r.v)
<1>1. Operate(t, i) =
        IF NeedsFpu(i.op) /\ ~Hardware(t) THEN invoke_trap(t, i.code)
        ELSE IF i.op = "drem" /\ Bit(t.psr, PSR.DREM) THEN LowPriorityTrap(t, i.code)
        ELSE IF i.op \in {"idiv", "irem"} /\ r.v[1] = 0
             THEN LowPriorityTrap(o.m, TT.arithmetic_excep)
        ELSE Result(r.m, i, In(i.op), Out(i.op), v)
  BY DEF Operate, Then
<1>2. In(i.op) \in Nat /\ Out(i.op) \in Nat
  BY DEF In, Out
<1> HIDE DEF r, o
<1>3. GotAll(s, r, In(i.op)) /\ Good(s, o.m)
  BY <1>2, TopGot DEF r, o, GotAll
<1>4. Done(s, invoke_trap(t, i.code)) /\ Done(s, LowPriorityTrap(t, i.code))
  BY Operands, AnyTrapDone
<1>5. Done(s, LowPriorityTrap(o.m, TT.arithmetic_excep))
  BY <1>3, TrapNumbers, AnyTrapDone
<1>6. ASSUME i.op \in {"idiv", "irem"} => r.v[1] # 0
      PROVE  Done(s, Result(r.m, i, In(i.op), Out(i.op), v))
  <2>1. r.m.junk \in Words
    BY <1>3, RegistersOf DEF GotAll
  <2>2. i.x \in Int
    BY Operands
  <2>3. Gives(r.v, In(i.op))
    BY <1>3 DEF GotAll
  <2>4. Gives(v, Out(i.op))
    BY <1>6, <2>1, <2>2, <2>3, ValueTyped
  <2> HIDE DEF v
  <2>5. In(i.op) \in Int
    BY <1>2
  <2>6. Good(s, Result(r.m, i, In(i.op), Out(i.op), v))
    BY <1>2, <1>3, <2>4, <2>5, ResultGood DEF GotAll
  <2>7. QED BY <2>6, GoodDone
<1> HIDE DEF v
<1>7. QED BY <1>1, <1>4, <1>5, <1>6

LEMMA PushedGood ==
    ASSUME NEW s, NEW t, Good(s, t), NEW i, InstructionOK(i), NEW w \in Words, NEW x \in Words
    PROVE  Good(s, Push(t, i, <<w>>)) /\ Good(s, Push(t, i, <<w, x>>))
<1>1. Gives(<<w>>, 1) /\ Gives(<<w, x>>, 2)
  BY GivesOne, GivesTwo
<1>2. Push(t, i, <<w>>) = Result(t, i, 0, 1, <<w>>)
  BY DEF Push
<1>3. Push(t, i, <<w, x>>) = Result(t, i, 0, 2, <<w, x>>)
  BY DEF Push
<1>4. QED BY <1>1, <1>2, <1>3, ResultGood

-----------------------------------------------------------------------------
(***************************************************************************)
(* Jumps and stack manipulation.                                           *)
(***************************************************************************)
LEMMA BranchGood ==
    ASSUME NEW s, NEW t, Good(s, t), NEW i, InstructionOK(i), NEW taken, NEW n \in Int
    PROVE  Good(s, Branch(t, i, taken, n))
<1>1. (IF taken THEN i.x ELSE i.len) \in Int /\ -n \in Int
  BY Operands
<1>2. QED BY <1>1, JumpGood DEF Branch

LEMMA IfGood ==
    ASSUME NEW s, NEW t, Good(s, t), NEW i, InstructionOK(i)
    PROVE  /\ Good(s, If(t, i)) /\ Good(s, IfIcmp(t, i)) /\ Good(s, IfAcmp(t, i))
           /\ \A b : Good(s, Branch(Top(t, 1).m, i, b, 1))
<1>1. Good(s, Top(t, 1).m) /\ Good(s, Top(t, 2).m)
  BY TopGot DEF GotAll
<1>2. \A b : Good(s, Branch(Top(t, 1).m, i, b, 1)) /\ Good(s, Branch(Top(t, 2).m, i, b, 2))
  BY <1>1, BranchGood
<1>3. If(t, i) = Branch(Top(t, 1).m, i, Holds(i.t, Signed(Top(t, 1).v[1]), 0), 1)
  BY DEF If, Then
<1>4. IfIcmp(t, i) = Branch(Top(t, 2).m, i, Holds(i.t, Signed(Top(t, 2).v[2]),
                                                  Signed(Top(t, 2).v[1])), 2)
  BY DEF IfIcmp, Then
<1>5. IfAcmp(t, i) = Branch(Top(t, 2).m, i, Holds(i.t, MASK_OBJREF(Top(t, 2).v[2]),
                                                  MASK_OBJREF(Top(t, 2).v[1])), 2)
  BY DEF IfAcmp, Then
<1>6. QED BY <1>2, <1>3, <1>4, <1>5, Zenon

LEMMA JsrGood ==
    ASSUME NEW s, NEW t, Good(s, t), NEW i, InstructionOK(i)
    PROVE  Good(s, Jsr(t, i)) /\ Good(s, Ret(t, i))
<1> DEFINE v == Word(t.pc + i.len)
           u == WriteWord(t, OPTOP_OFFSET(t, 0), "O", v)
           r == ReadWord(t, VARS_OFFSET(t, -i.x), "V")
           w == [r.m EXCEPT !.pc = r.v]
<1>1. Jsr(t, i) = SizeAndStack(u, i.x, 1) /\ Ret(t, i) = SizeAndStack(w, 0, 0)
  BY DEF Jsr, Ret, Then
<1>2. v \in Words
  BY RegistersOf, Operands, AddTyped
<1> HIDE DEF v, r
<1>3. OPTOP_OFFSET(t, 0) \in Int
  BY Offsets
<1>4. Good(s, u)
  BY <1>2, <1>3, WriteWordGood
<1>5. Got(s, r)
  BY WordGot DEF r
<1>6. Good(s, w)
  BY <1>5, SetRegisters DEF Got
<1> HIDE DEF u, w
<1>7. Good(s, SizeAndStack(u, i.x, 1)) /\ Good(s, SizeAndStack(w, 0, 0))
  BY <1>4, <1>6, Operands, SizeGood
<1>8. QED BY <1>1, <1>7

LEMMA DupGood ==
    ASSUME NEW s, NEW t, Good(s, t), NEW i, InstructionOK(i), i.op \in DOMAIN DupMoves
    PROVE  Good(s, Dup(t, i))
<1> DEFINE moves == DupMoves[i.op]
           u == CopyWithin(t, moves)
<1>1. PICK n \in 1..2 : n = Len(moves) /\ DOMAIN moves = 1..n /\ MovesOK(moves, n)
  <2>1. CASE i.op = "dup"
    BY <2>1 DEF DupMoves, MovesOK
  <2>2. CASE i.op = "dup2"
    BY <2>2 DEF DupMoves, MovesOK
  <2>3. QED BY <2>1, <2>2 DEF DupMoves
<1>2. Dup(t, i) = SizeAndStack(u, i.len, n)
  BY <1>1 DEF Dup
<1> HIDE DEF moves
<1>3. Good(s, u)
  BY <1>1, CopyWithinGood
<1> HIDE DEF u
<1>4. QED BY <1>2, <1>3, SizeOfGood

LEMMA DupXGood ==
    ASSUME NEW s, NEW t, Good(s, t), NEW i, InstructionOK(i), i.op \in DOMAIN DupXMoves
    PROVE  Good(s, DupX(t, i))
<1> DEFINE moves == DupXMoves[i.op]
           n == IF i.op \in {"dup_x1", "dup_x2"} THEN 1 ELSE 2
           a == t.optop - n * JAVAWORDSIZE
           v == UpdateOptop(t, a)
           u == CopyWithin(v, moves)
<1>1. PICK k \in 3..6 : DOMAIN moves = 1..k /\ MovesOK(moves, k)
  <2>1. CASE i.op = "dup_x1"
    BY <2>1 DEF DupXMoves, MovesOK
  <2>2. CASE i.op = "dup_x2"
    BY <2>2 DEF DupXMoves, MovesOK
  <2>3. CASE i.op = "dup2_x1"
    BY <2>3 DEF DupXMoves, MovesOK
  <2>4. CASE i.op = "dup2_x2"
    BY <2>4 DEF DupXMoves, MovesOK
  <2>5. QED BY <2>1, <2>2, <2>3, <2>4 DEF DupXMoves
<1>2. DupX(t, i) = SizeAndStack(u, i.len, 0)
  BY DEF DupX
<1>3. a \in Int
  BY RegistersOf, Constants DEF JAVAWORDSIZE
<1> HIDE DEF moves, a, v
<1>4. Good(s, v)
  BY <1>3, UpdateOptopGood DEF v
<1>5. Good(s, u)
  BY <1>1, <1>4, CopyWithinGood
<1> HIDE DEF u
<1>6. QED BY <1>2, <1>5, SizeOfGood

LEMMA SwapGood ==
    ASSUME NEW s, NEW t, Good(s, t), NEW i, InstructionOK(i)
    PROVE  Good(s, Swap(t, i))
<1> DEFINE r == Top(t, 1)
           moves == <<<<1, 2>>>>
           u == CopyWithin(r.m, moves)
           p == PutStack(u, <<<<2, r.v[1]>>>>)
<1>1. Swap(t, i) = SizeAndStack(p, i.len, 0)
  BY DEF Swap, Then
<1>2. DOMAIN moves = 1..1 /\ MovesOK(moves, 1)
  BY DEF MovesOK
<1> HIDE DEF r, moves
<1>3. Good(s, r.m) /\ r.v[1] \in Words
  BY TopGot, TopWords DEF r
<1>4. Good(s, u)
  BY <1>2, <1>3, CopyWithinGood
<1> HIDE DEF u
<1>5. Good(s, p)
  BY <1>3, <1>4, PutOneGood
<1> HIDE DEF p
<1>6. QED BY <1>1, <1>5, SizeOfGood

-----------------------------------------------------------------------------
(***************************************************************************)
(* Loads and stores of parts of words.                                     *)
(***************************************************************************)
LEMMA BitsOfSize ==
    ASSUME NEW size \in 0..2
    PROVE  \/ size = 0 /\ 2^BitsOf(size) = 16
           \/ size = 1 /\ 2^BitsOf(size) = 256
           \/ size = 2 /\ 2^BitsOf(size) = 65536
<1>1. 0 \in Int
  OBVIOUS
<1>2. QED BY <1>1, ShiftTyped, SMT

LEMMA SwapTyped ==
    ASSUME NEW v \in Words, NEW size \in 0..2, v < 2^BitsOf(size), NEW le
    PROVE  Endian(v, size, le) \in Words /\ Endian(v, size, le) < 2^BitsOf(size)
<1> DEFINE w == SwapBytes(v, size)
<1>1. CASE size = 0
  BY <1>1 DEF Endian, SwapBytes
<1>2. CASE size = 1
  <2>1. w = ((v \div 2^(ByteBits * 0)) % 2^ByteBits) * 2^ByteBits
            + ((v \div 2^(ByteBits * 1)) % 2^ByteBits)
    BY <1>2 DEF SwapBytes
  <2>2. w = ((v \div 1) % 16) * 16 + ((v \div 16) % 16)
    BY <2>1, SMT DEF ByteBits
  <2> HIDE DEF w
  <2>3. v \in Int
    BY Constants, SMT
  <2>4. w \in Int /\ 0 <= w /\ w < 256
    BY <2>2, <2>3, SMT
  <2>5. w \in Words
    BY <2>4, Constants, SMT
  <2>6. 2^BitsOf(size) = 256
    BY <1>2, BitsOfSize, SMT
  <2>7. QED BY <2>4, <2>5, <2>6, SMT DEF Endian, w
<1>3. CASE size = 2
  <2>1. w = ((v \div 2^(ByteBits * 0)) % 2^ByteBits) * 2^(3 * ByteBits)
            + ((v \div 2^(ByteBits * 1)) % 2^ByteBits) * 2^(2 * ByteBits)
            + ((v \div 2^(ByteBits * 2)) % 2^ByteBits) * 2^ByteBits
            + ((v \div 2^(ByteBits * 3)) % 2^ByteBits)
    BY <1>3 DEF SwapBytes
  <2>2. w = ((v \div 1) % 16) * 4096 + ((v \div 16) % 16) * 256
            + ((v \div 256) % 16) * 16 + ((v \div 4096) % 16)
    BY <2>1, SMT DEF ByteBits
  <2> HIDE DEF w
  <2>3. v \in Int
    BY Constants, SMT
  <2>4. w \in Int /\ 0 <= w /\ w < 65536
    BY <2>2, <2>3, SMT
  <2>5. w \in Words
    BY <2>4, Constants, SMT
  <2>6. 2^BitsOf(size) = 65536
    BY <1>3, BitsOfSize, SMT
  <2>7. QED BY <2>4, <2>5, <2>6, SMT DEF Endian, w
<1>4. QED BY <1>1, <1>2, <1>3

LEMMA LoadValueGot ==
    ASSUME NEW s, NEW t, Good(s, t), NEW a \in Int, NEW ty \in DOMAIN SizeOf, NEW nc, NEW le
    PROVE  Got(s, LoadValue(t, a, ty, nc, le))
<1> DEFINE r == ReadWord(t, a % AddrSpace, IF nc THEN "N" ELSE "Z")
           p == Endian(GetPart(r.v, a, SizeOf[ty]), SizeOf[ty], le)
           q == IF ty \in {"short", "byte"} THEN SignExtend(p, BitsOf(SizeOf[ty])) ELSE p
<1>1. LoadValue(t, a, ty, nc, le) = [m |-> r.m, v |-> q]
  BY DEF LoadValue, Then
<1> HIDE DEF r
<1>2. Got(s, r)
  BY WordGot DEF r
<1>3. PICK w \in Words : w = r.v
  BY <1>2 DEF Got
<1>4. p \in Words /\ p < 2^BitsOf(SizeOf[ty])
  <2>1. PICK size \in 0..2 : size = SizeOf[ty]
    BY SizeTyped
  <2>2. PICK g \in Words : g = GetPart(w, a, size) /\ g < 2^BitsOf(size)
    BY PartTyped, PartBelow
  <2>3. Endian(g, size, le) \in Words /\ Endian(g, size, le) < 2^BitsOf(size)
    BY <2>2, SwapTyped
  <2>4. QED BY <1>3, <2>1, <2>2, <2>3
<1> HIDE DEF p
<1>5. q \in Words
  BY <1>4, WidenTyped
<1> HIDE DEF q
<1>6. QED BY <1>1, <1>2, <1>5 DEF Got

LEMMA StoreValueGood ==
    ASSUME NEW s, NEW t, Good(s, t), NEW a \in Int, NEW v \in Words,
           NEW ty \in DOMAIN SizeOf, NEW c, NEW le
    PROVE  Good(s, StoreValue(t, a, v, ty, c, le))
<1>1. PICK size \in 0..2 : size = SizeOf[ty]
  BY SizeTyped
<1> DEFINE n == 2^BitsOf(size)
           p == v % n
           e == Endian(p, size, le)
           addr == a % AddrSpace
<1>2. StoreValue(t, a, v, ty, c, le) = javaMemWrite(t, addr, e, size, c)
  BY <1>1 DEF StoreValue
<1>3. addr \in Int
  BY Constants
<1>4. n \in Nat \ {0} /\ n <= 65536
  BY BitsOfSize, SMT
<1>5. p \in Words /\ p < n
  <2> HIDE DEF n
  <2>1. v \in Int
    BY Constants
  <2>2. p \in Int /\ 0 <= p /\ p < n
    BY <1>4, <2>1
  <2>3. QED BY <1>4, <2>2, Constants, SMT
<1> HIDE DEF p
<1>6. e \in Words
  BY <1>5, SwapTyped
<1> HIDE DEF e, addr
<1>7. Good(s, javaMemWrite(t, addr, e, size, c))
  BY <1>3, <1>6, WriteGood
<1>8. QED BY <1>2, <1>7

LEMMA AlignmentGood ==
    ASSUME NEW s, NEW t, Good(s, t), NEW a, NEW ty
    PROVE  Good(s, CHECK_ADDRESS_ALIGNMENT(t, a, ty))
<1>1. Exc.UNALIGNED \in 2..12 /\ Exc.UNALIGNED # Exc.OPLIM
  BY DEF Exc
<1>2. Good(s, vSetupException(t, Exc.UNALIGNED))
  BY <1>1, SetupGood DEF Good
<1>3. QED BY <1>2 DEF CHECK_ADDRESS_ALIGNMENT

LEMMA IndexedGot ==
    ASSUME NEW s, NEW t, Good(s, t), NEW i, InstructionOK(i), i.t \in DOMAIN SizeOf
    PROVE  Got(s, IndexedAddress(t, i))
<1> DEFINE b == ReadWord(t, VARS_OFFSET(t, -i.x), "V")
           a == Word(b.v + i.y * 2^SizeOf[i.t])
           u == CHECK_ADDRESS_ALIGNMENT(b.m, a, i.t)
<1>1. IndexedAddress(t, i) = [m |-> u, v |-> a]
  BY DEF IndexedAddress, Then
<1> HIDE DEF b
<1>2. Got(s, b)
  BY WordGot DEF b
<1>3. a \in Words
  <2>1. PICK n \in Nat : n = 2^SizeOf[i.t]
    BY SizeTyped
  <2>2. i.y * n \in Int
    BY Operands
  <2>3. QED BY <1>2, <2>1, <2>2, AddTyped DEF Got
<1> HIDE DEF a
<1>4. Good(s, u)
  BY <1>2, AlignmentGood DEF Got
<1> HIDE DEF u
<1>5. QED BY <1>1, <1>3, <1>4 DEF Got

LEMMA LoadIndexGood ==
    ASSUME NEW s, NEW t, Good(s, t), NEW i, InstructionOK(i), i.t \in DOMAIN SizeOf
    PROVE  Good(s, LoadIndex(t, i))
<1> DEFINE a == IndexedAddress(t, i)
           r == LoadValue(a.m, a.v, i.t, IS_NC_ADDRESS(a.v), IS_LE_ADDRESS(a.v))
<1>1. LoadIndex(t, i) = Push(r.m, i, <<r.v>>)
  BY DEF LoadIndex, Then
<1> HIDE DEF a
<1>2. Got(s, a)
  BY IndexedGot DEF a
<1>3. a.v \in Int
  BY <1>2, Constants DEF Got
<1> HIDE DEF r
<1>4. Got(s, r)
  BY <1>2, <1>3, LoadValueGot DEF Got, r
<1>5. QED BY <1>1, <1>4, PushedGood DEF Got

LEMMA StoreIndexGood ==
    ASSUME NEW s, NEW t, Good(s, t), NEW i, InstructionOK(i), i.t \in DOMAIN SizeOf
    PROVE  Good(s, StoreIndex(t, i))
<1> DEFINE a == IndexedAddress(t, i)
           r == Top(a.m, 1)
           c == IF IS_NC_ADDRESS(a.v) THEN "N" ELSE IF i.op = "nastore_index" THEN "A" ELSE "Z"
           u == StoreValue(r.m, a.v, r.v[1], i.t, c, IS_LE_ADDRESS(a.v))
<1>1. StoreIndex(t, i) = SizeAndStack(u, i.len, -1)
  BY DEF StoreIndex, Then
<1> HIDE DEF a
<1>2. Got(s, a)
  BY IndexedGot DEF a
<1>3. a.v \in Int
  BY <1>2, Constants DEF Got
<1> HIDE DEF r
<1>4. Good(s, r.m) /\ r.v[1] \in Words
  BY <1>2, TopGot, TopWords DEF Got, r
<1> HIDE DEF c, u
<1>5. Good(s, u)
  BY <1>3, <1>4, StoreValueGood DEF u
<1>6. Good(s, SizeAndStack(u, i.len, -1))
  BY <1>5, SizeOfGood
<1>7. QED BY <1>1, <1>6

-----------------------------------------------------------------------------
(***************************************************************************)
(* The switch of the virtual machine's instructions.                       *)
(***************************************************************************)
LEMMA DupNames ==
    /\ DOMAIN DupMoves = {"dup", "dup2"}
    /\ DOMAIN DupXMoves = {"dup_x1", "dup_x2", "dup2_x1", "dup2_x2"}
  BY DEF DupMoves, DupXMoves

(* No instruction is in two cases of the switch.                           *)
PlainNames == {"nop", "push", "load", "load2", "store", "store2", "iinc", "pop", "pop2",
               "swap"}
LEMMA StackOpsApart ==
    ASSUME NEW op
    PROVE  /\ op \in Operations => op \notin PlainNames \cup DOMAIN DupMoves \cup DOMAIN DupXMoves
                                                 \cup NoLongOps
           /\ op \in NoLongOps => op \notin PlainNames \cup DOMAIN DupMoves \cup DOMAIN DupXMoves
           /\ op \in DOMAIN DupMoves => op \notin PlainNames \cup DOMAIN DupXMoves
           /\ op \in DOMAIN DupXMoves => op \notin PlainNames
  BY DupNames
     DEF PlainNames, Operations, IntOps, LongOps, FloatOps, DoubleOps, FromInt, FromFloat,
         Narrowing, Compares, IntShifts, LongShifts, Negations, NoLongOps

LEMMA OnStackDone ==
    ASSUME NEW s, NEW t, Good(s, t), NEW i, InstructionOK(i), i.op \in StackOps
    PROVE  Done(s, OnStack(t, i))
<1>1. CASE i.op \in {"nop", "pop", "pop2"}
  <2>1. Good(s, SizeAndStack(t, i.len, 0)) /\ Good(s, SizeAndStack(t, i.len, -1))
        /\ Good(s, SizeAndStack(t, i.len, -2))
    <3>1. 0 \in Int /\ -1 \in Int /\ -2 \in Int
      OBVIOUS
    <3>2. QED BY <3>1, SizeOfGood, Zenon
  <2>2. OnStack(t, i) \in {SizeAndStack(t, i.len, 0), SizeAndStack(t, i.len, -1),
                            SizeAndStack(t, i.len, -2)}
    BY <1>1, StackOpsApart DEF OnStack, PlainNames
  <2>3. QED BY <2>1, <2>2, GoodDone
<1>2. CASE i.op = "push"
  <2> DEFINE w == Word(i.x)
  <2>1. OnStack(t, i) \in {Push(t, i, <<w>>), Push(t, i, <<0, w>>)}
    BY <1>2, StackOpsApart DEF OnStack, PlainNames
  <2>2. w \in Words /\ 0 \in Words
    BY Operands, WordTyped, Small
  <2> HIDE DEF w
  <2>3. Good(s, Push(t, i, <<w>>)) /\ Good(s, Push(t, i, <<0, w>>))
    BY <2>2, PushedGood
  <2>4. QED BY <2>1, <2>3, GoodDone
<1>3. CASE i.op \in {"load", "load2", "store", "store2", "iinc", "swap"}
  <2>1. OnStack(t, i) \in {Load(t, i), Load2(t, i), Store(t, i), Store2(t, i), Iinc(t, i), Swap(t, i)}
    BY <1>3, StackOpsApart DEF OnStack, PlainNames
  <2>2. QED BY <2>1, LoadGood, StoreGood, IincGood, SwapGood, GoodDone
<1>4. CASE i.op \in DOMAIN DupMoves
  <2>1. OnStack(t, i) = Dup(t, i)
    BY <1>4, StackOpsApart DEF OnStack, PlainNames
  <2>2. QED BY <1>4, <2>1, DupGood, GoodDone
<1>5. CASE i.op \in DOMAIN DupXMoves
  <2>1. OnStack(t, i) = DupX(t, i)
    BY <1>5, StackOpsApart DEF OnStack, PlainNames
  <2>2. QED BY <1>5, <2>1, DupXGood, GoodDone
<1>6. CASE i.op \in NoLongOps
  <2>1. OnStack(t, i) = LowPriorityTrap(Top(t, 2).m, i.code)
    BY <1>6, StackOpsApart DEF OnStack, PlainNames
  <2>2. Good(s, Top(t, 2).m)
    BY TopGot DEF GotAll
  <2>3. QED BY <2>1, <2>2, Operands, AnyTrapDone
<1>7. CASE i.op \in Operations
  <2>1. OnStack(t, i) = Operate(t, i)
    BY <1>7, StackOpsApart DEF OnStack, PlainNames
  <2>2. QED BY <1>7, <2>1, OperateDone
<1>8. QED BY <1>1, <1>2, <1>3, <1>4, <1>5, <1>6, <1>7 DEF StackOps

LEMMA TransferDone ==
    ASSUME NEW s, NEW t, Good(s, t), NEW i, InstructionOK(i), i.op \in Transfers
    PROVE  Done(s, Transfer(t, i))
<1>1. Good(s, JumpAndStack(t, i.x, 0))
  BY Operands, JumpGood
<1>2. CASE i.op \in {"goto", "jsr", "ret", "if"}
  BY <1>1, <1>2, JsrGood, IfGood, GoodDone DEF Transfer
<1>3. CASE i.op \in {"if_icmp", "if_acmp", "ifnull"}
  BY <1>3, IfGood, GoodDone DEF Transfer
<1>4. CASE i.op \in {"ireturn", "lreturn", "return"}
  BY <1>4, IReturnGood, LReturnGood, ReturnGood, GoodDone DEF Transfer
<1>5. CASE i.op \in {"exit_sync_method", "tableswitch"}
  BY <1>5, ExitSyncGood, TableSwitchGood, GoodDone DEF Transfer
<1>6. QED BY <1>2, <1>3, <1>4, <1>5 DEF Transfers

LEMMA OnObjectDone ==
    ASSUME NEW s, NEW t, Good(s, t), NEW i, InstructionOK(i), i.op \in ObjectInstructions
    PROVE  Done(s, OnObject(t, i))
<1>1. CASE i.op \in WithLength
  <2>1. i.y \in Nat
    BY <1>1 DEF InstructionOK
  <2>2. /\ Done(s, doLdc_quick(t, i, i.y)) /\ Done(s, doGetstatic_quick(t, i, i.y))
        /\ Done(s, doPutstatic_quick(t, i, i.y))
    BY <2>1, LdcGood, GetstaticGood, PutstaticGood, GoodDone
  <2>3. Done(s, doGetfield_quick(t, i, i.y)) /\ Done(s, doPutfield_quick(t, i, i.y, FALSE))
    BY <2>1, GetfieldDone, PutfieldDone
  <2>4. QED BY <1>1, <2>2, <2>3 DEF OnObject, WithLength
<1>2. CASE i.op \in {"aputstatic_quick", "aputfield_quick"}
  <2>1. Done(s, doPutfield_quick(t, i, 1, TRUE))
    BY PutfieldDone
  <2>2. QED BY <1>2, <2>1, APutstaticDone DEF OnObject
<1>3. CASE i.op \in {"invokevirtual_quick", "invokevirtual_quick_w", "invokenonvirtual_quick"}
  BY <1>3, InvokevirtualDone, InvokevirtualWideDone, InvokenonvirtualDone DEF OnObject
<1>4. CASE i.op \in {"invokesuper_quick", "invokestatic_quick"}
  BY <1>4, InvokesuperDone, InvokestaticGood, GoodDone DEF OnObject
<1>5. CASE i.op \in {"checkcast_quick", "instanceof_quick", "nonnull_quick"}
  BY <1>5, CheckCastDone, InstanceOfDone, NonnullDone DEF OnObject
<1>6. CASE i.op \in {"monitorenter", "monitorexit", "arraylength"}
  BY <1>6, MonitorEnterDone, MonitorExitDone, ArrayLengthDone DEF OnObject
<1>7. CASE i.op \in {"aload", "astore"}
  <2>1. i.t \in DOMAIN SizeOf
    BY <1>7, TypeOf DEF WithType
  <2>2. QED BY <1>7, <2>1, ArrayLoadDone, ArrayStoreDone DEF OnObject
<1>8. CASE i.op \in {"laload", "lastore"}
  BY <1>8, LongLoadDone, LongStoreDone DEF OnObject
<1>9. CASE i.op = "aastore_quick"
  <2>1. Done(s, LowPriorityTrap(t, i.code))
    BY Operands, AnyTrapDone
  <2>2. QED BY <1>9, <2>1, AastoreDone DEF OnObject
<1>10. QED
  BY <1>1, <1>2, <1>3, <1>4, <1>5, <1>6, <1>7, <1>8, <1>9 DEF ObjectInstructions, WithLength

LEMMA SwitchApart ==
    ASSUME NEW op
    PROVE  /\ op \in Transfers => op \notin StackOps
           /\ op \in ObjectInstructions => op \notin StackOps \cup Transfers
           /\ op \in {"trap", "load_index", "store_index", "nastore_index"} =>
                  op \notin StackOps \cup Transfers \cup ObjectInstructions
  BY DupNames
     DEF StackOps, Operations, IntOps, LongOps, FloatOps, DoubleOps, FromInt, FromFloat,
         Narrowing, Compares, IntShifts, LongShifts, Negations, NoLongOps, Transfers,
         ObjectInstructions

LEMMA JVMOpDone ==
    ASSUME NEW s, NEW t, Good(s, t), NEW i, InstructionOK(i)
    PROVE  Done(s, vDoJVMOp(t, i))
<1> DEFINE illegal == vSetupException(t, Exc.ILLEGAL_INSTR)
<1>1. CASE i.op \in StackOps
  <2>1. vDoJVMOp(t, i) = OnStack(t, i)
    BY <1>1, SwitchApart DEF vDoJVMOp
  <2>2. QED BY <1>1, <2>1, OnStackDone
<1>2. CASE i.op \in Transfers
  <2>1. vDoJVMOp(t, i) = Transfer(t, i)
    BY <1>2, SwitchApart DEF vDoJVMOp
  <2>2. QED BY <1>2, <2>1, TransferDone
<1>3. CASE i.op \in ObjectInstructions
  <2>1. vDoJVMOp(t, i) = OnObject(t, i)
    BY <1>3, SwitchApart DEF vDoJVMOp
  <2>2. QED BY <1>3, <2>1, OnObjectDone
<1>4. CASE i.op \notin StackOps \cup Transfers \cup ObjectInstructions
  <2>1. Good(s, illegal)
    <3>1. Exc.ILLEGAL_INSTR \in 2..12 /\ Exc.ILLEGAL_INSTR # Exc.OPLIM
      BY DEF Exc
    <3>2. QED BY <3>1, SetupGood DEF Good
  <2>2. Done(s, illegal) /\ Done(s, LowPriorityTrap(t, i.code))
    BY <2>1, GoodDone, Operands, AnyTrapDone
  <2>3. CASE i.op \in {"load_index", "store_index", "nastore_index"}
    <3>1. i.t \in DOMAIN SizeOf
      BY <2>3, TypeOf DEF WithType
    <3>2. Done(s, LoadIndex(t, i)) /\ Done(s, StoreIndex(t, i))
      BY <3>1, LoadIndexGood, StoreIndexGood, GoodDone
    <3>3. vDoJVMOp(t, i) \in {LoadIndex(t, i), StoreIndex(t, i), illegal}
      BY <1>4, <2>3 DEF vDoJVMOp
    <3>4. QED BY <2>2, <3>2, <3>3
  <2>4. CASE i.op = "trap"
    <3>1. vDoJVMOp(t, i) = LowPriorityTrap(t, i.code)
      BY <1>4, <2>4 DEF vDoJVMOp
    <3>2. QED BY <2>2, <3>1
  <2>5. CASE i.op \notin {"trap", "load_index", "store_index", "nastore_index"}
    <3>1. vDoJVMOp(t, i) = illegal
      BY <1>4, <2>5 DEF vDoJVMOp
    <3>2. QED BY <2>2, <3>1
  <2>6. QED BY <2>3, <2>4, <2>5
<1>5. QED BY <1>1, <1>2, <1>3, <1>4

-----------------------------------------------------------------------------
(***************************************************************************)
(* The extended instructions.                                              *)
(***************************************************************************)
LEMMA PrivTrapDone ==
    ASSUME NEW s, NEW t, Good(s, t)
    PROVE  Done(s, PrivTrap(t)) /\ (~NonPriv(t) => ~UserMode(s))
<1>1. Exc.PRIV_INSTR \in 2..12 /\ Exc.PRIV_INSTR # Exc.OPLIM
  BY DEF Exc
<1>2. Good(s, PrivTrap(t))
  BY <1>1, SetupGood DEF PrivTrap, Good
<1>3. ~NonPriv(t) => ~UserMode(s)
  BY DEF Good, Steady, NonPriv, UserMode
<1>4. QED BY <1>2, <1>3, GoodDone

LEMMA StaysField ==
    ASSUME NEW t, NEW u, Stays(t, u)
    PROVE  /\ u.oplim = t.oplim /\ u.optop = t.optop /\ u.psr = t.psr
           /\ t.exc.id # Exc.OPLIM => u.exc.id # Exc.OPLIM
  BY DEF Stays, Fields, WordRegisters

LEMMA UpdateOptopDone ==
    ASSUME NEW s, NEW t, Good(s, t), t.exc.id # Exc.OPLIM, NEW i, InstructionOK(i)
    PROVE  Good(s, PrivUpdateOptop(t, i))
<1> DEFINE l == ReadWord(t, OPTOP_OFFSET(t, 2), "O")
           low == l.v % TopBit
           a == UpdateOplim(l.m, low)
           o == Top(a, 1)
           u == UpdateOptop(o.m, o.v[1])
           w == UpdateOplim(u, l.v)
<1>1. PrivUpdateOptop(t, i) = SizeAndStack(w, i.len, 0)
  BY DEF PrivUpdateOptop, Then
<1>2. Got(s, l) /\ l.m.exc.id # Exc.OPLIM
  BY ReadGood DEF Got
<1> HIDE DEF l
<1>3. low \in Words /\ ~(low >= TopBit)
  <2>1. l.v \in Int
    BY <1>2, Constants DEF Got
  <2>2. low \in Words
    BY <1>2, WordTyped DEF Got
  <2>3. low < TopBit
    BY <2>1, Constants
  <2>4. QED BY <2>2, <2>3, Constants
<1> HIDE DEF low
<1>4. Good(s, a)
  BY <1>2, <1>3, UpdateOplimGood DEF Got
<1>5. ~LimitEnabled(a) /\ a.exc = l.m.exc
  <2> DEFINE n == [l.m EXCEPT !.oplim = Align(low)]
  <2>1. n.oplim = Align(low) /\ n.exc = l.m.exc
    <3>1. MachineOK(l.m) /\ "oplim" \in Fields
      BY <1>2 DEF Got, Good, Sound, Fields, WordRegisters
    <3>2. QED BY <3>1, SetField DEF Fields, OtherFields
  <2>2. a = IF LimitEnabled(n) /\ Limit(n) > n.optop THEN RaiseOplim(n) ELSE n
    BY DEF UpdateOplim
  <2> HIDE DEF n
  <2>3. Align(low) \in Int /\ Align(low) <= low /\ low \in Int
    BY <1>3, WordTyped, Constants
  <2>4. ~LimitEnabled(n)
    BY <1>3, <2>1, <2>3, Constants, SMT DEF LimitEnabled
  <2>5. QED BY <2>1, <2>2, <2>4
<1> HIDE DEF a
<1>6. Good(s, o.m) /\ o.v[1] \in Words /\ Stays(a, o.m)
  BY <1>4, TopGood, TopGot, TopWords
<1> HIDE DEF o
<1>7. ~LimitEnabled(o.m) /\ o.m.exc.id # Exc.OPLIM
  BY <1>2, <1>5, <1>6, StaysField DEF LimitEnabled
<1>8. o.v[1] \in Int
  BY <1>6, Constants
<1>9. Good(s, u)
  BY <1>6, <1>8, UpdateOptopGood
<1>10. u.exc = o.m.exc
  <2>1. u = [o.m EXCEPT !.optop = Word(o.v[1])]
    BY <1>7 DEF UpdateOptop
  <2> HIDE DEF u
  <2>2. MachineOK(o.m) /\ "optop" \in Fields
    BY <1>6 DEF Good, Sound, Fields, WordRegisters
  <2>3. QED BY <2>1, <2>2, SetField DEF Fields, OtherFields
<1> HIDE DEF u
<1>11. Good(s, w)
  BY <1>2, <1>7, <1>9, <1>10, UpdateOplimGood DEF Got
<1> HIDE DEF w
<1>12. QED BY <1>1, <1>11, SizeOfGood

LEMMA FaultGood ==
    ASSUME NEW s, NEW t, Good(s, t), NEW a, NEW c, NEW b, AccessFault(t, a, c, b) # Exc.NO
    PROVE  Good(s, vSetupException(t, AccessFault(t, a, c, b)))
<1>1. PICK e : e = AccessFault(t, a, c, b)
  OBVIOUS
<1>2. e \in 2..12 /\ e # Exc.OPLIM
  BY <1>1, FaultTyped DEF Exc
<1>3. QED BY <1>1, <1>2, SetupGood DEF Good

LEMMA ZeroLineDone ==
    ASSUME NEW s, NEW t, Good(s, t), NEW i, InstructionOK(i)
    PROVE  Done(s, ZeroLine(t, i))
<1> DEFINE r == Top(t, 1)
           eid == AccessFault(r.m, r.v[1] % AddrSpace, t.type, FALSE)
<1>1. ZeroLine(t, i) =
        IF ~Bit(r.m.psr, PSR.DCE) \/ IS_NC_ADDRESS(r.v[1])
        THEN LowPriorityTrap(r.m, TT.ZeroLineEmulationTrap)
        ELSE IF eid # Exc.NO THEN vSetupException(r.m, eid) ELSE SizeAndStack(r.m, i.len, -1)
  BY DEF ZeroLine, Then
<1> HIDE DEF r
<1>2. Good(s, r.m)
  BY TopGot DEF r, GotAll
<1>3. Done(s, LowPriorityTrap(r.m, TT.ZeroLineEmulationTrap))
  BY <1>2, AnyTrapDone, TrapNumbers
<1>4. eid # Exc.NO => Good(s, vSetupException(r.m, eid))
  BY <1>2, FaultGood
<1> HIDE DEF eid
<1>5. Good(s, SizeAndStack(r.m, i.len, -1))
  BY <1>2, SizeOfGood
<1>6. QED BY <1>1, <1>3, <1>4, <1>5, GoodDone

LEMMA CacheFlushGood ==
    ASSUME NEW s, NEW t, Good(s, t), NEW i, InstructionOK(i)
    PROVE  Good(s, CacheFlush(t, i))
<1> DEFINE r == Top(t, 2)
           next == IF i.op = "cache_index_flush" /\ Bit(r.m.psr, PSR.DCE)
                   THEN r.v[1] ELSE Word(r.v[1] + r.v[2])
           p == PutStack(r.m, <<<<1, next>>>>)
<1>1. CacheFlush(t, i) = SizeAndStack(p, i.len, 0)
  BY DEF CacheFlush, Then
<1> HIDE DEF r
<1>2. Good(s, r.m) /\ r.v[1] \in Words /\ r.v[2] \in Words
  BY TopGot, TopWords DEF r
<1>3. next \in Words
  <2>1. r.v[2] \in Int
    BY <1>2, Constants
  <2>2. QED BY <1>2, <2>1, AddTyped
<1> HIDE DEF next
<1>4. Good(s, p)
  BY <1>2, <1>3, PutOneGood
<1> HIDE DEF p
<1>5. QED BY <1>1, <1>4, SizeOfGood

LEMMA CacheInvalidateGood ==
    ASSUME NEW s, NEW t, Good(s, t), NEW i, InstructionOK(i)
    PROVE  Good(s, CacheInvalidate(t, i))
<1> DEFINE a == Top(t, 1)
           eid == AccessFault(a.m, a.v[1], t.type, FALSE)
<1>1. CacheInvalidate(t, i) =
        IF eid # Exc.NO THEN vSetupException(a.m, eid) ELSE CacheFlush(a.m, i)
  BY DEF CacheInvalidate, Then
<1> HIDE DEF a
<1>2. Good(s, a.m)
  BY TopGot DEF a, GotAll
<1>3. eid # Exc.NO => Good(s, vSetupException(a.m, eid))
  BY <1>2, FaultGood
<1> HIDE DEF eid
<1>4. QED BY <1>1, <1>2, <1>3, CacheFlushGood

LEMMA CacheWordDone ==
    ASSUME NEW s, NEW t, Good(s, t), NEW i, InstructionOK(i)
    PROVE  Done(s, ReadCache(t, i)) /\ Done(s, WriteCache(t, i))
<1> DEFINE r == Top(t, 1)
           w == Top(t, 2)
           p == PutStack(r.m, <<<<1, r.m.junk>>>>)
<1>1. ReadCache(t, i) = IF NonPriv(t) THEN PrivTrap(t) ELSE SizeAndStack(p, i.len, 0)
  BY DEF ReadCache
<1>2. WriteCache(t, i) = IF NonPriv(t) THEN PrivTrap(t) ELSE SizeAndStack(w.m, i.len, -2)
  BY DEF WriteCache
<1> HIDE DEF r, w
<1>3. Good(s, r.m) /\ Good(s, w.m)
  BY TopGot DEF r, w, GotAll
<1>4. Good(s, p)
  BY <1>3, RegistersOf, PutOneGood
<1> HIDE DEF p
<1>5. Good(s, SizeAndStack(p, i.len, 0))
  BY <1>4, SizeOfGood
<1>6. Good(s, SizeAndStack(w.m, i.len, -2))
  BY <1>3, SizeOfGood
<1>7. QED BY <1>1, <1>2, <1>5, <1>6, PrivTrapDone, GoodDone

LEMMA RetFromTrapDone ==
    ASSUME NEW s, NEW t, Good(s, t)
    PROVE  Done(s, PrivRetFromTrap(t))
<1> DEFINE p == FromFrame(t, 1)
           c == TakePc(p.m)
           v == FromFrame(c, -1)
           f == FromFrame(v.m, -2)
           u == [f.m EXCEPT !.frame = f.v]
           w == [u EXCEPT !.vars = v.v]
           z == [w EXCEPT !.psr = p.v]
           both == [f.m EXCEPT !.frame = f.v, !.vars = v.v]
<1>1. PrivRetFromTrap(t) = IF NonPriv(t) THEN PrivTrap(t)
                           ELSE UpdateOptop([both EXCEPT !.psr = p.v], t.vars)
  BY DEF PrivRetFromTrap, UpdatePsr, Then
<1>2. both = w
  OBVIOUS
<1> HIDE DEF both, p
<1>3. Got(s, p)
  BY FrameGot DEF p
<1> HIDE DEF c
<1>4. Good(s, c)
  BY <1>3, LeaveGood DEF Got, c
<1> HIDE DEF v
<1>5. Got(s, v)
  BY <1>4, FrameGot DEF v
<1> HIDE DEF f
<1>6. Got(s, f)
  BY <1>5, FrameGot DEF Got, f
<1> HIDE DEF u
<1>7. Good(s, u)
  BY <1>6, SetRegisters DEF Got, u
<1> HIDE DEF w
<1>8. Good(s, w)
  BY <1>5, <1>7, SetRegisters DEF Got, w
<1>9. ASSUME ~NonPriv(t)
      PROVE  Good(s, UpdateOptop(z, t.vars))
  <2>1. ~UserMode(s)
    BY <1>9, PrivTrapDone
  <2>2. "psr" \in WordRegisters \ {"optop", "oplim"} /\ p.v \in Words
    BY <1>3 DEF WordRegisters, Got
  <2>3. Good(s, z)
    BY <1>8, <2>1, <2>2, SetSystem
  <2>4. t.vars \in Int
    BY RegistersOf, Constants
  <2> HIDE DEF z
  <2>5. QED BY <2>3, <2>4, UpdateOptopGood
<1>10. QED BY <1>1, <1>2, <1>9, PrivTrapDone, GoodDone

RegNames == UNION {UserRegs, PlainRegs, LockRegNames, {"scBottom", "trapbase", "oplim"}}
RegOK(i) == /\ i.t \in RegNames
            /\ i.t \in LockRegNames => i.x \in LockRegs
            /\ i.t = "global" => i.x \in Globals
LEMMA RegisterOf ==
    ASSUME NEW i, InstructionOK(i), i.op \in {"read_reg", "write_reg"}
    PROVE  RegOK(i)
  BY DEF InstructionOK, RegOK, RegNames

LEMMA ReadRegDone ==
    ASSUME NEW s, NEW t, Good(s, t), NEW i, InstructionOK(i), RegOK(i)
    PROVE  Done(s, ReadReg(t, i))
<1>1. MachineOK(t)
  BY DEF Good, Sound
<1>2. RegValue(t, i) \in Words
  <2>1. CASE i.t \in LockRegNames
    <3>1. t.lockCount[i.x] \in Words /\ t.lockAddr[i.x] \in Words
      BY <1>1, <2>1 DEF RegOK, MachineOK
    <3>2. RegValue(t, i) = t[i.t][i.x]
      BY <2>1 DEF RegValue
    <3>3. QED BY <2>1, <3>1, <3>2 DEF LockRegNames
  <2>2. CASE i.t = "global"
    <3>1. t.global[i.x] \in Words
      BY <1>1, <2>2 DEF RegOK, MachineOK
    <3>2. RegValue(t, i) = t[i.t][i.x]
      BY <2>2 DEF RegValue
    <3>3. QED BY <2>2, <3>1, <3>2
  <2>3. CASE i.t \notin LockRegNames \cup {"global"}
    <3>1. i.t \in WordRegisters
      BY <2>3 DEF RegOK, RegNames, UserRegs, PlainRegs, WordRegisters
    <3>2. RegValue(t, i) = t[i.t]
      BY <2>3 DEF RegValue
    <3>3. QED BY <1>1, <3>1, <3>2 DEF MachineOK
  <2>4. QED BY <2>1, <2>2, <2>3
<1>3. Good(s, Push(t, i, <<RegValue(t, i)>>))
  BY <1>2, PushedGood
<1>4. QED BY <1>3, PrivTrapDone, GoodDone DEF ReadReg

LEMMA KeptBits ==
    ASSUME NEW v \in Words, NEW b \in Words
    PROVE  /\ (v - (v % 2^11)) + (((b % 2^11) \div 8) * 8) \in Words
           /\ LockBits(v) \in Words
<1>1. v \in Int /\ 0 <= v /\ v < 65536 /\ b \in Int /\ 0 <= b /\ b < 65536
  BY Constants, SMT
<1> DEFINE x == (v - (v % 2048)) + (((b % 2048) \div 8) * 8)
           y == (v % 256) + ((v \div 16384) * 16384)
<1>2. x \in Int /\ 0 <= x /\ x < 65536
  <2>1. PICK h \in Int : h = (b % 2048) \div 8 /\ 0 <= h /\ h < 256
    BY <1>1, SMT
  <2>2. PICK g \in Int : v - (v % 2048) = 2048 * g /\ 0 <= g /\ g < 32
    <3>1. v - (v % 2048) = 2048 * (v \div 2048)
      BY <1>1, SMT
    <3>2. v \div 2048 \in Int /\ 0 <= v \div 2048 /\ v \div 2048 < 32
      BY <1>1, SMT
    <3>3. QED BY <3>1, <3>2
  <2>3. x = 2048 * g + h * 8
    BY <2>1, <2>2
  <2>4. QED BY <2>1, <2>2, <2>3, SMT
<1>3. y \in Int /\ 0 <= y /\ y < 65536
  BY <1>1, SMT
<1>4. (v - (v % 2^11)) + (((b % 2^11) \div 8) * 8) = x /\ LockBits(v) = y
  BY Constants, SMT DEF LockBits
<1> HIDE DEF x, y
<1>5. QED BY <1>2, <1>3, <1>4, Constants, SMT

(* The registers write_reg writes, the supervisor's only in its mode.      *)
LEMMA SetRegGood ==
    ASSUME NEW s, NEW t, Good(s, t), t.exc.id # Exc.OPLIM, NEW i, RegOK(i),
           i.t \notin {"pc", "optop"}, i.t \notin UserRegs => ~UserMode(s), NEW v \in Words
    PROVE  Good(s, SetReg(t, i, v))
<1>1. MachineOK(t) /\ Align(v) \in Words
  BY WordTyped DEF Good, Sound
<1>2. CASE i.t \in WordRegs
  <2>1. SetReg(t, i, v) = [t EXCEPT ![i.t] = Align(v)]
    BY <1>2 DEF SetReg, WordRegs, PlainRegs
  <2>2. i.t \in {"pc", "vars", "frame", "const_pool"}
    BY <1>2 DEF WordRegs
  <2>3. Good(s, [t EXCEPT ![i.t] = Align(v)])
    BY <1>1, <2>2, SetRegister
  <2>4. QED BY <2>1, <2>3
<1>3. CASE i.t = "global"
  <2> DEFINE f == [t.global EXCEPT ![i.x] = v]
  <2>1. SetReg(t, i, v) = [t EXCEPT !["global"] = f]
    BY <1>3 DEF SetReg, WordRegs, PlainRegs
  <2>2. f \in [Globals -> Words]
    BY <1>1, <1>3 DEF MachineOK, RegOK
  <2> HIDE DEF f
  <2>3. StorageOK("global", f) /\ "global" \in OtherFields \ {"exc"}
    BY <2>2 DEF StorageOK, OtherFields
  <2>4. Good(s, [t EXCEPT !["global"] = f])
    BY <2>3, SetStorage
  <2>5. QED BY <2>1, <2>4
<1>4. CASE i.t = "oplim"
  <2>1. SetReg(t, i, v) = UpdateOplim(t, v)
    BY <1>4 DEF SetReg, WordRegs, PlainRegs
  <2>2. QED BY <2>1, UpdateOplimGood
<1>5. CASE i.t \in PlainRegs \cup {"scBottom", "trapbase"}
  <2>1. ~UserMode(s) /\ i.t \in WordRegisters \ {"optop", "oplim"}
    BY <1>5 DEF PlainRegs, UserRegs, WordRegisters
  <2>2. PICK w \in Words : SetReg(t, i, v) = [t EXCEPT ![i.t] = w]
    <3>1. CASE i.t \in PlainRegs
      BY <3>1 DEF SetReg, WordRegs, PlainRegs
    <3>2. CASE i.t = "scBottom"
      BY <1>1, <3>2 DEF SetReg, WordRegs, PlainRegs
    <3>3. CASE i.t = "trapbase"
      <4>1. SetReg(t, i, v) = [t EXCEPT ![i.t] = KeepTT(t, v)]
        BY <3>3 DEF SetReg, WordRegs, PlainRegs
      <4>2. KeepTT(t, v) \in Words
        BY RegistersOf, KeptBits DEF KeepTT
      <4>3. QED BY <4>1, <4>2
    <3>4. QED BY <1>5, <3>1, <3>2, <3>3
  <2>3. Good(s, [t EXCEPT ![i.t] = w])
    BY <2>1, SetSystem
  <2>4. QED BY <2>2, <2>3
<1>6. CASE i.t \in LockRegNames
  <2> DEFINE c == [t.lockCount EXCEPT ![i.x] = LockBits(v)]
             a == [t.lockAddr EXCEPT ![i.x] = Align(v)]
  <2>1. SetReg(t, i, v) = [t EXCEPT !.lockCount = c] \/ SetReg(t, i, v) = [t EXCEPT !.lockAddr = a]
    BY <1>6 DEF SetReg, WordRegs, PlainRegs, LockRegNames
  <2>2. LockBits(v) \in Words
    BY KeptBits
  <2>3. c \in [LockRegs -> Words] /\ a \in [LockRegs -> Words]
    BY <1>1, <1>6, <2>2 DEF MachineOK, RegOK
  <2> HIDE DEF c, a
  <2>4. Good(s, [t EXCEPT !.lockCount = c]) /\ Good(s, [t EXCEPT !.lockAddr = a])
    BY <2>3, SetLocks
  <2>5. QED BY <2>1, <2>4
<1>7. QED
  BY <1>2, <1>3, <1>4, <1>5, <1>6 DEF RegOK, RegNames, UserRegs, WordRegs

LEMMA WriteRegDone ==
    ASSUME NEW s, NEW t, Good(s, t), t.exc.id # Exc.OPLIM, NEW i, InstructionOK(i), RegOK(i)
    PROVE  Done(s, WriteReg(t, i))
<1> DEFINE r == Top(t, 1)
           p == [r.m EXCEPT !.pc = r.v[1]]
           a == Align(r.v[1])
           o == UpdateOptop(r.m, a)
           w == SetReg(r.m, i, r.v[1])
<1>1. WriteReg(t, i) =
        IF i.t \notin UserRegs /\ NonPriv(t) THEN PrivTrap(t)
        ELSE IF i.t = "pc" THEN SizeAndStack(p, 0, -1)
        ELSE IF i.t = "optop" THEN SizeAndStack(o, i.len, 0)
        ELSE SizeAndStack(w, i.len, -1)
  BY DEF WriteReg, Then
<1>2. Good(s, r.m) /\ r.v[1] \in Words /\ r.m.exc.id # Exc.OPLIM
  BY TopGood, TopGot, TopWords, StaysField
<1> HIDE DEF r
<1>3. Good(s, SizeAndStack(p, 0, -1))
  <2>1. Good(s, p)
    BY <1>2, SetRegisters
  <2> HIDE DEF p
  <2>2. 0 \in Int /\ -1 \in Int
    OBVIOUS
  <2>3. QED BY <2>1, <2>2, SizeGood
<1>4. Good(s, SizeAndStack(o, i.len, 0))
  <2>1. a \in Int
    BY <1>2, WordTyped, Constants
  <2>2. Good(s, o)
    BY <1>2, <2>1, UpdateOptopGood
  <2>3. QED BY <2>2, SizeOfGood
<1>5. ASSUME i.t \notin {"pc", "optop"}, i.t \in UserRegs \/ ~NonPriv(t)
      PROVE  Good(s, SizeAndStack(w, i.len, -1))
  <2>1. i.t \notin UserRegs => ~UserMode(s)
    BY <1>5, PrivTrapDone
  <2>2. Good(s, w)
    BY <1>2, <1>5, <2>1, SetRegGood
  <2> HIDE DEF w
  <2>3. QED BY <2>2, SizeOfGood
<1> HIDE DEF p, o, w
<1>6. QED BY <1>1, <1>3, <1>4, <1>5, PrivTrapDone, GoodDone

-----------------------------------------------------------------------------
LEMMA CallGood ==
    ASSUME NEW s, NEW t, Good(s, t), NEW i, InstructionOK(i)
    PROVE  Good(s, Call(t, i))
<1> DEFINE r == Top(t, 2)
           back == Word(t.pc + i.len)
           puts == <<<<2, t.vars>>, <<1, back>>>>
           p == PutStack(r.m, puts)
           args == Word(t.optop + r.v[1] * JAVAWORDSIZE)
           u == [p EXCEPT !.vars = args]
           w == [p EXCEPT !.vars = args, !.pc = r.v[2]]
<1>1. Call(t, i) = w
  BY DEF Call, Then
<1>2. w = [u EXCEPT !.pc = r.v[2]]
  OBVIOUS
<1> HIDE DEF r
<1>3. Good(s, r.m) /\ r.v[1] \in Words /\ r.v[2] \in Words
  BY TopGot, TopWords DEF r
<1>4. t.vars \in Words /\ t.pc \in Words /\ t.optop \in Words
  BY RegistersOf
<1>5. back \in Words
  BY <1>4, Operands, AddTyped
<1>6. args \in Words
  <2>1. r.v[1] * JAVAWORDSIZE \in Int
    BY <1>3, Constants DEF JAVAWORDSIZE
  <2>2. QED BY <1>4, <2>1, AddTyped
<1> HIDE DEF back, args
<1>7. puts \in Seq(Int \X Words)
  BY <1>4, <1>5
<1> HIDE DEF puts, p
<1>8. Good(s, p)
  BY <1>3, <1>7, PutStackGood DEF p
<1> HIDE DEF u
<1>9. Good(s, u)
  BY <1>6, <1>8, SetRegisters DEF u
<1>10. Good(s, [u EXCEPT !.pc = r.v[2]])
  BY <1>3, <1>9, SetRegisters
<1>11. QED BY <1>1, <1>2, <1>10

LEMMA ReturnNGood ==
    ASSUME NEW s, NEW t, Good(s, t), NEW n \in 0..2
    PROVE  Good(s, ReturnN(t, n))
<1> DEFINE r == Top(t, n + 2)
           c == [r.m EXCEPT !.pc = r.v[n + 1]]
           a == t.vars - n * JAVAWORDSIZE
           o == UpdateOptop(c, a)
           u == [o EXCEPT !.vars = r.v[n + 2]]
           puts == [k \in 1..n |-> <<k, r.v[k]>>]
<1>1. ReturnN(t, n) = PutStack(u, puts)
  BY DEF ReturnN, Then
<1> HIDE DEF r
<1>2. GotAll(s, r, n + 2)
  BY TopGot DEF r
<1>3. r.v[n + 1] \in Words /\ r.v[n + 2] \in Words /\ \A k \in 1..n : r.v[k] \in Words
  BY <1>2 DEF GotAll, Gives
<1> HIDE DEF c
<1>4. Good(s, c)
  BY <1>2, <1>3, SetRegisters DEF GotAll, c
<1>5. a \in Int
  BY RegistersOf, Constants DEF JAVAWORDSIZE
<1> HIDE DEF a, o
<1>6. Good(s, o)
  BY <1>4, <1>5, UpdateOptopGood DEF o
<1> HIDE DEF u
<1>7. Good(s, u)
  BY <1>3, <1>6, SetRegisters DEF u
<1>8. puts \in Seq(Int \X Words)
  <2>1. \A k \in 1..n : <<k, r.v[k]>> \in Int \X Words
    BY <1>3
  <2>2. QED BY <2>1
<1> HIDE DEF puts
<1>9. QED BY <1>1, <1>7, <1>8, PutStackGood

(* A reset leaves the limit off.                                           *)
LEMMA ResetGood ==
    ASSUME NEW s, NEW t, Good(s, t), ~UserMode(s)
    PROVE  Good(s, initPico(t))
<1> DEFINE u == initPico(t)
           psr == 2^PSR.SU + (IF boot8 THEN 2^PSR.BM8 ELSE 0)
<1>1. MachineOK(t)
  BY DEF Good, Sound
<1>2. psr \in Words
  <2>1. 2^PSR.SU = 2^5 /\ 2^PSR.BM8 = 2^14
    BY Zenon DEF PSR
  <2>2. 2^PSR.SU = 32 /\ 2^PSR.BM8 = 16384
    BY <2>1, SMT
  <2>3. psr \in {32, 16416}
    BY <2>2, SMT
  <2> HIDE DEF psr
  <2>4. QED BY <2>3, Constants, SMT
<1>3. StackBase \in Words /\ 0 \in Words
  BY Constants, SMT DEF StackBase
<1>4. /\ u = [x \in Fields |-> u[x]]
      /\ \A x \in {"oplim", "trapbase", "frame", "const_pool", "pc", "gcConfig", "brk12c"} :
            u[x] = 0
      /\ \A x \in {"vars", "optop", "scBottom"} : u[x] = StackBase
      /\ u.psr = psr /\ u.uIRLState = 0
      /\ \A x \in {"userrange1", "userrange2", "brk1a", "brk2a", "junk", "lockCount",
                   "lockAddr", "global", "mem", "sc", "exc"} : u[x] = t[x]
  <2> HIDE DEF u, psr
  <2>1. t = [x \in Fields |-> t[x]]
    BY <1>1 DEF MachineOK, Fields
  <2>2. u = [t EXCEPT !.bPowerDownState = FALSE, !.bNMIState = FALSE,
                      !.uIRLState = 0, !.vars = StackBase, !.oplim = 0,
                      !.trapbase = 0, !.frame = 0, !.const_pool = 0, !.pc = 0,
                      !.gcConfig = 0, !.brk12c = 0, !.optop = StackBase,
                      !.scBottom = StackBase, !.psr = psr]
    BY DEF u, psr, initPico
  <2>3. u = [x \in Fields |-> u[x]]
    BY <2>1, <2>2
  <2>4. \A x \in {"oplim", "trapbase", "frame", "const_pool", "pc", "gcConfig", "brk12c"} :
            u[x] = 0
    BY <2>1, <2>2 DEF Fields, WordRegisters, OtherFields
  <2>5. /\ \A x \in {"vars", "optop", "scBottom"} : u[x] = StackBase
        /\ u.psr = psr /\ u.uIRLState = 0
    BY <2>1, <2>2 DEF Fields, WordRegisters, OtherFields
  <2>6. \A x \in {"userrange1", "userrange2", "brk1a", "brk2a", "junk", "lockCount",
                   "lockAddr", "global", "mem", "sc", "exc"} : u[x] = t[x]
    BY <2>1, <2>2 DEF Fields, WordRegisters, OtherFields
  <2>7. QED BY <2>3, <2>4, <2>5, <2>6
<1> HIDE DEF u, psr
<1>5. MachineOK(u)
  <2>1. \A r \in WordRegisters : u[r] \in Words
    <3>1. /\ t.userrange1 \in Words /\ t.userrange2 \in Words /\ t.brk1a \in Words
          /\ t.brk2a \in Words /\ t.junk \in Words
      BY <1>1 DEF MachineOK, WordRegisters
    <3> DEFINE zero == {"oplim", "trapbase", "frame", "const_pool", "pc", "gcConfig", "brk12c"}
               base == {"vars", "optop", "scBottom"}
               kept == {"userrange1", "userrange2", "brk1a", "brk2a", "junk"}
    <3>2. WordRegisters = zero \cup base \cup kept \cup {"psr"}
      BY DEF WordRegisters
    <3>3. (\A r \in zero : u[r] = 0) /\ (\A r \in base : u[r] = StackBase) /\ u.psr = psr
      BY <1>4
    <3>4. \A r \in kept : u[r] \in Words
      BY <1>4, <3>1
    <3> HIDE DEF zero, base, kept
    <3>5. QED BY <1>2, <1>3, <3>2, <3>3, <3>4
  <2>2. u = [x \in WordRegisters \cup OtherFields |-> u[x]]
    BY <1>4 DEF Fields
  <2>3. /\ u.lockCount \in [LockRegs -> Words] /\ u.lockAddr \in [LockRegs -> Words]
        /\ u.global \in [Globals -> Words] /\ u.uIRLState \in 0..15
    BY <1>1, <1>4 DEF MachineOK
  <2>4. /\ \A a \in DOMAIN u.mem : a \in DOMAIN Image /\ u.mem[a] \in Words
        /\ \A k \in DOMAIN u.sc : k \in 0..(SCACHE_SIZE - 1) /\ u.sc[k] \in Words
        /\ ExceptionOK(u.exc)
    BY <1>1, <1>4 DEF MachineOK
  <2>5. QED BY <2>1, <2>2, <2>3, <2>4 DEF MachineOK
<1>6. ~LimitEnabled(u)
  BY <1>4, Constants, SMT DEF LimitEnabled
<1>7. QED BY <1>5, <1>6 DEF Good, Sound, Steady, AboveLimit, LimitOff, u

LEMMA PowerdownDone ==
    ASSUME NEW s, NEW t, Good(s, t), NEW i, InstructionOK(i)
    PROVE  Done(s, PrivPowerdown(t, i)) /\ Done(s, PrivReset(t))
<1> DEFINE u == [t EXCEPT !.bPowerDownState = TRUE]
<1>1. Good(s, u)
  <2>1. "bPowerDownState" \in OtherFields \ {"exc"} /\ StorageOK("bPowerDownState", TRUE)
    BY DEF OtherFields, StorageOK
  <2>2. QED BY <2>1, SetStorage
<1>2. PrivPowerdown(t, i) = IF NonPriv(t) THEN PrivTrap(t) ELSE SizeAndStack(u, i.len, 0)
  BY DEF PrivPowerdown
<1> HIDE DEF u
<1>3. Good(s, SizeAndStack(u, i.len, 0))
  BY <1>1, SizeOfGood
<1>4. QED BY <1>2, <1>3, ResetGood, PrivTrapDone, GoodDone DEF PrivReset

-----------------------------------------------------------------------------
LEMMA ExtLoadGood ==
    ASSUME NEW s, NEW t, Good(s, t), NEW i, InstructionOK(i), i.t \in DOMAIN SizeOf
    PROVE  Good(s, ExtLoad(t, i))
<1> DEFINE a == Top(t, 1)
           w == CHECK_ADDRESS_ALIGNMENT(a.m, a.v[1], i.t)
           l == LoadValue(w, a.v[1], i.t, NonCacheable(i, a.v[1]), LittleEndian(i, a.v[1]))
           b == w.junk % 2^ByteBits
           r == IF ToSerialPort(i, a.v[1]) THEN [m |-> w, v |-> b] ELSE l
<1>1. ExtLoad(t, i) = Result(r.m, i, 1, 1, <<r.v>>)
  BY DEF ExtLoad, Then
<1> HIDE DEF a
<1>2. Good(s, a.m) /\ a.v[1] \in Words
  BY TopGot, TopWords DEF a
<1>3. a.v[1] \in Int
  BY <1>2, Constants
<1>4. Good(s, w)
  BY <1>2, AlignmentGood
<1> HIDE DEF w, l
<1>5. Got(s, l)
  BY <1>3, <1>4, LoadValueGot DEF l
<1>6. b \in Words
  <2>1. w.junk \in Words
    BY <1>4, RegistersOf
  <2>2. w.junk \in Int
    BY <2>1, Constants
  <2>3. 2^ByteBits = 2^4
    BY Zenon DEF ByteBits
  <2>4. b = w.junk % 16
    BY <2>3, SMT
  <2> HIDE DEF b
  <2>5. b \in Int /\ 0 <= b /\ b < 16
    BY <2>2, <2>4, SMT
  <2>6. QED BY <2>5, Constants, SMT
<1> HIDE DEF b
<1>7. Got(s, r)
  BY <1>4, <1>5, <1>6 DEF Got
<1> HIDE DEF r
<1>8. Gives(<<r.v>>, 1)
  BY <1>7, GivesOne DEF Got
<1>9. QED BY <1>1, <1>7, <1>8, ResultGood DEF Got

LEMMA MailboxGood ==
    ASSUME NEW s, NEW t, Good(s, t), NEW i, NEW a, NEW v
    PROVE  Good(s, Mailbox(t, i, a, v))
<1> DEFINE e == [t EXCEPT !.end_of_simulation = TRUE]
           f == [e EXCEPT !.program_exit_code = v]
           g == [t EXCEPT !.uIRLState = 0]
           h == [g EXCEPT !.bNMIState = FALSE]
<1>1. Mailbox(t, i, a, v) \in {t, [t EXCEPT !.end_of_simulation = TRUE, !.program_exit_code = v],
                                [t EXCEPT !.uIRLState = 0, !.bNMIState = FALSE]}
  BY DEF Mailbox
<1>2. /\ [t EXCEPT !.end_of_simulation = TRUE, !.program_exit_code = v] = f
      /\ [t EXCEPT !.uIRLState = 0, !.bNMIState = FALSE] = h
  OBVIOUS
<1>3. {"end_of_simulation", "program_exit_code", "uIRLState", "bNMIState"}
        \subseteq OtherFields \ {"exc"}
  BY DEF OtherFields
<1>4. /\ StorageOK("end_of_simulation", TRUE) /\ StorageOK("program_exit_code", v)
      /\ StorageOK("uIRLState", 0) /\ StorageOK("bNMIState", FALSE)
  BY DEF StorageOK
<1>5. Good(s, e)
  BY <1>3, <1>4, SetStorage
<1> HIDE DEF e
<1>6. Good(s, f)
  BY <1>3, <1>4, <1>5, SetStorage
<1>7. Good(s, g)
  BY <1>3, <1>4, SetStorage
<1> HIDE DEF g
<1>8. Good(s, h)
  BY <1>3, <1>4, <1>7, SetStorage
<1>9. QED BY <1>1, <1>2, <1>6, <1>8, Zenon

LEMMA ExtStoreGood ==
    ASSUME NEW s, NEW t, Good(s, t), NEW i, InstructionOK(i), i.t \in DOMAIN SizeOf
    PROVE  Good(s, ExtStore(t, i))
<1> DEFINE a == Top(t, 1)
           w == CHECK_ADDRESS_ALIGNMENT(a.m, a.v[1], i.t)
           le == LittleEndian(i, a.v[1])
           r == ReadWord(w, OPTOP_OFFSET(w, 2), "O")
           c == IF NonCacheable(i, a.v[1]) THEN "N" ELSE "Z"
           st == StoreValue(r.m, a.v[1], r.v, i.t, c, le)
           u == IF ToSerialPort(i, a.v[1]) THEN r.m ELSE st
           z == Mailbox(u, i, a.v[1] % AddrSpace, Endian(r.v, 2, le))
<1>1. ExtStore(t, i) = SizeAndStack(z, i.len, -2)
  BY DEF ExtStore, Then
<1> HIDE DEF a
<1>2. Good(s, a.m) /\ a.v[1] \in Words
  BY TopGot, TopWords DEF a
<1>3. a.v[1] \in Int
  BY <1>2, Constants
<1>4. Good(s, w)
  BY <1>2, AlignmentGood
<1> HIDE DEF w, r, le, c, st
<1>5. Got(s, r)
  BY <1>4, WordGot DEF r
<1>6. Good(s, st)
  BY <1>3, <1>5, StoreValueGood DEF st, Got
<1>7. Good(s, u)
  BY <1>5, <1>6 DEF Got
<1> HIDE DEF u
<1>8. Good(s, z)
  BY <1>7, MailboxGood
<1> HIDE DEF z
<1>9. Good(s, SizeAndStack(z, i.len, -2))
  BY <1>8, SizeOfGood
<1>10. QED BY <1>1, <1>9

LEMMA IucmpGood ==
    ASSUME NEW s, NEW t, Good(s, t), NEW i, InstructionOK(i)
    PROVE  Good(s, Iucmp(t, i))
<1> DEFINE r == Top(t, 2)
           w == Order(r.v[2] < r.v[1], r.v[1] < r.v[2])
<1>1. Iucmp(t, i) = Result(r.m, i, 2, 1, <<w>>)
  BY DEF Iucmp, Then
<1>2. Good(s, r.m)
  BY TopGot DEF GotAll
<1>3. w \in Words
  BY Small DEF Order, Bool
<1> HIDE DEF r, w
<1>4. Gives(<<w>>, 1)
  BY <1>3, GivesOne
<1>5. QED BY <1>1, <1>2, <1>4, ResultGood

(***************************************************************************)
(* The switch of the extended instructions, which nothing pending reaches. *)
(***************************************************************************)
LEMMA ExtOpDone ==
    ASSUME NEW s, NEW t, Good(s, t), t.exc.id # Exc.OPLIM, NEW i, InstructionOK(i)
    PROVE  Done(s, vDoExtOp(t, i))
<1>1. Done(s, LowPriorityTrap(t, TT.soft_trap)) /\ Done(s, LowPriorityTrap(t, TT.illegal_instr))
  BY AnyTrapDone, TrapNumbers
<1>2. CASE i.op \in {"priv_update_optop", "get_current_class", "zero_line"}
  <2>1. Done(s, PrivUpdateOptop(t, i)) /\ Done(s, doGetCurrentClass(t, i)) /\ Done(s, ZeroLine(t, i))
    BY UpdateOptopDone, CurrentClassGood, ZeroLineDone, GoodDone
  <2>2. QED BY <1>2, <2>1, PrivTrapDone DEF vDoExtOp
<1>3. CASE i.op \in {"cache_flush", "cache_index_flush", "cache_invalidate", "soft_trap"}
  <2>1. Done(s, CacheFlush(t, i)) /\ Done(s, CacheInvalidate(t, i))
    BY CacheFlushGood, CacheInvalidateGood, GoodDone
  <2>2. QED BY <1>1, <1>3, <2>1 DEF vDoExtOp
<1>4. CASE i.op \in {"priv_read_cache", "priv_write_cache", "priv_ret_from_trap"}
  BY <1>4, CacheWordDone, RetFromTrapDone DEF vDoExtOp
<1>5. CASE i.op \in {"read_reg", "write_reg"}
  <2>1. Done(s, ReadReg(t, i)) /\ Done(s, WriteReg(t, i))
    BY <1>5, RegisterOf, ReadRegDone, WriteRegDone
  <2>2. QED BY <1>5, <2>1 DEF vDoExtOp
<1>6. CASE i.op \in {"call", "return_n", "priv_reset", "priv_powerdown"}
  <2>1. i.op = "return_n" => Done(s, ReturnN(t, i.x))
    <3>1. i.op = "return_n" => i.x \in 0..2
      BY DEF InstructionOK
    <3>2. QED BY <3>1, ReturnNGood, GoodDone
  <2>2. Done(s, Call(t, i)) /\ Done(s, PrivReset(t)) /\ Done(s, PrivPowerdown(t, i))
    BY CallGood, PowerdownDone, GoodDone
  <2>3. QED BY <1>6, <2>1, <2>2 DEF vDoExtOp
<1>7. CASE i.op \in {"ext_load", "ext_store"}
  <2>1. i.t \in DOMAIN SizeOf
    BY <1>7, TypeOf DEF WithType
  <2>2. Done(s, ExtLoad(t, i)) /\ Done(s, ExtStore(t, i))
    BY <2>1, ExtLoadGood, ExtStoreGood, GoodDone
  <2>3. QED BY <1>7, <2>2 DEF vDoExtOp
<1>8. CASE i.op = "iucmp"
  BY <1>1, <1>8, IucmpGood, GoodDone DEF vDoExtOp
<1>9. CASE i.op \notin ExtendedInstructions \ {"ext_illegal"}
  BY <1>1, <1>9 DEF vDoExtOp, ExtendedInstructions
<1>10. QED
  BY <1>2, <1>3, <1>4, <1>5, <1>6, <1>7, <1>8, <1>9 DEF ExtendedInstructions

-----------------------------------------------------------------------------
(***************************************************************************)
(* The main loop.  An exception a read finds pending stays pending.        *)
(***************************************************************************)
LEMMA ReadPending ==
    ASSUME NEW s, NEW t, Good(s, t), t.exc.id # Exc.NO, NEW a, NEW c
    PROVE  ReadWord(t, a, c).m.exc.id # Exc.NO
<1> DEFINE w == Align(Word(a))
           eid == AccessFault(t, Word(a), c, TRUE)
           r == ReadWord(t, a, c)
<1>1. r = IF c \in StackTypes /\ ScacheHit(t, w) THEN [m |-> t, v |-> ScacheWord(t, w)]
          ELSE ReadMemory(t, w, eid)
  BY DEF ReadWord, javaMemRead
<1>2. eid \in {0, 3, 5, 6}
  BY FaultTyped DEF Exc
<1> HIDE DEF w, eid, r
<1>3. \/ ReadMemory(t, w, eid) = [m |-> t, v |-> MemWord(t, w)]
      \/ \E e \in 2..12 : ReadMemory(t, w, eid) = [m |-> vSetupException(t, e), v |-> t.junk]
  BY <1>2 DEF ReadMemory, Exc
<1>4. r.m = t \/ \E e \in 2..12 : r.m = vSetupException(t, e)
  BY <1>1, <1>3
<1>5. ASSUME NEW e \in 2..12 PROVE vSetupException(t, e).exc.id # Exc.NO
  <2>1. Steady(s, t)
    BY DEF Good
  <2>2. QED BY <2>1, SetupGood
<1>6. QED BY <1>4, <1>5 DEF r

LEMMA ReadAllPending ==
    ASSUME NEW s, NEW t, Good(s, t), t.exc.id # Exc.NO,
           NEW c, NEW n \in Nat, NEW addrs, DOMAIN addrs = 1..n
    PROVE  ReadAll(t, addrs, c).m.exc.id # Exc.NO
<1>1. PICK a : /\ ReadAll(t, addrs, c) = a[n] /\ a[0] = NoneRead(t)
               /\ \A k \in 0..n - 1 : a[k + 1] = ReadOne(a[k], addrs[k + 1], c)
  BY ReadSteps
<1> DEFINE T == {k \in 0..n : Good(s, a[k].m) /\ a[k].m.exc.id # Exc.NO}
<1>2. 0 \in T
  <2>1. a[0].m = t /\ 0 \in 0..n
    BY <1>1 DEF NoneRead
  <2>2. QED BY <2>1
<1>3. ASSUME NEW k \in 0..n - 1, k \in T PROVE k + 1 \in T
  <2>1. PICK r : r = ReadWord(a[k].m, addrs[k + 1], c)
    OBVIOUS
  <2>2. Good(s, r.m) /\ r.m.exc.id # Exc.NO
    BY <1>3, <2>1, ReadGood, ReadPending
  <2>3. a[k + 1] = [m |-> r.m, v |-> Append(a[k].v, r.v)]
    BY <1>1, <2>1 DEF ReadOne
  <2>4. k + 1 \in 0..n
    OBVIOUS
  <2>5. QED BY <2>2, <2>3, <2>4
<1> HIDE DEF T
<1>4. n \in T
  BY <1>2, <1>3, Induction
<1>5. QED BY <1>1, <1>4 DEF T

LEMMA TopPending ==
    ASSUME NEW s, NEW t, Good(s, t), t.exc.id # Exc.NO, NEW n \in Nat
    PROVE  Top(t, n).m.exc.id # Exc.NO
<1> DEFINE addrs == [i \in 1..n |-> OPTOP_OFFSET(t, i)]
<1>1. Top(t, n) = ReadAll(t, addrs, "O") /\ DOMAIN addrs = 1..n
  BY DEF Top
<1> HIDE DEF addrs
<1>2. ReadAll(t, addrs, "O").m.exc.id # Exc.NO
  BY <1>1, ReadAllPending
<1>3. QED BY <1>1, <1>2

(* The loop begins with no exception pending.                              *)
LEMMA ClearGood ==
    ASSUME NEW s, Sound(s)
    PROVE  /\ Good(s, vClearAllExceptions(s)) /\ vClearAllExceptions(s).pc = s.pc
           /\ vClearAllExceptions(s).uIRLState = s.uIRLState
           /\ vClearAllExceptions(s).exc = NoException
<1> DEFINE u == vClearAllExceptions(s)
<1>1. MachineOK(s) /\ "exc" \in Fields
  BY DEF Sound, Fields, OtherFields
<1>2. u = [s EXCEPT !["exc"] = NoException]
  BY DEF vClearAllExceptions
<1>3. /\ u = [x \in Fields |-> u[x]] /\ u.exc = NoException
      /\ \A x \in Fields \ {"exc"} : u[x] = s[x]
  <2> HIDE DEF u
  <2>1. s = [x \in Fields |-> s[x]]
    BY <1>1 DEF MachineOK, Fields
  <2>2. QED BY <1>1, <1>2, <2>1
<1> HIDE DEF u
<1>3a. \A x \in WordRegisters \cup (OtherFields \ {"exc"}) : u[x] = s[x]
  BY <1>3 DEF Fields, WordRegisters, OtherFields
<1>4. MachineOK(u)
  <2>1. /\ u.lockCount \in [LockRegs -> Words] /\ u.lockAddr \in [LockRegs -> Words]
        /\ u.global \in [Globals -> Words] /\ u.uIRLState \in 0..15
    BY <1>1, <1>3a DEF MachineOK, OtherFields
  <2>2. \A a \in DOMAIN u.mem : a \in DOMAIN Image /\ u.mem[a] \in Words
    BY <1>1, <1>3a DEF MachineOK, OtherFields
  <2>3. \A k \in DOMAIN u.sc : k \in 0..(SCACHE_SIZE - 1) /\ u.sc[k] \in Words
    BY <1>1, <1>3a DEF MachineOK, OtherFields
  <2>4. /\ u = [x \in WordRegisters \cup OtherFields |-> u[x]]
        /\ \A x \in WordRegisters : u[x] \in Words
    BY <1>1, <1>3, <1>3a DEF MachineOK, Fields
  <2>5. ExceptionOK(u.exc)
    BY <1>3 DEF ExceptionOK
  <2>6. QED BY <2>1, <2>2, <2>3, <2>4, <2>5 DEF MachineOK
<1>5. \A x \in Privileged \cup {"optop", "oplim", "psr", "trapbase", "pc", "uIRLState"} : u[x] = s[x]
  BY <1>3 DEF Fields, WordRegisters, OtherFields, Privileged
<1>6. u.exc.id = Exc.NO /\ u.exc.id # Exc.OPLIM
  BY <1>3 DEF NoException, Exc
<1>7. AboveLimit(u) /\ LimitOff(u)
  BY <1>5, <1>6 DEF Sound, AboveLimit, LimitOff, LimitEnabled, Limit
<1>8. Kept(s, u) /\ u.psr = s.psr
  BY <1>5, <1>6 DEF Kept
<1>9. QED BY <1>3, <1>4, <1>5, <1>7, <1>8 DEF Good, Sound, Steady, u

LEMMA FetchGood ==
    ASSUME NEW s, Sound(s)
    PROVE  /\ Good(s, Fetch(s))
           /\ Fetched(s) => /\ Fetch(s).pc \in DOMAIN Code
                            /\ Fetch(s).exc.id # Exc.OPLIM
<1> DEFINE c == vClearAllExceptions(s)
           eid == BreakAtPc(c)
           b == vSetupException(c, eid)
           n == IF s.pc \in DOMAIN Code THEN c ELSE vSetupException(c, Exc.INSTR_ACC)
           o == Top(n, 4)
           f == Fetch(s)
<1>1. f = IF eid # Exc.NO THEN b ELSE o.m
  BY DEF Fetch, Then
<1>2. Good(s, c) /\ c.pc = s.pc
  BY ClearGood
<1>3. eid \in {Exc.NO, Exc.DBR1, Exc.DBR2}
  BY DEF BreakAtPc
<1> HIDE DEF c, eid, f
<1>4. CASE eid # Exc.NO
  <2>1. eid \in 2..12 /\ eid # Exc.OPLIM
    BY <1>3, <1>4 DEF Exc
  <2>2. Good(s, b) /\ b.exc.id # Exc.NO
    <3>1. Steady(s, c)
      BY <1>2 DEF Good
    <3>2. QED BY <1>2, <2>1, <3>1, SetupGood
  <2> HIDE DEF b
  <2>3. QED BY <1>1, <1>4, <2>2 DEF Fetched, bAnyExceptionPending, f
<1>5. CASE eid = Exc.NO
  <2>1. Exc.INSTR_ACC \in 2..12 /\ Exc.INSTR_ACC # Exc.OPLIM /\ "pc" \in Fields \ {"exc"}
    BY DEF Exc, Fields, WordRegisters
  <2>2. /\ Good(s, n) /\ n.pc = s.pc
        /\ s.pc \notin DOMAIN Code => n.exc.id # Exc.NO
    <3> DEFINE w == vSetupException(c, Exc.INSTR_ACC)
    <3>1. Steady(s, c)
      BY <1>2 DEF Good
    <3>2. Good(s, w) /\ w.pc = s.pc /\ w.exc.id # Exc.NO
      BY <1>2, <2>1, <3>1, SetupGood
    <3> HIDE DEF w
    <3>3. QED BY <1>2, <3>2 DEF w
  <2> HIDE DEF n
  <2>3. Good(s, o.m) /\ Stays(n, o.m)
    BY <2>2, TopGood
  <2>4. n.exc.id # Exc.NO => o.m.exc.id # Exc.NO
    BY <2>2, TopPending
  <2>5. o.m.pc = s.pc
    BY <2>2, <2>3 DEF Stays, Fields, WordRegisters
  <2> HIDE DEF o
  <2>6. f = o.m
    BY <1>1, <1>5
  <2>7. Exc.NO # Exc.OPLIM
    BY DEF Exc
  <2>8. QED BY <2>2, <2>3, <2>4, <2>5, <2>6, <2>7 DEF Fetched, bAnyExceptionPending, f
<1>6. QED BY <1>4, <1>5

LEMMA IterateDone ==
    ASSUME NEW s, Sound(s)
    PROVE  /\ Done(s, Iterate(s))
           /\ Done(s, vDespatchPendingException(Fetch(s)))
<1> DEFINE f == Fetch(s)
           x == Execute(f)
<1>1. Iterate(s) = vDespatchPendingException(IF bAnyExceptionPending(f) THEN f ELSE x)
  BY DEF Iterate, Then
<1>2. /\ Good(s, f)
      /\ ~bAnyExceptionPending(f) => f.pc \in DOMAIN Code /\ f.exc.id # Exc.OPLIM
  BY FetchGood DEF Fetched
<1>3. Done(s, f)
  BY <1>2, GoodDone
<1> HIDE DEF f
<1>4. ASSUME ~bAnyExceptionPending(f) PROVE Done(s, x)
  <2>1. PICK i : i = Code[f.pc] /\ InstructionOK(i)
    BY <1>2, <1>4, MachinesAssumption
  <2>2. x = IF i.op \in ExtendedInstructions THEN vDoExtOp(f, i) ELSE vDoJVMOp(f, i)
    BY <2>1 DEF Execute
  <2> HIDE DEF x
  <2>3. Done(s, vDoExtOp(f, i)) /\ Done(s, vDoJVMOp(f, i))
    BY <1>2, <1>4, <2>1, ExtOpDone, JVMOpDone
  <2>4. QED BY <2>2, <2>3
<1> HIDE DEF x
<1>5. QED BY <1>1, <1>3, <1>4, DespatchDone DEF f

LEMMA InterruptDone ==
    ASSUME NEW s, Sound(s)
    PROVE  Done(s, TakeInterrupt(s))
<1> DEFINE c == vClearAllExceptions(s)
           u == [c EXCEPT !.bPowerDownState = FALSE]
           tt == IF s.bNMIState THEN TT.nmi ELSE TT.interrupt_level_tt_base + s.uIRLState - 1
<1>1. TakeInterrupt(s) = invoke_trap(u, tt)
  BY DEF TakeInterrupt
<1>2. Good(s, c)
  BY ClearGood
<1> HIDE DEF c
<1>3. Good(s, u)
  <2>1. "bPowerDownState" \in OtherFields \ {"exc"} /\ StorageOK("bPowerDownState", FALSE)
    BY DEF OtherFields, StorageOK
  <2>2. QED BY <1>2, <2>1, SetStorage
<1> HIDE DEF u
<1>4. tt \in 0..255 \ {TT.oplim_trap}
  <2>1. s.uIRLState \in 0..15
    BY DEF Sound, MachineOK
  <2>2. QED BY <2>1 DEF TT
<1> HIDE DEF tt
<1>5. QED BY <1>1, <1>3, <1>4, AnyTrapDone

(* An interrupt is signalled in the middle of anything.                    *)
LEMMA SignalDone ==
    ASSUME NEW s, Sound(s), NEW r \in {"uIRLState", "bNMIState"}, NEW v,
           r = "uIRLState" => v \in 0..15, NEW u, u = [s EXCEPT ![r] = v]
    PROVE  Sound(u) /\ (UserMode(s) => PrivilegedStay(s, u))
<1>1. MachineOK(s) /\ r \in Fields
  BY DEF Sound, Fields, OtherFields
<1>2. u = [x \in Fields |-> u[x]] /\ u[r] = v /\ \A x \in Fields \ {r} : u[x] = s[x]
  <2>1. s = [x \in Fields |-> s[x]]
    BY <1>1 DEF MachineOK, Fields
  <2>2. QED BY <1>1, <2>1
<1>3. \A x \in WordRegisters \cup {"exc", "lockCount", "lockAddr", "global", "mem", "sc"} :
         u[x] = s[x]
  BY <1>2 DEF Fields, WordRegisters, OtherFields
<1>4. u.uIRLState \in 0..15
  BY <1>1, <1>2 DEF MachineOK, Fields, OtherFields
<1>5. MachineOK(u)
  <2>1. /\ u.lockCount \in [LockRegs -> Words] /\ u.lockAddr \in [LockRegs -> Words]
        /\ u.global \in [Globals -> Words]
    BY <1>1, <1>3 DEF MachineOK
  <2>2. \A a \in DOMAIN u.mem : a \in DOMAIN Image /\ u.mem[a] \in Words
    BY <1>1, <1>3 DEF MachineOK
  <2>3. \A k \in DOMAIN u.sc : k \in 0..(SCACHE_SIZE - 1) /\ u.sc[k] \in Words
    BY <1>1, <1>3 DEF MachineOK
  <2>4. /\ u = [x \in WordRegisters \cup OtherFields |-> u[x]]
        /\ \A x \in WordRegisters : u[x] \in Words
    BY <1>1, <1>2, <1>3 DEF MachineOK, Fields
  <2>5. ExceptionOK(u.exc)
    BY <1>1, <1>3 DEF MachineOK
  <2>6. QED BY <1>4, <2>1, <2>2, <2>3, <2>4, <2>5 DEF MachineOK
<1>6. \A x \in Privileged \cup {"optop", "oplim", "psr", "trapbase"} : u[x] = s[x]
  BY <1>3 DEF WordRegisters, Privileged
<1>7. AboveLimit(u) /\ LimitOff(u)
  BY <1>3, <1>6 DEF Sound, AboveLimit, LimitOff, LimitEnabled, Limit
<1>8. UserMode(s) => PrivilegedStay(s, u)
  BY <1>6 DEF PrivilegedStay, UserMode
<1>9. QED BY <1>5, <1>7, <1>8 DEF Sound

-----------------------------------------------------------------------------
(***************************************************************************)
(* A machine made of s by one step keeps what s has to keep.               *)
(***************************************************************************)
LEMMA DoneStays ==
    ASSUME NEW s, Sound(s), NEW t, Done(s, t)
    PROVE  Sound(t) /\ (UserMode(s) => PrivilegedStay(s, t))
<1>1. Sound(t)
  BY DEF Done
<1>2. ASSUME UserMode(s) PROVE PrivilegedStay(s, t)
  <2>1. /\ \A r \in Privileged : t[r] = s[r]
        /\ t.trapbase \div 2^11 = s.trapbase \div 2^11
        /\ t.psr = s.psr \/ t.psr = TrapPsr(s.psr)
    BY <1>2 DEF Done, Kept
  <2>2. s.psr \in Words
    BY DEF Sound, MachineOK, WordRegisters
  <2>3. t.psr = IF UserMode(t) THEN s.psr ELSE TrapPsr(s.psr)
    <3>1. CASE t.psr = s.psr
      BY <1>2, <3>1 DEF UserMode
    <3>2. CASE t.psr = TrapPsr(s.psr)
      BY <2>2, <3>2, TrapPsrTyped DEF UserMode
    <3>3. QED BY <2>1, <3>1, <3>2
  <2>4. QED BY <2>1, <2>3 DEF PrivilegedStay, TrapPsr
<1>3. QED BY <1>1, <1>2

(***************************************************************************)
(* The inductive invariant: the machine between two iterations is          *)
(* well-formed and its stack above the limit, and an exception that OPLIM  *)
(* raised has switched the limit off, the strengthening AboveLimit needs.  *)
(***************************************************************************)
IInv == Sound(m) /\ signals \in 0..MaxSignals /\ waits \in Nat

LEMMA InitIInv == Init => IInv
<1> SUFFICES ASSUME Init PROVE IInv
  OBVIOUS
<1>1. MachineOK(m) /\ m.exc = NoException /\ AboveLimit(m)
  BY MachinesAssumption DEF Init
<1>2. LimitOff(m)
  BY <1>1 DEF LimitOff, NoException, Exc
<1>3. signals \in 0..MaxSignals /\ waits \in Nat
  BY InstructionsAssumption DEF Init
<1>4. QED BY <1>1, <1>2, <1>3 DEF IInv, Sound

LEMMA StepIInv ==
    ASSUME IInv, [Next]_vars
    PROVE  IInv' /\ (UserMode(m) => m' = m \/ PrivilegedStay(m, m'))
<1>1. Sound(m) /\ signals \in 0..MaxSignals /\ waits \in Nat
  BY DEF IInv
<1>2. CASE AcceptInterrupt
  <2>1. Done(m, m') /\ signals' = signals /\ waits' = waits + 1
    BY <1>1, <1>2, InterruptDone DEF AcceptInterrupt, Waiting, Quiet
  <2>2. QED BY <1>1, <2>1, DoneStays DEF IInv
<1>3. CASE PoweredDown
  <2>1. Good(m, m') /\ signals' = signals /\ waits' = waits
    BY <1>1, <1>3, ClearGood DEF PoweredDown, Quiet
  <2>2. QED BY <1>1, <2>1, GoodDone, DoneStays DEF IInv
<1>4. CASE FetchFault
  <2>1. Done(m, m') /\ signals' = signals /\ waits' = waits + 1
    BY <1>1, <1>4, IterateDone DEF FetchFault, Waiting, Quiet
  <2>2. QED BY <1>1, <2>1, DoneStays DEF IInv
<1>5. CASE Interpret
  <2>1. Done(m, m') /\ signals' = signals /\ waits' \in {0, waits + 1}
    BY <1>1, <1>5, IterateDone DEF Interpret, Observe
  <2>2. QED BY <1>1, <2>1, DoneStays DEF IInv
<1>6. ASSUME NEW irl \in Levels, vSetInterrupt(irl)
      PROVE  IInv' /\ (UserMode(m) => PrivilegedStay(m, m'))
  <2>1. irl \in 0..15 /\ MaxSignals \in Nat
    BY <1>6, InstructionsAssumption
  <2>2. signals' \in 0..MaxSignals /\ waits' = waits
    BY <1>1, <1>6, <2>1 DEF vSetInterrupt
  <2>3. \/ m' = [m EXCEPT !["uIRLState"] = irl]
        \/ m' = [m EXCEPT !["bNMIState"] = TRUE]
    BY <1>6 DEF vSetInterrupt
  <2>4. Sound(m') /\ (UserMode(m) => PrivilegedStay(m, m'))
    <3>1. PICK s, u : s = m /\ u = m'
      OBVIOUS
    <3>2. Sound(s)
      BY <1>1, <3>1
    <3>3. CASE u = [s EXCEPT !["uIRLState"] = irl]
      BY <2>1, <3>1, <3>2, <3>3, SignalDone
    <3>4. CASE u = [s EXCEPT !["bNMIState"] = TRUE]
      BY <3>1, <3>2, <3>4, SignalDone
    <3>5. QED BY <2>3, <3>1, <3>3, <3>4
  <2>5. QED BY <1>1, <2>2, <2>4 DEF IInv
<1>7. CASE UNCHANGED vars
  BY <1>1, <1>7 DEF vars, IInv, Sound, MachineOK, AboveLimit, LimitOff
<1>8. QED BY <1>2, <1>3, <1>4, <1>5, <1>6, <1>7 DEF Next, Loop

(* It holds in every state.                                                *)
LEMMA SpecIInv == Spec => []IInv
  BY InitIInv, StepIInv, PTL DEF Spec

-----------------------------------------------------------------------------
(***************************************************************************)
(* Whatever the programs, handlers and memory: every register of the       *)
(* simulator's machine holds a word, the lock registers, the memory, the   *)
(* stack cache and a pending exception are well-formed, and the number of  *)
(* signals stays within its bound, whichever instructions of iam.c,        *)
(* jvm_ops.c and the extended opcodes run and whatever traps they take.    *)
(***************************************************************************)
THEOREM TypeCorrect == Spec => []TypeOK
<1>1. IInv => TypeOK
  BY DEF IInv, TypeOK, Sound
<1>2. QED BY <1>1, SpecIInv, PTL

(***************************************************************************)
(* With the limit enabled, the stack never reaches below it, not even for  *)
(* the frame of a trap: every change of OPTOP in the simulator tests the   *)
(* limit, and the OPLIM trap itself switches it off before it pushes.      *)
(***************************************************************************)
THEOREM LimitKept == Spec => []StackAboveLimit
<1>1. IInv => StackAboveLimit
  BY DEF IInv, StackAboveLimit, Sound
<1>2. QED BY <1>1, SpecIInv, PTL

(***************************************************************************)
(* In user mode no program, however it is written, changes a register only *)
(* privileged instructions write, the place of the trap table or the PSR,  *)
(* except that a trap sets SU and clears IE.                               *)
(***************************************************************************)
THEOREM PrivilegedRegistersStay ==
    Spec => [][UserMode(m) => PrivilegedStay(m, m')]_vars
<1>1. ASSUME IInv, [Next]_vars
      PROVE  [UserMode(m) => PrivilegedStay(m, m')]_vars
  <2>1. CASE m' = m
    BY <2>1 DEF PrivilegedStay
  <2>2. CASE m' # m
    BY <1>1, <2>2, StepIInv
  <2>3. QED BY <2>1, <2>2
<1>2. QED BY <1>1, SpecIInv, PTL DEF Spec
=============================================================================
