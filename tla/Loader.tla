------------------------------- MODULE Loader -------------------------------
(***************************************************************************)
(* The class loader of the simulator: loadClassFile with the superclasses  *)
(* it pulls in (loader.c), the layout of objects and method vectors        *)
(* (res.c), the structures written into the simulated memory (copy.c), the *)
(* class tables there (cm.c), and loadTrapHandlers, which boots the system *)
(* classes and the trap handlers before any command (loadtraps.c).         *)
(*                                                                         *)
(* Loading recurses on superclasses: loading is the stack of activations   *)
(* of loadClassFile, innermost first.  A class file is its fields, its     *)
(* methods and its superclass; parsing either succeeds or fails.  The      *)
(* files change between commands, as a user adds what was missing.         *)
(***************************************************************************)
EXTENDS Integers, FiniteSets, Sequences, Functions

CONSTANTS
    Classes,    \* names of classes; a file holds the class of its name
    Super,      \* Super[c]: the superclass, the root its own
    FieldsOf,   \* FieldsOf[c]: fields [size, static] in the order of the file
    MethodsOf,  \* MethodsOf[c]: methods [key, virtual, handlers] in that order
    Bucket,     \* Bucket[c]: where the name hashes to
    FileSize,   \* FileSize[c]: length of the class file
    Footprint,  \* Footprint[c]: memory the class takes once copied
    CM_SIZE,    \* memory of the simulated machine behind the class tables
    InitFiles,  \* class names and <<>>, for a file named "binit", that have an initialization file of a kind
    Boot,       \* classes in the order loadTrapHandlers loads them
    TrapOf,     \* TrapOf[c]: the trap a handler class of Boot serves
    FilesAtBoot \* what may be on disk when the simulator starts

\* The classes copy.c knows by name, the last of which ends bootstrapping.
Kinds == {"Object", "Class", "Field", "Method", "ExceptionBlock"}

Null == "null"

\* Function g with v at k, where it may not have been defined.
Put(g, k, v) == [x \in DOMAIN g \cup {k} |-> IF x = k THEN v ELSE g[x]]

\* The classes a class inherits from, itself first.
Chain[c \in Classes] ==
    IF Super[c] = c THEN <<c>> ELSE <<c>> \o Chain[Super[c]]

\* Superclasses do not go round in a circle, and no class file has two methods
\* of the same signature: the loader checks neither.
ASSUME LoaderAssumption ==
    /\ IsFiniteSet(Classes) /\ Kinds \subseteq Classes /\ Null \notin Classes
    /\ Super \in [Classes -> Classes]
    /\ \E order \in [Classes -> 0..Cardinality(Classes)] :
            \A c \in Classes : Super[c] # c => order[Super[c]] < order[c]
    /\ DOMAIN FieldsOf = Classes /\ DOMAIN MethodsOf = Classes
    /\ \A c \in Classes : /\ FieldsOf[c] \in Seq([size : {1, 2}, static : BOOLEAN])
                          /\ MethodsOf[c] \in Seq(Range(MethodsOf[c]))
                          /\ \A k \in DOMAIN MethodsOf[c] :
                                MethodsOf[c][k].virtual \in BOOLEAN
                          /\ IsInjective([k \in DOMAIN MethodsOf[c] |-> MethodsOf[c][k].key])
    /\ DOMAIN Bucket = Classes
    /\ FileSize \in [Classes -> Nat] /\ Footprint \in [Classes -> Nat]
    /\ CM_SIZE \in Nat
    /\ Boot \in Seq(Classes)
    /\ DOMAIN TrapOf \subseteq Range(Boot) /\ IsInjective(TrapOf)
    /\ FilesAtBoot \subseteq [Classes -> {"missing", "bad", "good"}]

VARIABLES
    files,          \* the class files on disk
    loading,        \* activations of loadClassFile, innermost first
    result,         \* what the last activation returned
    boot,           \* next class of Boot, Len(Boot) + 1 for the Tcl shell, 0 after exit
    binclasses,     \* binclasses[]: classes collected, with their layout
    initialized,    \* initialization files read, in order
    classTable,     \* the class table in simulated memory
    hashTable,      \* the first class of each chain of the hash table
    next,           \* decafClass.next: the chains
    objects,        \* class objects in simulated memory: whom their headers name
    classCount,     \* Class.classCount, a static field of the program
    known,          \* mvb_*, classptr_*: kinds whose method vector is known
    bsdone,         \* bootstrapping is done
    currentAddress, \* next free memory
    trapTable       \* constant pool of each trap's handler

vars == <<files, loading, result, boot, binclasses, initialized, classTable,
          hashTable, next, objects, classCount, known, bsdone, currentAddress,
          trapTable>>

diskVars  == <<files, boot>>
hostVars  == <<binclasses, initialized>>
tableVars == <<classTable, hashTable, next, objects, classCount, known, bsdone>>
memVars   == <<tableVars, currentAddress, trapTable>>

-----------------------------------------------------------------------------
(***************************************************************************)
(* Layout (res.c).  A layout is the slot table, the offset of each field,  *)
(* the method vector and the index of each method in it.  A field or a     *)
(* method is named by its class and its place in the file; the second slot *)
(* of a long or a double has none.                                         *)
(***************************************************************************)
Unresolved == [resolved |-> FALSE, slots |-> <<>>, offset |-> <<>>,
               vector |-> <<>>, index |-> <<>>]

\* Seeded fault: a long takes one slot.
FieldSlots_Fault(c, k) == IF FieldsOf[c][k].static THEN <<>> ELSE <<<<c, k>>>>

\* The slots field k of class c takes.
FieldSlots(c, k) ==
    IF FieldsOf[c][k].static THEN <<>>
    ELSE IF FieldsOf[c][k].size = 2 THEN <<<<c, k>>, <<>>>> ELSE <<<<c, k>>>>

\* The slots of the first k fields of class c.
OwnSlots(c) ==
    LET slots[k \in 0..Len(FieldsOf[c])] ==
            IF k = 0 THEN <<>> ELSE slots[k - 1] \o FieldSlots(c, k)
    IN  slots

\* resolveFields: the superclass's slots, then those of the fields.
SlotTable(c, inherited) == inherited \o OwnSlots(c)[Len(FieldsOf[c])]

FieldOffsets(c, inherited) ==
    [k \in DOMAIN FieldsOf[c] |-> Len(inherited) + Len(OwnSlots(c)[k - 1])]

Key(m) == MethodsOf[m[1]][m[2]].key

\* Seeded fault: an overriding method gets an entry of its own.
Overridden_Fault(c, k, inherited) == {}

\* The entries of the superclass's vector that method k of class c overrides.
Overridden(c, k, inherited) ==
    {i \in DOMAIN inherited : Key(inherited[i]) = MethodsOf[c][k].key}

VirtualMethods(c) == {k \in DOMAIN MethodsOf[c] : MethodsOf[c][k].virtual}

\* Of the first k methods of class c, those that get an entry of their own.
NewMethods(c, inherited) ==
    LET fresh[k \in 0..Len(MethodsOf[c])] ==
            IF k = 0 THEN <<>>
            ELSE IF k \in VirtualMethods(c) /\ Overridden(c, k, inherited) = {}
            THEN Append(fresh[k - 1], k) ELSE fresh[k - 1]
    IN  fresh

\* The methods of class c that override entry i.
Overriding(c, i, inherited) ==
    {k \in VirtualMethods(c) : i \in Overridden(c, k, inherited)}

\* resolveMethods: the superclass's vector with the overriding methods, then
\* the new ones.
MethodVector(c, inherited) ==
    LET fresh == NewMethods(c, inherited)[Len(MethodsOf[c])]
    IN  [i \in DOMAIN inherited |->
            IF Overriding(c, i, inherited) = {} THEN inherited[i]
            ELSE <<c, CHOOSE k \in Overriding(c, i, inherited) : TRUE>>]
          \o [n \in DOMAIN fresh |-> <<c, fresh[n]>>]

\* Seeded fault: the count of new methods is taken after the method.
MethodIndex_Fault(c, k, inherited) ==
    Len(inherited) + Len(NewMethods(c, inherited)[k]) + 1

\* The index of method k, from 1.
MethodIndex(c, k, inherited) ==
    IF Overridden(c, k, inherited) # {}
    THEN CHOOSE i \in Overridden(c, k, inherited) : TRUE
    ELSE Len(inherited) + Len(NewMethods(c, inherited)[k])

\* resolveFields and resolveMethods over the layout of the superclass.
Resolve(c, super) ==
    [resolved |-> TRUE,
     slots    |-> SlotTable(c, super.slots),
     offset   |-> FieldOffsets(c, super.slots),
     vector   |-> MethodVector(c, super.vector),
     index    |-> [k \in VirtualMethods(c) |-> MethodIndex(c, k, super.vector)]]

-----------------------------------------------------------------------------
(***************************************************************************)
(* The class in simulated memory (copy.c, cm.c).  Every object copied has  *)
(* a header that names its class by the class's method vector, which may   *)
(* not be known yet.  A header is a kind or Null; the arrays of a class    *)
(* are Objects, and their footers name the class of their elements.        *)
(***************************************************************************)
Vector(kind) == IF kind \in known THEN kind ELSE Null

HasFields(c)   == FieldsOf[c] # <<>>
HasMethods(c)  == MethodsOf[c] # <<>>
HasHandlers(c) == \E k \in DOMAIN MethodsOf[c] : MethodsOf[c][k].handlers

\* The parts a class is copied in, an array with the kind of its elements.
Parts(c, layout) ==
    {"class", "pool", "hints"}
      \cup (IF HasFields(c) THEN {"fieldArray", "fields"} ELSE {})
      \cup (IF HasMethods(c) THEN {"methodArray", "methods"} ELSE {})
      \cup (IF HasHandlers(c) THEN {"handlerArray", "handlers"} ELSE {})
      \cup (IF layout.slots # <<>> THEN {"instVars"} ELSE {})

\* Whom the header of a part names, and whom its footer does.
HeaderOf == [class |-> "Class", pool |-> "Object", hints |-> "Object",
             fieldArray |-> "Object", fields |-> "Field",
             methodArray |-> "Object", methods |-> "Method",
             handlerArray |-> "Object", handlers |-> "ExceptionBlock",
             instVars |-> "Object"]

FooterOf == [fieldArray |-> "Field", methodArray |-> "Method",
             handlerArray |-> "ExceptionBlock", instVars |-> "Field"]

\* copyOneBinClass, copyConstantPool, copyFields, copyMethods and
\* copyObjHintBlk, with the method vectors known so far.
ClassObject(c, parts) ==
    [header |-> [p \in parts |-> Vector(HeaderOf[p])],
     footer |-> [p \in parts \cap DOMAIN FooterOf |-> Vector(FooterOf[p])]]

\* Seeded fault: the chain so far is dropped.
ChainedTo_Fault(c) == Null

\* What the class object of a new class is chained to.
ChainedTo(c) == hashTable[Bucket[c]]

\* cmSetClassTable: the class is the first of its chain.
SetClassTable(c) ==
    /\ classTable' = Append(classTable, c)
    /\ hashTable' = [hashTable EXCEPT ![Bucket[c]] = c]
    /\ next' = Put(next, c, ChainedTo(c))

\* Seeded fault: the superclass of the others is left out.
FixedUp_Fault == Kinds \ {"Object"}

\* The classes fixupClass is called for, when found in the class table.
FixedUp == Kinds

\* The end of copyOneBinClass: while bootstrapping the class may be one of
\* the kinds; ExceptionBlock ends it, and the headers of the kinds are
\* written again; afterwards the program's count of classes is kept in Class.
Bootstrap(c, parts) ==
    LET copied == Put(objects, c, ClassObject(c, parts))
        kinds  == known \cup ({c} \cap Kinds)
        Fixed(d) ==
            [header |-> [p \in DOMAIN copied[d].header |->
                            IF HeaderOf[p] \in kinds THEN HeaderOf[p] ELSE Null],
             footer |-> [p \in DOMAIN copied[d].footer |->
                            IF FooterOf[p] \in kinds THEN FooterOf[p] ELSE Null]]
    IN  IF bsdone
        THEN /\ objects' = copied
             /\ classCount' = IF "Class" \in Range(classTable) \cup {c}
                              THEN Len(classTable) + 1 ELSE classCount
             /\ UNCHANGED <<known, bsdone>>
        ELSE /\ known' = kinds
             /\ bsdone' = (c = "ExceptionBlock")
             /\ objects' = [d \in DOMAIN copied |->
                    IF bsdone' /\ d \in FixedUp THEN Fixed(d) ELSE copied[d]]
             /\ UNCHANGED classCount

-----------------------------------------------------------------------------
\* Boot position of a simulator that is gone: it has exited, it has read
\* memory nobody wrote, or a class did not fit and lies over address 0.
Stopped == 0

Init ==
    /\ files \in FilesAtBoot
    /\ loading = <<>> /\ result = "none" /\ boot = 1
    /\ binclasses = <<>> /\ initialized = <<>>
    /\ classTable = <<>> /\ next = <<>> /\ objects = <<>>
    /\ hashTable = [b \in Range(Bucket) |-> Null]
    /\ classCount = 0 /\ known = {} /\ bsdone = FALSE
    /\ currentAddress = 0
    /\ trapTable = [t \in Range(TrapOf) |-> Null]

Activation(c) == [class |-> c, super |-> FALSE]

Running == boot # Stopped
Idle    == Running /\ loading = <<>>
In      == Head(loading)

\* cmFindClass
Found(c) == c \in Range(classTable)

\* The class was collected before, laid out or not.
Collected(c) == c \in DOMAIN binclasses

\* get1byte and the others give a file up that is truncated or inconsistent.
Parses(c) == files[c] = "good"

\* The class file is found, fits into memory and parses.
Fits(c)     == FileSize[c] =< CM_SIZE - currentAddress
Readable(c) == Parses(c) /\ Fits(c)

\* cmMalloc: nobody looks at the NULL it returns when memory is used up.
cmMalloc(n) == currentAddress' = currentAddress + n

\* An activation of loadClassFile ends.
Return(outcome) == loading' = Tail(loading) /\ result' = outcome

Call(c) == loading' = <<Activation(c)>> \o loading /\ result' = "none"

\* Not found, too big, or not a class file.
NotRead ==
    /\ Running /\ loading # <<>> /\ ~In.super /\ ~Readable(In.class)
    /\ Return("fail")
    /\ UNCHANGED <<diskVars, hostVars, memVars>>

\* A class that was collected before is not looked at again.
AlreadyLoaded ==
    /\ Running /\ loading # <<>> /\ ~In.super /\ Readable(In.class)
    /\ Collected(In.class)
    /\ Return("success")
    /\ UNCHANGED <<diskVars, hostVars, memVars>>

\* loadBinaryInitFile and loadInitFile.  The first passes bInitFile the
\* letters "binit", not the path they end.
InitFilesRead(c) ==
    (IF <<Null, "binit">> \in InitFiles THEN << <<Null, "binit">> >> ELSE <<>>)
      \o (IF <<c, "init">> \in InitFiles THEN << <<c, "init">> >> ELSE <<>>)

\* A new class is collected, its initialization files are read, and its
\* superclass is loaded first if it was not collected before.
Collect ==
    /\ Running /\ loading # <<>> /\ ~In.super /\ Readable(In.class)
    /\ ~Collected(In.class)
    /\ binclasses' = Put(binclasses, In.class, Unresolved)
    /\ initialized' = initialized \o InitFilesRead(In.class)
    /\ LET waiting == <<[In EXCEPT !.super = TRUE]>> \o Tail(loading)
       IN  IF Super[In.class] \in DOMAIN binclasses'
           THEN loading' = waiting /\ result' = "success"
           ELSE loading' = <<Activation(Super[In.class])>> \o waiting /\ result' = "none"
    /\ UNCHANGED <<diskVars, memVars>>

\* The superclass cannot be loaded: the class stays collected.
SuperFails ==
    /\ Running /\ loading # <<>> /\ In.super /\ result = "fail"
    /\ Return("fail")
    /\ UNCHANGED <<diskVars, hostVars, memVars>>

\* The superclass is there: the class is laid out and copied into memory.
CopyClass ==
    /\ Running /\ loading # <<>> /\ In.super /\ result = "success"
    /\ LET c      == In.class
           layout == Resolve(c, IF Super[c] = c THEN Unresolved
                                ELSE binclasses[Super[c]])
       IN  /\ Super[c] = c \/ binclasses[Super[c]].resolved
           /\ binclasses' = [binclasses EXCEPT ![c] = layout]
           /\ SetClassTable(c)
           /\ Bootstrap(c, Parts(c, layout))
           /\ cmMalloc(Footprint[c])
    /\ boot' = IF currentAddress' > CM_SIZE THEN Stopped ELSE boot
    /\ Return("success")
    /\ UNCHANGED <<files, initialized, trapTable>>

\* The superclass was collected but never laid out: the loader reads memory
\* that malloc left uninitialized.  What it does with it is not followed.
ReadsGarbage ==
    /\ Running /\ loading # <<>> /\ In.super /\ result = "success"
    /\ Super[In.class] # In.class /\ ~binclasses[Super[In.class]].resolved
    /\ boot' = Stopped
    /\ UNCHANGED <<files, loading, result, hostVars, memVars>>

-----------------------------------------------------------------------------
Booting == Idle /\ boot =< Len(Boot)

\* loadTrapHandlers loads its next class.
LoadSystemClass ==
    /\ Booting /\ result = "none"
    /\ Call(Boot[boot])
    /\ UNCHANGED <<diskVars, hostVars, memVars>>

\* A failed class is only warned about; one that is no handler needs no more.
NextSystemClass ==
    /\ Booting /\ result # "none"
    /\ result = "fail" \/ Boot[boot] \notin DOMAIN TrapOf
    /\ boot' = boot + 1 /\ result' = "none"
    /\ UNCHANGED <<files, loading, hostVars, memVars>>

\* The constant pool of a handler: its class's, or a copy of its own.
PoolFor(c) == IF Found(c) THEN c ELSE Null

\* loadClassFileMethod: the handler's first method is copied, the reset
\* handler to RESET_ADDRESS after reading its .init file once more.
loadClassFileMethod(c, reset) ==
    /\ trapTable' = [trapTable EXCEPT ![TrapOf[c]] = PoolFor(c)]
    /\ cmMalloc(IF reset THEN 0 ELSE 1)
    /\ initialized' = IF reset /\ <<c, "init">> \in InitFiles
                      THEN Append(initialized, <<c, "init">>) ELSE initialized

\* loadTrapHandlers goes on without a handler that cannot be read again, and
\* exits without a reset handler.
LoadHandler ==
    /\ Booting /\ result = "success" /\ Boot[boot] \in DOMAIN TrapOf
    /\ LET c     == Boot[boot]
           reset == TrapOf[c] = "reset"
       IN  \/ /\ Readable(c) /\ loadClassFileMethod(c, reset)
              /\ boot' = IF currentAddress' > CM_SIZE THEN Stopped ELSE boot + 1
           \/ /\ ~Readable(c)
              /\ boot' = IF reset THEN Stopped ELSE boot + 1
              /\ UNCHANGED <<trapTable, currentAddress, initialized>>
    /\ result' = "none"
    /\ UNCHANGED <<files, loading, binclasses, tableVars>>

\* The command loadClass, one class at a time: it stops at the first that
\* fails, and what a longer command does then is another command.
loadClassCmd(c) ==
    /\ Idle /\ boot = Len(Boot) + 1
    /\ Call(c)
    /\ UNCHANGED <<diskVars, hostVars, memVars>>

\* Between commands a missing or broken class file is put right.
FileRepaired(c) ==
    /\ Idle /\ boot = Len(Boot) + 1 /\ files[c] # "good"
    /\ files' = [files EXCEPT ![c] = "good"]
    /\ UNCHANGED <<loading, result, boot, hostVars, memVars>>

Next ==
    \/ NotRead \/ AlreadyLoaded \/ Collect \/ SuperFails \/ CopyClass
    \/ ReadsGarbage
    \/ LoadSystemClass \/ NextSystemClass \/ LoadHandler
    \/ \E c \in Classes : loadClassCmd(c) \/ FileRepaired(c)

Spec == Init /\ [][Next]_vars

-----------------------------------------------------------------------------
\* A field or a method, by its class and its place.
Names == Classes \X Nat

LayoutTypeOK(c, layout) ==
    /\ DOMAIN layout = DOMAIN Unresolved
    /\ layout.resolved \in BOOLEAN
    /\ Range(layout.slots) \subseteq Names \cup {<<>>}
    /\ Range(layout.vector) \subseteq Names
    /\ layout.resolved =>
          /\ \A k \in DOMAIN layout.offset : layout.offset[k] \in 0..Len(layout.slots)
          /\ \A k \in DOMAIN layout.index : layout.index[k] \in 1..Len(layout.vector)

\* Types of the variables.
TypeOK ==
    /\ files \in [Classes -> {"missing", "bad", "good"}]
    /\ loading \in Seq([class : Classes, super : BOOLEAN])
    /\ result \in {"none", "success", "fail"}
    /\ boot \in 0..(Len(Boot) + 1)
    /\ DOMAIN binclasses \subseteq Classes
    /\ \A c \in DOMAIN binclasses : LayoutTypeOK(c, binclasses[c])
    /\ \A i \in DOMAIN initialized : initialized[i][2] \in {"binit", "init"}
    /\ Range(classTable) \subseteq DOMAIN binclasses
    /\ hashTable \in [Range(Bucket) -> Classes \cup {Null}]
    /\ next \in [Range(classTable) -> Classes \cup {Null}]
    /\ DOMAIN objects = Range(classTable)
    /\ \A c \in DOMAIN objects :
          \A p \in DOMAIN objects[c].header : objects[c].header[p] \in {HeaderOf[p], Null}
    /\ classCount \in Nat /\ known \subseteq Kinds /\ bsdone \in BOOLEAN
    /\ currentAddress \in Nat
    /\ trapTable \in [Range(TrapOf) -> Classes \cup {Null}]

LaidOut == {c \in DOMAIN binclasses : binclasses[c].resolved}

StartsWith(s, prefix) ==
    \A i \in DOMAIN prefix : i \in DOMAIN s /\ s[i] = prefix[i]

\* Code compiled against a superclass runs on objects of every subclass: the
\* slots of the superclass come first, each instance field has all the slots
\* its offset promises, and no two fields share one (resolveFields).
LayoutExtendsSuper ==
    \A c \in LaidOut :
        LET layout == binclasses[c]
            chain  == Range(Chain[c])
            fields == UNION {{d} \X DOMAIN FieldsOf[d] : d \in chain}
            own    == {f \in fields : ~FieldsOf[f[1]][f[2]].static}
            Offset(f) == binclasses[f[1]].offset[f[2]]
            Words(f)  == (Offset(f) + 1)..(Offset(f) + FieldsOf[f[1]][f[2]].size)
        IN  /\ chain \subseteq LaidOut
            /\ Super[c] # c => StartsWith(layout.slots, binclasses[Super[c]].slots)
            /\ \A f \in own : Words(f) \subseteq DOMAIN layout.slots
                               /\ layout.slots[Offset(f) + 1] = f
            /\ \A f, g \in own : f # g => Words(f) \cap Words(g) = {}

\* A virtual call through any superclass's index reaches the most derived
\* method: entry i of a vector has the signature of entry i of every
\* superclass's, and is the nearest method of that signature (resolveMethods).
VectorsMostDerived ==
    \A c \in LaidOut :
        LET vector == binclasses[c].vector
            Nearest(key) ==
                LET has == {n \in DOMAIN Chain[c] :
                        \E k \in VirtualMethods(Chain[c][n]) : MethodsOf[Chain[c][n]][k].key = key}
                IN  IF has = {} THEN Null
                    ELSE Chain[c][CHOOSE n \in has : \A o \in has : n =< o]
        IN  \A d \in Range(Chain[c]) \cap LaidOut : \A k \in DOMAIN binclasses[d].index :
                LET i == binclasses[d].index[k]
                IN  /\ i \in DOMAIN vector
                    /\ Key(vector[i]) = MethodsOf[d][k].key
                    /\ vector[i][1] = Nearest(MethodsOf[d][k].key)

\* When the fundamental classes are loaded first and ExceptionBlock last of
\* them, as loadTrapHandlers does unless a file is missing, every header and
\* footer in memory names its class, those written before that class was
\* known too (fixupClass).  Any other order leaves some at zero for good.
HeadersFilled ==
    /\ Len(classTable) >= 5 /\ classTable[5] = "ExceptionBlock"
    /\ {classTable[i] : i \in 1..5} = Kinds
    => \A c \in DOMAIN objects :
          /\ \A p \in DOMAIN objects[c].header : objects[c].header[p] = HeaderOf[p]
          /\ \A p \in DOMAIN objects[c].footer : objects[c].footer[p] = FooterOf[p]

\* The classes of a chain of the hash table, from a class on.
ChainFrom[c \in Range(classTable)] ==
    IF next[c] = Null THEN <<c>> ELSE <<c>> \o ChainFrom[next[c]]

\* The program finds a class by the hash table, the simulator by the class
\* table: they hold the same classes, each once and in its own bucket; the
\* program's count of them is that of the table as soon as a class is loaded
\* after bootstrapping; and a trap's handler shares the constant pool of its
\* class, as loadtraps.c:71 says.
TablesAgree ==
    /\ \A b \in Range(Bucket) :
          LET chain == IF hashTable[b] = Null THEN <<>> ELSE ChainFrom[hashTable[b]]
          IN  /\ IsInjective(chain)
              /\ Range(chain) = {c \in Range(classTable) : Bucket[c] = b}
    /\ IsInjective(classTable)
    /\ bsdone /\ "Class" \in Range(classTable) /\ classTable[Len(classTable)] # "ExceptionBlock"
          => classCount = Len(classTable)
    /\ \A c \in DOMAIN TrapOf : trapTable[TrapOf[c]] \in {Null, c}

\* docs/html/loading-classes.html: loading A reads A.binit, A.init, A.class.
BinitRead ==
    \A c \in LaidOut : <<c, "binit">> \in InitFiles => <<c, "binit">> \in Range(initialized)
=============================================================================
