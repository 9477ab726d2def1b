------------------------------ MODULE MCLoader ------------------------------
(***************************************************************************)
(* A small instance of Loader: the five classes copy.c knows, a handler,   *)
(* and two classes of the user, A and its subclass B.  Fields and methods  *)
(* are chosen so that a long lies between two words, B overrides a method  *)
(* of A and one of Object and has one of its own, and A hides a static     *)
(* method.                                                                 *)
(***************************************************************************)
EXTENDS Loader

MCClasses == Kinds \cup {"handler", "A", "B"}

MCSuper == [c \in MCClasses |-> IF c = "B" THEN "A" ELSE "Object"]

Word   == [size |-> 1, static |-> FALSE]
Long   == [size |-> 2, static |-> FALSE]
Static == [size |-> 2, static |-> TRUE]

MCFieldsOf == [c \in MCClasses |->
    CASE c = "A"     -> <<Word, Static, Long, Word>>
      [] c = "B"     -> <<Long, Word>>
      [] c = "Class" -> <<Static>>
      [] c = "Field" -> <<Word>>
      [] OTHER       -> <<>>]

Method(key, virtual) == [key |-> key, virtual |-> virtual, handlers |-> FALSE]

MCMethodsOf == [c \in MCClasses |->
    CASE c = "Object" -> <<Method("init", FALSE), Method("equals", TRUE),
                           [key |-> "hash", virtual |-> TRUE, handlers |-> TRUE]>>
      [] c = "A"      -> <<Method("run", TRUE), Method("make", FALSE), Method("hash", TRUE)>>
      [] c = "B"      -> <<Method("make", TRUE), Method("equals", TRUE), Method("run", TRUE)>>
      [] c = "handler" -> <<Method("handle", FALSE)>>
      [] OTHER        -> <<>>]

MCBucket == [c \in MCClasses |-> IF c \in {"A", "Object", "handler"} THEN 0 ELSE 1]

\* Everything but one class fits: B overruns the memory when it comes last,
\* and what is loaded twice may be found too big the second time.
MCFileSize  == [c \in MCClasses |-> IF c = "A" THEN 3 ELSE IF c = "B" THEN 2 ELSE 1]
MCFootprint == [c \in MCClasses |-> IF c \in {"A", "B"} THEN 3 ELSE 2]

MCInitFiles == {<<"A", "init">>, <<"A", "binit">>, <<"handler", "init">>}

MCBoot   == <<"Class", "Field", "Method", "ExceptionBlock", "handler">>
MCTrapOf == [c \in {"handler"} |-> "reset"]

\* Three of the system's files may be missing, the user's missing or broken.
MCFilesAtBoot ==
    {f \in [MCClasses -> {"missing", "bad", "good"}] :
        /\ \A c \in MCClasses \ {"A", "B"} : f[c] # "bad"
        /\ Cardinality({c \in MCClasses \ {"A", "B"} : f[c] = "missing"}) =< 3}
=============================================================================
