------------------------------- MODULE EjsType -------------------------------
(***************************************************************************)
(* Classes as core/src/ejsType.c makes them, and how one takes over the     *)
(* slots of its base class and of the classes that it implements.  The      *)
(* compiler makes room for them in front of a class' own slots; the loader  *)
(* creates the class with all its slots and fills in the inherited ones.    *)
(*                                                                          *)
(* A slot has the name of its property, the class whose definition its      *)
(* value is, and of its traits whether it is a method that overrides.       *)
(* Constructors, namespaces and the sizes of instances are left out.        *)
(***************************************************************************)
EXTENDS Integers, Sequences, SequencesExt

Slot(name, class, override) == [name |-> name, of |-> class, override |-> override]
Blank == Slot("", "", FALSE)
Blanks(n) == [i \in 1..n |-> Blank]
NamesIn(slots) == {slots[i].name : i \in DOMAIN slots}

\* The class of objects, whose own methods are of no interest here
Object ==
    [baseType |-> "", implements |-> <<>>, isInterface |-> FALSE, needFixup |-> FALSE, hasInstanceVars |-> FALSE,
     numInherited |-> 0, statics |-> <<>>, prototype |-> <<>>]

\* Slots from the offset on become copies.  What lies beyond the last slot is
\* other memory, and not of this class.
ejsCopySlots(slots, offset, copied) ==
    [i \in DOMAIN slots |-> IF i - offset \in DOMAIN copied THEN copied[i - offset] ELSE slots[i]]

\* Slots are put in front, as they are with an offset of 0
ejsInsertPotProperties(slots, count) == Blanks(count) \o slots

\* A slot is given its name unless the name is in use, and a value and traits.
\* There are as many slots afterwards as the number asks for.
definePotProperty(slots, slotNum, property) ==
    LET grown == IF slotNum > Len(slots) THEN slots \o Blanks(slotNum - Len(slots)) ELSE slots
        name == IF property.name \in NamesIn(slots) THEN grown[slotNum].name ELSE property.name
    IN  [grown EXCEPT ![slotNum] = Slot(name, property.of, property.override)]

\* The classes, not interfaces, that a class implements
Mixed(type, types) == SelectSeq(type.implements, LAMBDA i : ~types[i].isInterface)

fixupTypeImplements(type, types, makeRoom) ==
    LET mixed == Mixed(type, types)
        copied == FlattenSeq([i \in DOMAIN mixed |-> types[mixed[i]].statics])
        offset == IF makeRoom THEN Len(type.statics) ELSE Len(type.statics) - Len(copied)
    IN  [type EXCEPT !.statics = ejsCopySlots(IF makeRoom THEN @ \o Blanks(Len(copied)) ELSE @, offset, copied),
                     !.hasInstanceVars = @ \/ \E i \in DOMAIN mixed : types[mixed[i]].hasInstanceVars]

\* Those of the base class come first, if its instances have variables; methods
\* of a class without variables are found through the base class.
fixupPrototypeProperties(type, types, makeRoom) ==
    LET base == types[type.baseType]
        inherited == IF base.hasInstanceVars THEN base.prototype ELSE <<>>
        own(i) == SubSeq(types[i].prototype, types[i].numInherited + 1, Len(types[i].prototype))
        mixed == Mixed(type, types)
        copied == inherited \o FlattenSeq([i \in DOMAIN mixed |-> own(mixed[i])])
    IN  [type EXCEPT !.prototype = ejsCopySlots(IF makeRoom THEN ejsInsertPotProperties(@, Len(copied)) ELSE @, 0, copied),
                     !.numInherited = (IF base.hasInstanceVars THEN 0 ELSE @) + Len(copied)]

\* A class gets its base class and takes over the slots, in the room there is
\* or in room made for them
ejsFixupType(type, baseType, types, makeRoom) ==
    LET based == [type EXCEPT !.needFixup = FALSE, !.baseType = baseType,
                              !.hasInstanceVars = @ \/ types[baseType].hasInstanceVars]
        mixed == IF type.implements = <<>> THEN based ELSE fixupTypeImplements(based, types, makeRoom)
    IN  IF type.implements # <<>> \/ types[baseType].prototype # <<>>
        THEN fixupPrototypeProperties(mixed, types, makeRoom)
        ELSE mixed

\* A class with blank slots, and with those of its base class if that is known
ejsCreateType(bare, numTypeProp, numInstanceProp, baseType, types) ==
    LET type == [bare EXCEPT !.statics = Blanks(numTypeProp), !.prototype = Blanks(numInstanceProp)]
    IN  IF baseType = "" THEN type ELSE ejsFixupType(type, baseType, types, FALSE)
=============================================================================
