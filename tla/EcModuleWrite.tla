---------------------------- MODULE EcModuleWrite ----------------------------
(***************************************************************************)
(* What the compiler writes into a module file: the layout of the classes   *)
(* (fixupClass of compiler/ecAst.c) and the sections that describe them     *)
(* (compiler/ecModuleWrite.c).                                              *)
(*                                                                          *)
(* The source of a module has the modules that it requires, classes and a   *)
(* script, its global code.  A name stands for the code of a method.        *)
(* Global variables and functions, encodings, the pool of constants,        *)
(* documentation, debug and exception records are left out.                 *)
(***************************************************************************)
EXTENDS EjsType, FiniteSets, TLC

\* A class of a source.  A class extends one or implements some, as the
\* compiler has it.
Class(name, base, implements, isInterface, statics, variables, functions, overrides) ==
    [name |-> name, base |-> base, implements |-> implements, isInterface |-> isInterface, statics |-> statics,
     variables |-> variables, functions |-> functions, overrides |-> overrides]

Named(classes, name) == CHOOSE i \in DOMAIN classes : classes[i].name = name

\* The classes of a module in the order they are written: a class comes after
\* its base class and those it implements, when these are of the module too
createGlobalType(classes) ==
    LET names == {classes[i].name : i \in DOMAIN classes}
        written[visited \in Seq(STRING), name \in STRING] ==
            IF name \in ToSet(visited) \/ name \notin names THEN visited
            ELSE LET class == classes[Named(classes, name)]
                 IN  Append(FoldLeft(LAMBDA v, n : written[v, n], written[visited, class.base], class.implements), name)
    IN  [i \in DOMAIN classes |->
            classes[Named(classes, FoldLeft(LAMBDA v, c : written[v, c.name], <<>>, classes)[i])]]

\* The class as the compiler has it, with room for what it inherits.  A method
\* that overrides an inherited one takes over its slot.
fixupClass(class, types) ==
    LET own == [i \in DOMAIN class.variables |-> Slot(class.variables[i], class.name, FALSE)]
               \o [i \in DOMAIN class.functions |-> Slot(class.functions[i], class.name, class.functions[i] \in class.overrides)]
        bare == [Object EXCEPT !.implements = class.implements, !.isInterface = class.isInterface,
                               !.hasInstanceVars = class.variables # <<>>, !.prototype = own,
                               !.statics = [i \in DOMAIN class.statics |-> Slot(class.statics[i], class.name, FALSE)]]
        type == IF class.isInterface THEN bare ELSE ejsFixupType(bare, class.base, types, TRUE)
        inherited == SubSeq(type.prototype, 1, type.numInherited)
        overrides == NamesIn(inherited) \cap class.overrides
    IN  [type EXCEPT !.prototype =
            [i \in DOMAIN inherited |->
                IF inherited[i].name \in overrides THEN Slot(inherited[i].name, class.name, TRUE) ELSE inherited[i]]
            \o SelectSeq(own, LAMBDA s : s.name \notin overrides)]

\* The classes of a module, given those it uses
Compiled(classes, types) ==
    FoldLeft(LAMBDA done, c : (c.name :> fixupClass(c, done)) @@ done, types, createGlobalType(classes))

createPropertySection(slot, slotNum, static) ==
    <<[section |-> "property", name |-> slot.name, slot |-> slot, slotNum |-> slotNum, static |-> static]>>

\* A method, with what is inside it, up to the end of its section
createFunctionSection(slot, slotNum) ==
    <<[section |-> "function", name |-> slot.name, slot |-> slot, slotNum |-> slotNum], [section |-> "function_end"]>>

\* Inherited slots are left to the loader, but for methods that override, which
\* are written again for every class that inherits them.  A class that
\* implements a class is marked, as it has to wait for that.
createClassSection(class, type, types) ==
    LET written == SelectSeq([i \in DOMAIN type.prototype |-> i],
            LAMBDA i : i > type.numInherited \/ type.prototype[i].override)
        member(i) ==
            IF type.prototype[i].name \in ToSet(class.variables)
            THEN createPropertySection(type.prototype[i], i, FALSE)
            ELSE createFunctionSection(type.prototype[i], i)
    IN  <<[section |-> "class", name |-> class.name, baseType |-> type.baseType, implements |-> type.implements,
           isInterface |-> type.isInterface, hasInstanceVars |-> type.hasInstanceVars,
           fixup |-> Mixed(type, types) # <<>>, numTypeProp |-> Len(type.statics), numInstanceProp |-> Len(type.prototype)]>>
        \o FlattenSeq([i \in DOMAIN type.statics |-> createPropertySection(type.statics[i], i, TRUE)])
        \o FlattenSeq([i \in DOMAIN written |-> member(written[i])])
        \o <<[section |-> "class_end"]>>

createDependencySection(dependencies) ==
    [i \in DOMAIN dependencies |->
        [section |-> "dependency", name |-> dependencies[i].name, checksum |-> dependencies[i].checksum]]

createInitializerSection(script) ==
    IF script.does = "nothing" THEN <<>> ELSE <<[section |-> "initializer", script |-> script], [section |-> "function_end"]>>

createGlobalProperties(source, types) ==
    LET classes == createGlobalType(source.classes)
    IN  FlattenSeq([i \in DOMAIN classes |-> createClassSection(classes[i], types[classes[i].name], types)])

\* Names are summed as they come, which here keeps different names apart, and
\* so are the numbers of slots of the classes
sumString(sections) ==
    LET named == SelectSeq(sections, LAMBDA s : s.section \in {"dependency", "class", "property", "function"})
    IN  [n \in {named[i].name : i \in DOMAIN named} |-> Cardinality({i \in DOMAIN named : named[i].name = n})]
sumNum(sections) ==
    FoldLeft(LAMBDA sum, s :
        IF s.section = "class" THEN sum + s.numTypeProp + s.numInstanceProp + Len(s.implements) ELSE sum, 0, sections)

\* The file of a module.  The version of the source stands for the code; the
\* layouts that the compiler has in mind are recorded for the properties.
ecCreateModuleSection(name, source, version, dependencies, types) ==
    LET known == Compiled(source.classes, types)
        body == createDependencySection(dependencies) \o createInitializerSection(source.script)
                \o createGlobalProperties(source, known)
        checksum == <<sumNum(body), sumString(body)>>
    IN  [name |-> name, version |-> version, checksum |-> checksum,
         sections |-> <<[section |-> "module", name |-> name, checksum |-> checksum]>> \o body
                      \o <<[section |-> "module_end"]>>,
         requires |-> dependencies,
         layouts |-> [c \in {source.classes[i].name : i \in DOMAIN source.classes} |-> known[c]]]
=============================================================================
