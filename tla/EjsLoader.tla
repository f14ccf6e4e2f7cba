------------------------------ MODULE EjsLoader ------------------------------
(***************************************************************************)
(* The loader of module files (vm/ejsLoader.c) in one interpreter.  A load  *)
(* reads the sections of a file one by one; a dependency that is not there  *)
(* is loaded in between; after the last section forward references are      *)
(* resolved and initializers run, which may load other modules.  A load     *)
(* that fails takes modules off the list again.                             *)
(*                                                                          *)
(* The files may be compiled again between loads, as a developer or a web   *)
(* framework does.                                                          *)
(***************************************************************************)
EXTENDS EcModuleWrite

CONSTANTS
    Worlds,         \* sources: of each module, its versions
    Order,          \* the modules, each after those it requires
    Reloads,        \* whether loads by scripts are told to reload
    MaxLoads,       \* bound: loads by scripts
    MaxCompiles     \* bound: compilations

ASSUME BoundAssumption == Reloads \subseteq BOOLEAN /\ MaxLoads \in Nat /\ MaxCompiles \in Nat

VARIABLES
    world,          \* the sources
    disk,           \* the file of each module
    modules,        \* ejs->modules
    mods,           \* the modules that were made
    globals,        \* classes of the global object
    stack,          \* calls of loadScriptModule and ejsRunInitializer
    returned,       \* status of the call that just returned, "no" when there is none
    loads, compiles, \* counted up to the bounds
    clean           \* no load failed and nothing was reloaded so far, for the properties only

state == <<modules, mods, globals>>
vars == <<world, disk, modules, mods, globals, stack, returned, loads, compiles, clean>>

Modules == ToSet(Order)
None == 0

-----------------------------------------------------------------------------
(***************************************************************************)
(* Compiling a module                                                       *)
(***************************************************************************)
\* Everything a module requires, directly or not
RequiredBy(files, required) ==
    LET reach[n \in STRING] == {n} \cup UNION {reach[files[n].requires[i].name] : i \in DOMAIN files[n].requires}
    IN  UNION {reach[n] : n \in required}

\* The compiler loads the modules that one requires, which checks what they
\* depend on, and compiles the module by them
Consistent(files, names) ==
    \A n \in names : \A i \in DOMAIN files[n].requires :
        files[n].requires[i].checksum = files[files[n].requires[i].name].checksum
LayoutsOf(files, names) == 
    FoldSet(LAMBDA n, known : files[n].layouts @@ known, [Object |-> Object], names)
Compile(files, n, source, version) ==
    (n :> ecCreateModuleSection(n, source, version,
        [i \in DOMAIN source.requires |-> [name |-> source.requires[i], checksum |-> files[source.requires[i]].checksum]],
        LayoutsOf(files, RequiredBy(files, ToSet(source.requires)))))
    @@ files

Init ==
    /\ world \in Worlds
    /\ disk = FoldLeft(LAMBDA files, n : Compile(files, n, world[n][1], 1), <<>>, Order)
    /\ modules = <<>> /\ mods = <<>>
    /\ globals = [Object |-> Object]
    /\ stack = <<>> /\ returned = "no"
    /\ loads = 0 /\ compiles = 0 /\ clean = TRUE

\* Between loads another process compiles a version of a module
CompileAgain(n) ==
    /\ stack = <<>> /\ compiles < MaxCompiles
    /\ \E v \in DOMAIN world[n] :
        LET required == RequiredBy(disk, ToSet(world[n][v].requires)) IN
        /\ Consistent(disk, required)
        /\ disk' = Compile(disk, n, world[n][v], v)
        /\ disk' # disk
    /\ compiles' = compiles + 1
    /\ UNCHANGED <<world, state, stack, returned, loads, clean>>

-----------------------------------------------------------------------------
(***************************************************************************)
(* Calls                                                                    *)
(***************************************************************************)
Top == Last(stack)
Below == Front(stack)
SetTop(frame) == stack' = Append(Below, frame)

\* A call of loadScriptModule: the file it reads and where in it, the modules
\* before, and the module of the file.  Phases are that of a dependency being
\* loaded, of the sections and of what comes after them.
LoadFrame(n, reload) ==
    [call |-> "load", file |-> disk[n], at |-> 1, phase |-> "sections", reload |-> reload, firstModule |-> Len(modules),
     mp |-> None, current |-> ""]

\* The best of the modules of a name.  All have one version, and then it is the
\* first that is listed.
ejsLookupModule(n) ==
    LET listed == {i \in DOMAIN modules : mods[modules[i]].name = n}
    IN  IF listed = {} THEN None ELSE modules[CHOOSE i \in listed : \A j \in listed : i <= j]

ejsLoadModule_Always(n, reload) == returned' = "no" /\ stack' = Append(stack, LoadFrame(n, reload))

\* load: a module that is there is loaded again only when told to
ejsLoadModule(n, reload) ==
    IF ~reload /\ ejsLookupModule(n) # None
    THEN returned' = "ok" /\ UNCHANGED stack
    ELSE returned' = "no" /\ stack' = Append(stack, LoadFrame(n, reload))

Load(n) ==
    /\ loads < MaxLoads /\ loads' = loads + 1
    /\ \E reload \in Reloads :
        /\ ejsLoadModule(n, reload)
        /\ clean' = (clean /\ ~(reload /\ ejsLookupModule(n) # None))
    /\ UNCHANGED <<world, disk, state, compiles>>

\* The script has seen how its load went
Seen ==
    /\ stack = <<>> /\ returned # "no" /\ returned' = "no"
    /\ UNCHANGED <<world, disk, state, stack, loads, compiles, clean>>

MainLoads == \E n \in Modules : stack = <<>> /\ returned = "no" /\ Load(n)

-----------------------------------------------------------------------------
(***************************************************************************)
(* Sections                                                                 *)
(***************************************************************************)
Loading(phase) == stack # <<>> /\ Top.call = "load" /\ Top.phase = phase
Section == Top.file.sections[Top.at]
At(section) ==
    /\ Loading("sections") /\ returned = "no"
    /\ Top.at <= Len(Top.file.sections) /\ Section.section = section
Onward(frame) == [frame EXCEPT !.at = @ + 1]
Quiet == UNCHANGED <<world, disk, loads, compiles>>

\* A section that could not be loaded: the module leaves the list, and
\* loadScriptModule deals with the rest
SectionFails ==
    /\ modules' = RemoveFirst(modules, Top.mp)
    /\ SetTop([Top EXCEPT !.phase = "failed"])

loadModuleSection ==
    /\ At("module")
    /\ mods' = Append(mods, [name |-> Section.name, checksum |-> Section.checksum, script |-> [does |-> "nothing"],
                             fixups |-> <<>>, loading |-> TRUE, initialized |-> FALSE, ran |-> "no",
                             version |-> Top.file.version, file |-> Top.file])
    /\ modules' = Append(modules, Len(mods'))
    /\ SetTop(Onward([Top EXCEPT !.mp = Len(mods')]))
    /\ Quiet /\ UNCHANGED <<globals, returned, clean>>

\* A dependency that is not there is loaded, with the flags of this module
loadDependencySection ==
    /\ At("dependency") /\ ejsLookupModule(Section.name) = None
    /\ stack' = Append(Append(Below, [Top EXCEPT !.phase = "dependency"]),
                       LoadFrame(Section.name, Top.reload))
    /\ Quiet /\ UNCHANGED <<state, returned, clean>>

DependencyMatches_Always == TRUE

\* and has to be what the module was compiled by
DependencyMatches == LET m == ejsLookupModule(Section.name) IN m # None => mods[m].checksum = Section.checksum
Depends ==
    /\ IF DependencyMatches
       THEN SetTop(Onward([Top EXCEPT !.phase = "sections"])) /\ UNCHANGED modules
       ELSE SectionFails
    /\ Quiet /\ UNCHANGED <<globals, clean>>
DependencyThere ==
    /\ At("dependency") /\ ejsLookupModule(Section.name) # None
    /\ Depends /\ UNCHANGED <<mods, returned>>
DependencyLoaded ==
    /\ Loading("dependency") /\ returned = "ok" /\ returned' = "no"
    /\ Depends /\ UNCHANGED mods
DependencyFails_GoesOn ==
    /\ Loading("dependency") /\ returned = "failed" /\ returned' = "no"
    /\ SetTop(Onward([Top EXCEPT !.phase = "sections"]))
    /\ Quiet /\ UNCHANGED <<modules, mods, globals, clean>>
DependencyFails ==
    /\ Loading("dependency") /\ returned = "failed" /\ returned' = "no"
    /\ SectionFails
    /\ Quiet /\ UNCHANGED <<mods, globals, clean>>

\* References to types that are not known yet
Fixup(kind, target, typeName) == [kind |-> kind, target |-> target, typeName |-> typeName]
Unknown(names) ==
    LET unknown[i \in 0..Len(names)] ==
            IF i = 0 THEN <<>>
            ELSE IF names[i] \in DOMAIN globals THEN unknown[i - 1]
            ELSE Append(unknown[i - 1], names[i])
    IN  unknown[Len(names)]
addFixups(fixups) == mods' = [mods EXCEPT ![Top.mp].fixups = @ \o fixups]

\* A class whose base class is not there or incomplete, or that implements a
\* class, is left without a base class until all sections are loaded.  Unless
\* the base class is not there, Object is what it will be given.
loadClassSection ==
    /\ At("class")
    /\ LET base == Section.baseType
           forward == base # "" /\ base \notin DOMAIN globals
           needFixup == Section.fixup \/ forward \/ (base # "" /\ globals[base].needFixup)
           bare == [Object EXCEPT !.isInterface = Section.isInterface, !.hasInstanceVars = Section.hasInstanceVars,
                                  !.needFixup = needFixup]
           type == ejsCreateType(bare, Section.numTypeProp, Section.numInstanceProp, IF needFixup THEN "" ELSE base, globals)
           unknown == Unknown(Section.implements)
           class == [type EXCEPT !.implements = SelectSeq(Section.implements, LAMBDA n : n \in DOMAIN globals)]
       IN  /\ globals' = [c \in DOMAIN globals \cup {Section.name} |-> IF c = Section.name THEN class ELSE globals[c]]
           /\ addFixups([i \in DOMAIN unknown |-> Fixup("interface", Section.name, unknown[i])]
                        \o IF needFixup THEN <<Fixup("base", Section.name, IF forward THEN base ELSE "Object")>> ELSE <<>>)
           /\ SetTop(Onward([Top EXCEPT !.current = Section.name]))
    /\ Quiet /\ UNCHANGED <<modules, returned, clean>>

loadPropertySection ==
    /\ At("property")
    /\ globals' = [globals EXCEPT ![Top.current] =
            IF Section.static
            THEN [@ EXCEPT !.statics = definePotProperty(@, Section.slotNum, Section.slot)]
            ELSE [@ EXCEPT !.prototype = definePotProperty(@, Section.slotNum, Section.slot)]]
    /\ SetTop(Onward(Top))
    /\ Quiet /\ UNCHANGED <<modules, mods, returned, clean>>

\* A method.  One that is there stays, unless it is overridden, and is defined
\* in the slot.
loadMethod ==
    /\ At("function")
    /\ LET There(slots) == CHOOSE i \in DOMAIN slots : slots[i].name = Section.name IN
        globals' = [globals EXCEPT ![Top.current].prototype =
            IF Section.slot.override \/ Section.name \notin NamesIn(@)
            THEN definePotProperty(@, Section.slotNum, Section.slot)
            ELSE definePotProperty(@, Section.slotNum, Slot(Section.name, @[There(@)].of, Section.slot.override))]
    /\ SetTop(Onward(Top))
    /\ Quiet /\ UNCHANGED <<modules, mods, returned, clean>>

loadInitializer ==
    /\ At("initializer")
    /\ mods' = [mods EXCEPT ![Top.mp].script = Section.script]
    /\ SetTop(Onward(Top))
    /\ Quiet /\ UNCHANGED <<modules, globals, returned, clean>>

loadEndFunctionSection == At("function_end") /\ SetTop(Onward(Top)) /\ Quiet /\ UNCHANGED <<state, returned, clean>>
loadEndClassSection ==
    /\ At("class_end") /\ SetTop(Onward([Top EXCEPT !.current = ""]))
    /\ Quiet /\ UNCHANGED <<state, returned, clean>>

\* The last section: what follows goes over the modules from this one on
loadEndModuleSection ==
    /\ At("module_end") /\ SetTop([Top EXCEPT !.phase = "after", !.at = Top.firstModule + 1])
    /\ Quiet /\ UNCHANGED <<state, returned, clean>>

Sections ==
    \/ loadModuleSection \/ loadDependencySection \/ DependencyThere \/ DependencyLoaded \/ DependencyFails
    \/ loadClassSection \/ loadPropertySection \/ loadMethod \/ loadInitializer
    \/ loadEndFunctionSection \/ loadEndClassSection \/ loadEndModuleSection

-----------------------------------------------------------------------------
(***************************************************************************)
(* After the sections                                                       *)
(***************************************************************************)
\* Forward references in the order they were met
AlsoImplementing(type, name) == [type EXCEPT !.implements = Append(@, name)]
Fixed(types, fixup) ==
    [types EXCEPT ![fixup.target] =
        IF fixup.kind = "base" THEN ejsFixupType(@, fixup.typeName, types, FALSE)
        ELSE AlsoImplementing(@, fixup.typeName)]
Missing(fixups) == {i \in DOMAIN fixups : fixups[i].typeName \notin DOMAIN globals}
fixupTypes(fixups, n) ==
    LET types[i \in 0..n] == IF i = 0 THEN globals ELSE Fixed(types[i - 1], fixups[i])
    IN  globals' = types[n]

\* The next of the modules, those that a script loaded meanwhile among them
After == Loading("after") /\ returned = "no" /\ Top.at <= Len(modules)
Following == modules[Top.at]

Unresolved == After /\ mods[Following].loading
resolveTypes ==
    /\ Unresolved /\ Missing(mods[Following].fixups) = {}
    /\ fixupTypes(mods[Following].fixups, Len(mods[Following].fixups))
    /\ mods' = [mods EXCEPT ![Following].loading = FALSE]
    /\ Quiet /\ UNCHANGED <<modules, stack, returned, clean>>
typeMissing ==
    /\ Unresolved
    /\ LET fixups == mods[Following].fixups IN
        /\ Missing(fixups) # {}
        /\ fixupTypes(fixups, Min(Missing(fixups)) - 1)
    /\ SetTop([Top EXCEPT !.phase = "failed"])
    /\ Quiet /\ UNCHANGED <<modules, mods, returned, clean>>

\* A module counts as initialized from the moment its initializer begins
initializeModule ==
    /\ After /\ ~mods[Following].loading /\ ~mods[Following].initialized
    /\ mods' = [mods EXCEPT ![Following].initialized = TRUE,
                            ![Following].ran = IF mods[Following].script.does = "nothing" THEN "done" ELSE "begun"]
    /\ stack' = IF mods[Following].script.does = "nothing" THEN Append(Below, Onward(Top))
                ELSE Append(Append(Below, [Onward(Top) EXCEPT !.phase = "initializer"]),
                            [call |-> "initializer", mp |-> Following, at |-> 1])
    /\ Quiet /\ UNCHANGED <<modules, globals, returned, clean>>
initialized ==
    /\ After /\ ~mods[Following].loading /\ mods[Following].initialized
    /\ SetTop(Onward(Top))
    /\ Quiet /\ UNCHANGED <<state, returned, clean>>
InitializerReturns ==
    /\ Loading("initializer") /\ returned # "no" /\ returned' = "no"
    /\ SetTop([Top EXCEPT !.phase = IF returned = "ok" THEN "after" ELSE "failed"])
    /\ Quiet /\ UNCHANGED <<state, clean>>

LoadReturns ==
    /\ Loading("after") /\ returned = "no" /\ Top.at > Len(modules)
    /\ stack' = Below /\ returned' = "ok"
    /\ Quiet /\ UNCHANGED <<state, clean>>

Unload_FromNext(ms, first) ==
    [i \in 1..first + (Len(ms) - first + 1) \div 2 |-> IF i <= first THEN ms[i] ELSE ms[2 * i - first - 1]]

\* A load that failed removes the modules from its first on, one by one while
\* it goes on by its index: every second of them stays
Unload(ms, first) ==
    [i \in 1..first + (Len(ms) - first) \div 2 |-> IF i <= first THEN ms[i] ELSE ms[2 * i - first]]
LoadFails ==
    /\ Loading("failed")
    /\ modules' = Unload(modules, Top.firstModule)
    /\ stack' = Below /\ returned' = "failed" /\ clean' = FALSE
    /\ Quiet /\ UNCHANGED <<mods, globals>>

\* The script of a module
Running(does) == stack # <<>> /\ Top.call = "initializer" /\ mods[Top.mp].script.does = does /\ returned = "no"
Ends(status) ==
    /\ stack' = Below /\ returned' = IF status = "done" THEN "ok" ELSE "failed"
    /\ mods' = [mods EXCEPT ![Top.mp].ran = status]
    /\ Quiet /\ UNCHANGED <<modules, globals, clean>>
ScriptEnds == Running("runs") /\ Ends("done")
ScriptThrows == Running("throws") /\ Ends("thrown")

\* A script that loads another module, and may catch what that throws
ScriptLoads ==
    /\ Running("loads") \/ Running("tries")
    /\ Load(mods[Top.mp].script.module)
ScriptLoaded ==
    /\ stack # <<>> /\ Top.call = "initializer" /\ returned # "no"
    /\ Ends(IF returned = "ok" \/ mods[Top.mp].script.does = "tries" THEN "done" ELSE "thrown")

Afterwards ==
    \/ resolveTypes \/ typeMissing \/ initializeModule \/ initialized \/ InitializerReturns \/ LoadReturns \/ LoadFails
    \/ ScriptEnds \/ ScriptThrows \/ ScriptLoads \/ ScriptLoaded

Next ==
    \/ \E n \in Modules : CompileAgain(n)
    \/ MainLoads \/ Seen \/ Sections \/ Afterwards

Spec == Init /\ [][Next]_vars

-----------------------------------------------------------------------------
(***************************************************************************)
(* Properties                                                               *)
(***************************************************************************)
\* A file as the compiler writes it (ecCreateModuleSection): one module, which
\* comes first; then what it requires, before any class; all its classes; and the
\* end after them.  What scripts load are modules.
Kind(file, k) == file.sections[k].section
IsWhole(file) ==
    /\ Len(file.sections) \in Nat /\ Len(file.sections) > 0
    /\ \A k \in 1..Len(file.sections) :
        /\ Kind(file, k) = "module" <=> k = 1
        /\ Kind(file, k) = "module_end" => k = Len(file.sections)
        /\ Kind(file, k) = "dependency" =>
            /\ file.sections[k].name \in Modules
            /\ \A l \in 1..k : Kind(file, l) # "class"
        /\ Kind(file, k) = "initializer" /\ file.sections[k].script.does \in {"loads", "tries"}
            => file.sections[k].script.module \in Modules
        /\ Kind(file, k) = "class" => Len(file.sections[k].implements) \in Nat
    /\ \A r \in Range(file.requires) : \E k \in 1..Len(file.sections) :
        Kind(file, k) = "dependency" /\ file.sections[k].name = r.name /\ file.sections[k].checksum = r.checksum
    /\ \A c \in DOMAIN file.layouts : \E k \in 1..Len(file.sections) :
        Kind(file, k) = "class" /\ file.sections[k].name = c

\* The module in a file
NameIn(file) == file.sections[1].name

\* Files are whole and hold the modules that they are named after, whatever was
\* compiled again.
FilesAreWhole == \A n \in Modules : IsWhole(disk[n]) /\ NameIn(disk[n]) = n

Begins == stack # <<>> /\ Top.call = "initializer" /\ Top.at = 1 /\ returned = "no"
Beginning == mods[Top.mp]

\* Modules whose load or initializer waits for what is under way
Waiting ==
    UNION {IF stack[i].call = "load" THEN {stack[i].mp} \cup {modules[k] : k \in stack[i].firstModule + 1..Len(modules)}
           ELSE {stack[i].mp} : i \in DOMAIN stack}

\* When the code of a module begins to run (ejsRunInitializer), its classes are
\* complete, and every module that it requires has run, in the form that it was
\* compiled with, or waits for it, as one whose script loads a module that
\* requires it again does.
ReadyWhenRun ==
    Begins =>
        /\ \A c \in DOMAIN Beginning.file.layouts : ~globals[c].needFixup
        /\ \A r \in Range(Beginning.file.requires) :
            \E m \in DOMAIN mods :
                /\ mods[m].name = r.name /\ mods[m].checksum = r.checksum
                /\ mods[m].ran = "done" \/ m \in Waiting

\* A module that is on the list, which is all that a later load or dependency
\* looks at (ejsLookupModule), has run to its end, once no load is under way.
ListedHaveRun == stack = <<>> => \A i \in DOMAIN modules : mods[modules[i]].ran = "done"

\* Until a load fails, or is told to reload, no module runs twice, whichever
\* scripts and dependencies lead to it.
OnceUnlessFailed ==
    clean => \A i, j \in DOMAIN mods : i # j /\ mods[i].name = mods[j].name => "no" \in {mods[i].ran, mods[j].ran}

\* The code of methods has the numbers of slots in it: the classes of the
\* module must have their properties where the compiler had them.
Layout(slots) == [i \in DOMAIN slots |-> <<slots[i].name, slots[i].of>>]
LaidOut ==
    \A c \in DOMAIN Beginning.file.layouts :
        LET meant == Beginning.file.layouts[c] IN
        Layout(globals[c].statics) = Layout(meant.statics) /\ Layout(globals[c].prototype) = Layout(meant.prototype)

\* They have, when modules were loaded once and the module itself requires all
\* that the modules it requires do (the checksums of loadDependencySection).
NamesOf(requires) == {r.name : r \in Range(requires)}
Required == NamesOf(Beginning.file.requires)
RequiresAll == \A m \in DOMAIN mods : mods[m].name \in Required => NamesOf(mods[m].file.requires) \subseteq Required
MadeOnce == \A m, n \in DOMAIN mods : mods[m].name \in Required /\ mods[n].name = mods[m].name => m = n
LaidOutIfOnce == Begins /\ RequiresAll /\ MadeOnce => LaidOut

\* Whatever was compiled and loaded again, a module that was "compiled depending
\* on a different version" of another is not let in (loadDependencySection)
LaidOutAsCompiled == Begins => LaidOut
=============================================================================
