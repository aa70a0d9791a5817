---------------------------- MODULE HeteroVirtual ----------------------------
(****************************************************************************)
(* Virtual functions in a kernel (lib/Transforms/iHRC/HeteroVirtual.cpp):   *)
(* what the pass finds and generates, and what the generated code does in   *)
(* the shared region that SvmPlacement places.  The pass replaces a virtual *)
(* call by a chain of comparisons with every override it can find.  At the  *)
(* start of main the program copies its vtables into shared memory, at the  *)
(* offload it fills a context with the addresses of the overrides, and the  *)
(* kernel compares the entry of the object's vtable with the context.       *)
(*                                                                          *)
(* One kernel, offloaded once, after inlining; classes outside namespaces   *)
(* with at most one base, no pure virtual function.  Two different          *)
(* functions have no byte of their addresses in common.                     *)
(****************************************************************************)
EXTENDS SvmPlacement, Sequences, FiniteSets, SequencesExt

CONSTANTS
    Classes,   \* numbers; a base has a lower number than what derives from it
    Slots,     \* virtual functions of a class: 0 .. n
    PtrSize,   \* bytes of a pointer, scaled
    Programs   \* the programs that are compiled

(* base: the base of each class, 0 for none; defines: the functions each    *)
(* class declares; emitted: the classes whose vtable the module contains:   *)
(* an unused one is dropped, while its type information stays;              *)
(* calls: the virtual calls of the kernel, by static class and function;    *)
(* join: it is the kernel of a reduction.                                   *)
ProgramType ==
    [base : [Classes -> Classes \cup {0}], defines : [Classes -> SUBSET Slots],
     emitted : SUBSET Classes, calls : Seq([class : Classes, slot : Slots]), join : BOOLEAN]

VARIABLES
    prog,       \* the program
    stage,      \* compile, loaded, main, fill, kernel, done or dead
    worklist,   \* of get_possible_targets
    targets,    \* possible_targets
    chains,     \* the overrides each virtual call has been rewritten to try
    next,       \* first byte of the region nothing was allocated in
    shared,     \* contents of the bytes written so far
    table,      \* __ZTV.._hetero__: the shared copy of each vtable, 0 is null
    receiver,   \* the object the kernel works on: its class and its vptr
    gcontext,   \* the global context
    stored,     \* entries stored into it
    device,     \* where the kernel runs
    ran         \* what each virtual call of the kernel has called

compiling == <<worklist, targets, chains>>
memory    == <<next, shared, table>>
offload   == <<gcontext, stored, device>>
virtual   == <<prog, stage, compiling, memory, receiver, offload, ran>>

Nothing == <<0, 0>>
NoObject == [class |-> 0, vptr |-> 0]

(* A class with its bases.                                                  *)
Ancestors(p) ==
    LET up[c \in Classes] == {c} \cup IF p.base[c] = 0 THEN {} ELSE up[p.base[c]] IN up

(* The function in a slot of the vtable of a class, named by the class that *)
(* defines it.                                                              *)
Override(c, s) ==
    LET owners == {d \in Ancestors(prog)[c] : s \in prog.defines[d]}
    IN  <<CHOOSE d \in owners : \A e \in owners : e <= d, s>>

(* Roots declare every function, and there is a class whose objects the     *)
(* kernel can be given, so that the type information of the static classes  *)
(* is in the module.                                                        *)
WellFormed(p) ==
    /\ \A c \in Classes : p.base[c] < c /\ (p.base[c] = 0 => p.defines[c] = Slots)
    /\ p.calls # <<>>
    /\ \E c \in p.emitted : \A n \in DOMAIN p.calls : p.calls[n].class \in Ancestors(p)[c]

(* A vtable is smaller than a page, and nothing is mapped at address 0.     *)
ASSUME VirtualAssumption ==
    /\ Classes \subseteq Nat \ {0} /\ IsFiniteSet(Classes)
    /\ IsFiniteSet(Slots) /\ Slots = 0 .. Cardinality(Slots) - 1
    /\ PtrSize \in Nat \ {0, 1} /\ PtrSize * (2 + Cardinality(Slots)) <= Page
    /\ \A p \in Programs : p \in ProgramType /\ WellFormed(p)

VirtualInit ==
    /\ Init
    /\ prog \in Programs /\ stage = "compile"
    /\ worklist = {prog.calls[1].class} /\ targets = <<>> /\ chains = <<>>
    /\ next = 0 /\ shared = <<>> /\ table = [c \in Classes |-> 0]
    /\ receiver = NoObject
    /\ gcontext = 0 /\ stored = 0 /\ device = "cpu"
    /\ ran = <<>>

-----------------------------------------------------------------------------
(* The pass.                                                                *)

ThisCall == prog.calls[Len(chains) + 1]

(* Mutant: the hierarchy is read from the derived class to its base.        *)
DerivedReversed(c) == {d \in Classes : prog.base[c] = d}

(* inverse_hierarchy, from the type information of the derived classes.     *)
Derived(c) == {d \in Classes : prog.base[d] = c}

(* One turn of the loop of get_possible_targets.  The order of the work     *)
(* list, which follows that of the module's globals, is left open.  A class *)
(* whose vtable was dropped is passed over, with what derives from it.      *)
Explore(c) ==
    LET f == Override(c, ThisCall.slot) IN
    /\ stage = "compile" /\ c \in worklist
    /\ IF c \in prog.emitted
       THEN /\ targets' = IF Contains(targets, f) THEN targets ELSE Append(targets, f)
            /\ worklist' = (worklist \ {c}) \cup Derived(c)
       ELSE /\ worklist' = worklist \ {c}
            /\ UNCHANGED targets
    /\ UNCHANGED <<vars, prog, stage, chains, memory, receiver, offload, ran>>

(* modify_basic_block pops the targets from the back; a call without a      *)
(* target is deleted.  After the last call the program is linked and run.   *)
ModifyBasicBlock ==
    /\ stage = "compile" /\ worklist = {}
    /\ chains' = Append(chains, Reverse(targets))
    /\ targets' = <<>>
    /\ IF Len(chains') = Len(prog.calls)
       THEN stage' = "loaded" /\ UNCHANGED worklist
       ELSE worklist' = {prog.calls[Len(chains') + 1].class} /\ UNCHANGED stage
    /\ UNCHANGED <<vars, prog, memory, receiver, offload, ran>>

(* What find_globals_per_f collects: the first comparison of each call      *)
(* comes before the blocks appended for the others.  The kernel of a        *)
(* reduction is collected twice, in place of the join function.             *)
VirtualFuncs ==
    LET heads == FlattenSeq([n \in DOMAIN chains |->
                     IF chains[n] = <<>> THEN <<>> ELSE <<Head(chains[n])>>])
        tails == FlattenSeq([n \in DOMAIN chains |->
                     IF chains[n] = <<>> THEN <<>> ELSE Tail(chains[n])])
    IN  IF prog.join THEN heads \o tails \o heads \o tails ELSE heads \o tails

(* The field of the context the kernel loads for a function.                *)
Position(f) == SelectInSeq(VirtualFuncs, LAMBDA g : g = f) - 1

-----------------------------------------------------------------------------
(* Shared memory.  What the program allocates here is small, so it comes    *)
(* from slabs and never from the first page of the region.                  *)

Room(size) == next + size <= limit

(* A pointer stored at an address.                                          *)
Store(mem, a, f) ==
    [b \in DOMAIN mem \cup (a .. a + PtrSize - 1) |->
        IF b \in a .. a + PtrSize - 1 THEN <<f, b - a>> ELSE mem[b]]

(* The address at which the device finds a shared byte.                     *)
Seen(p) == IF device = "cpu" THEN p ELSE buffer + Low(ToGpu(p) - surface)

Readable(p) ==
    \A k \in 0 .. PtrSize - 1 :
        IF device = "cpu" THEN Seen(p + k) \in svmRegion .. limit - 1
                          ELSE Seen(p + k) \in buffer .. buffer + SvmSize - 1

(* The function whose address a kernel loads, if it is one's.               *)
Load(p) ==
    LET mine == {f \in Classes \X Slots : \A k \in 0 .. PtrSize - 1 :
                    Seen(p + k) \in DOMAIN shared /\ shared[Seen(p + k)] = <<f, k>>}
    IN  IF mine = {} THEN Nothing ELSE CHOOSE f \in mine : TRUE

-----------------------------------------------------------------------------
(* The program.  The first request for shared memory places the region, in  *)
(* the initialisation of a static variable or in PromoteVtables; main calls *)
(* hetero_init.                                                             *)

Startup ==
    /\ \/ /\ stage = "loaded"
          /\ \/ \E a \in Addresses : InitMemoryManager(a) /\ next' = svmRegion' + Page
             \/ NoMemory /\ UNCHANGED next
       \/ /\ stage = "main"
          /\ \E g \in Surfaces : InitOcl(g)
          /\ UNCHANGED next
    /\ UNCHANGED <<prog, stage, compiling, shared, table, receiver, offload, ran>>

TableSize == PtrSize * (2 + Cardinality(Slots))
Tables    == LET before(c) == Cardinality({d \in prog.emitted : d < c})
             IN  [c \in Classes |-> IF c \in prog.emitted THEN next + TableSize * before(c) ELSE 0]

(* Mutant: the elements are stored from the start of the copy.              *)
CellShifted(tables, w) == tables[w[1]] + PtrSize * (w[2] + 1) + w[3]

(* Where the copy of a vtable has a byte of a slot: element 0 is left out, 1*)
(* is the type information, the functions follow.                           *)
Cell(tables, w) == tables[w[1]] + PtrSize * (w[2] + 2) + w[3]

(* __promote_vtable_hetero__, called first thing in main: a byte of a slot  *)
(* for every class, slot and byte of a pointer.                             *)
PromoteVtables ==
    LET bytes == prog.emitted \X Slots \X (0 .. PtrSize - 1) IN
    /\ stage = "loaded" /\ step = "ready"
    /\ Room(TableSize * Cardinality(prog.emitted))
    /\ table' = Tables
    /\ shared' = [a \in {Cell(Tables, w) : w \in bytes} |->
                     LET w == CHOOSE w \in bytes : Cell(Tables, w) = a
                     IN  <<Override(w[1], w[2]), w[3]>>]
    /\ next' = next + TableSize * Cardinality(prog.emitted)
    /\ stage' = "main"
    /\ UNCHANGED <<vars, prog, compiling, receiver, offload, ran>>

(* The rewritten constructors, called before main by the initialisation of  *)
(* a static variable or later: the vptr comes from the shared copy.         *)
Construct(c) ==
    /\ stage \in {"loaded", "main"} /\ step \in {"ready", "mapped"}
    /\ receiver = NoObject
    /\ c \in prog.emitted
    /\ \A n \in DOMAIN prog.calls : prog.calls[n].class \in Ancestors(prog)[c]
    /\ receiver' = [class |-> c, vptr |-> table[c] + 2 * PtrSize]
    /\ UNCHANGED <<vars, prog, stage, compiling, memory, offload, ran>>

(* The call of offload: a context with a field for each function, NULL if   *)
(* there is none.                                                           *)
Offload(d) ==
    LET size == PtrSize * Len(VirtualFuncs) IN
    /\ stage = "main" /\ step = "mapped" /\ receiver # NoObject
    /\ Room(size)
    /\ gcontext' = IF size = 0 THEN 0 ELSE next
    /\ next' = next + size
    /\ device' = d
    /\ stage' = "fill"
    /\ UNCHANGED <<vars, prog, compiling, shared, table, receiver, stored, ran>>

(* Neither caller looks at what malloc returned before it stores there.     *)
MallocFails ==
    /\ \/ stage = "loaded" /\ step = "ready" /\ ~Room(TableSize * Cardinality(prog.emitted))
       \/ stage = "main" /\ step = "mapped" /\ receiver # NoObject /\ ~Room(PtrSize * Len(VirtualFuncs))
    /\ stage' = "dead"
    /\ UNCHANGED <<vars, prog, compiling, memory, receiver, offload, ran>>

(* The index of an entry is added to an i8*: it counts bytes.               *)
StoreEntry ==
    /\ stage = "fill" /\ stored < Len(VirtualFuncs)
    /\ shared' = Store(shared, gcontext + stored, VirtualFuncs[stored + 1])
    /\ stored' = stored + 1
    /\ UNCHANGED <<vars, prog, stage, compiling, next, table, receiver, gcontext, device, ran>>

Launch ==
    /\ stage = "fill" /\ stored = Len(VirtualFuncs)
    /\ stage' = "kernel"
    /\ UNCHANGED <<vars, prog, compiling, memory, receiver, offload, ran>>

Entry(f) == Load(gcontext + PtrSize * Position(f))

(* A virtual call of the kernel: the chain calls the first function whose   *)
(* entry equals that of the vtable, or none.                                *)
VirtualCall ==
    LET n   == Len(ran) + 1
        vfn == receiver.vptr + PtrSize * prog.calls[n].slot
        hit == SelectInSeq(chains[n], LAMBDA f : Entry(f) = Load(vfn))
    IN
    /\ stage = "kernel" /\ n <= Len(prog.calls)
    /\ chains[n] = <<>> \/ Readable(vfn)
    /\ ran' = Append(ran, IF hit = 0 THEN Nothing ELSE chains[n][hit])
    /\ UNCHANGED <<vars, prog, stage, compiling, memory, receiver, offload>>

Fault ==
    /\ stage = "kernel" /\ Len(ran) < Len(prog.calls)
    /\ chains[Len(ran) + 1] # <<>>
    /\ ~Readable(receiver.vptr + PtrSize * prog.calls[Len(ran) + 1].slot)
    /\ stage' = "dead"
    /\ UNCHANGED <<vars, prog, compiling, memory, receiver, offload, ran>>

KernelEnds ==
    /\ stage = "kernel" /\ Len(ran) = Len(prog.calls)
    /\ stage' = "done"
    /\ UNCHANGED <<vars, prog, compiling, memory, receiver, offload, ran>>

Ended == (stage \in {"done", "dead"} \/ step = "exited") /\ UNCHANGED <<vars, virtual>>

VirtualNext ==
    \/ \E c \in Classes : Explore(c) \/ Construct(c)
    \/ ModifyBasicBlock
    \/ Startup \/ PromoteVtables
    \/ \E d \in {"cpu", "gpu"} : Offload(d)
    \/ StoreEntry \/ Launch \/ MallocFails
    \/ VirtualCall \/ Fault \/ KernelEnds
    \/ Ended

VirtualSpec == VirtualInit /\ [][VirtualNext]_<<vars, virtual>>

-----------------------------------------------------------------------------
(* Properties.                                                              *)

(* The classes an object of static class b can have, as far as no class on  *)
(* the way to b lacks its vtable.                                           *)
Visible(b) == {c \in prog.emitted : /\ b \in Ancestors(prog)[c]
                                    /\ \A d \in Ancestors(prog)[c] :
                                           b \in Ancestors(prog)[d] => d \in prog.emitted}

(* get_possible_targets finds the overrides of exactly the classes that     *)
(* derive from the static class through emitted ones: none is missed and    *)
(* none of an unrelated class is tried, whatever the order of the globals.  *)
TargetsExact ==
    \A n \in DOMAIN chains : LET call == prog.calls[n] IN
        ToSet(chains[n]) = {Override(c, call.slot) : c \in Visible(call.class)}

(* On both devices a virtual call in the kernel runs the override of the    *)
(* object's class, where the context has one entry, the class was found and *)
(* the object was built after the vtables were copied; it runs nothing else *)
(* unless the last entry, stored whole, fell on the field of another; only  *)
(* an object built before the copy faults.                                  *)
CallRunsOverride ==
    LET entries == Len(VirtualFuncs) IN
    /\ \A n \in DOMAIN ran : LET call == prog.calls[n] IN
        /\ \/ ran[n] \in {Override(receiver.class, call.slot), Nothing}
           \/ entries > 1 /\ (entries - 1) % PtrSize = 0
        /\ ran[n] = Nothing => entries > 1 \/ receiver.class \notin Visible(call.class)
    /\ stage = "dead" /\ gcontext # 0 => receiver.vptr = 2 * PtrSize

(* HeteroVirtual.cpp:390: `for each element in virtual_funcs, assign them   *)
(* one by one to global_context'.                                           *)
EntriesExact == stage = "kernel" => \A f \in ToSet(VirtualFuncs) : Entry(f) = f

=============================================================================
