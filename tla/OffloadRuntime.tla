---------------------------- MODULE OffloadRuntime ----------------------------
(****************************************************************************)
(* The iHRC runtime (runtime/src): hetero_init / hetero_cleanup, the entry  *)
(* point offload_ that compiled code calls for every parallel_for_hetero    *)
(* loop, the just-in-time compilation caches (gpu_program_t.binary and      *)
(* gpu_function_t.binary), the OpenCL kernel object with its mutable        *)
(* argument slots, the in-order command queue, and clFinish.                *)
(*                                                                          *)
(* A member of Calls is one invocation of offload_.  Since one invocation   *)
(* creates at most one cl_kernel and enqueues at most one command, a call   *)
(* also names the kernel object it created and the command it enqueued, and *)
(* the loop body (context, gContext) it was given.                          *)
(****************************************************************************)
EXTENDS Integers

CONSTANTS
    Threads,      \* application threads that call offload_
    Functions,    \* loop bodies (one gpu_function_t each, one shared program)
    Calls,        \* invocations of offload_ (bounds the behaviour)
    NoCall,       \* NULL, where a call id is expected
    CallersOf,    \* [Functions -> SUBSET Threads]: who reaches which loop
    Annotated,    \* loop bodies for which a gpu_function_t was generated
    NumIters,     \* trip counts passed as `int numiters`
    Hints,        \* scheduler hints written in the application
    EnvHints,     \* values of the SCHEDULER variable, -1 when unset
    OutsideInit,  \* calls are made before hetero_init or after hetero_cleanup
    Word,         \* 2^32, scaled: an int is taken modulo Word
    MaxUpper,     \* largest upper half read past numiters (0: none)
    TbbRuntime,   \* built with CPU_TBB_RUNTIME
    MaxInits,     \* bound on the number of hetero_init calls
    Faults        \* OpenCL services that may refuse a request

GPU                == 0
SINGLE_CORE_CPU    == 1
MULTI_CORE_CPU_TBB == 2

FaultKinds == {"init", "build", "kernel", "enqueue", "finish"}
Indices    == 0 .. (MaxUpper + 1) * Word - 1

ASSUME RuntimeAssumption ==
    /\ NoCall \notin Calls
    /\ Threads # {} /\ Functions # {}
    /\ CallersOf \in [Functions -> SUBSET Threads]
    /\ Annotated \subseteq Functions
    /\ Word \in Nat \ {0} /\ MaxUpper \in Nat /\ MaxInits \in Nat
    /\ NumIters \subseteq Int
    /\ \A n \in NumIters : -Word < 2 * n + 1 /\ 2 * n < Word
    /\ Hints \subseteq Nat /\ EnvHints \subseteq Nat \cup {-1}
    /\ OutsideInit \in BOOLEAN /\ TbbRuntime \in BOOLEAN
    /\ TbbRuntime => NumIters \subseteq Nat
    /\ Faults \subseteq FaultKinds

VARIABLES
    gpu,             \* ClContext/ClCommandQueue: the hetero_init that made them, 0 is NULL
    inits,           \* hetero_init calls so far
    envHint,         \* env_scheduler_hint
    exited,          \* "no", or why the process ended
    programBinary,   \* gpu_program_t.binary: a program object or NoCall
    functionBinary,  \* gpu_function_t.binary per function: a kernel object or NoCall
    pc,              \* where each invocation of offload_ is
    call,            \* its thread, function, trip count and effective scheduler
    programOf,       \* its local `binary` / programBinary
    kernelOf,        \* its local functionBinary
    program,         \* program objects: the hetero_init whose context they belong to
    kernel,          \* kernel objects: context they belong to, argument slots 2 and 3
    command,         \* commands: arguments captured, commands ahead in the queue
    pending,         \* commands enqueued and not complete
    awaited,         \* commands a clFinish in progress waits for
    event,           \* the global cl_event: whose command wrote it last
    todo,            \* iterations a loop or command still has to execute
    runs             \* how often each iteration of each call was executed

clVars     == <<gpu, inits, envHint>>
cacheVars  == <<programBinary, functionBinary>>
localVars  == <<call, programOf, kernelOf>>
deviceVars == <<program, kernel, command, pending, awaited, event>>
vars == <<clVars, exited, cacheVars, pc, localVars, deviceVars, todo, runs>>

Active(c)     == pc[c] \notin {"idle", "returned"}
NoneActive    == \A c \in Calls : ~Active(c)
Running       == exited = "no"
Submitted(c)  == command[c].context # NoCall
MayFail(kind) == kind \in Faults

(* Mutant: one iteration too many.                                          *)
GlobalSizeOffByOne(n, upper) == (n % Word) + upper * Word + 1

(* Mutant: the pointer is one word off.                                     *)
GlobalSizeHighWord(n, upper) == (n % Word) + (upper + 1) * Word

(* The global size is read as a size_t through a pointer to the int         *)
(* numiters: the upper word is whatever lies beside it on the stack.        *)
GlobalSize(n, upper) == (n % Word) + upper * Word

NoArguments == [thread |-> CHOOSE t \in Threads : TRUE,
                fn |-> CHOOSE f \in Functions : TRUE, iters |-> 0, via |-> -1]
NoKernel  == [epoch |-> 0, context |-> NoCall, gContext |-> NoCall]
NoCommand == [context |-> NoCall, gContext |-> NoCall, ahead |-> {}]

Init ==
    /\ gpu = 0 /\ inits = 0 /\ envHint = 0 /\ exited = "no"
    /\ programBinary = NoCall
    /\ functionBinary = [f \in Functions |-> NoCall]
    /\ pc = [c \in Calls |-> "idle"]
    /\ call = [c \in Calls |-> NoArguments]
    /\ programOf = [c \in Calls |-> NoCall]
    /\ kernelOf = [c \in Calls |-> NoCall]
    /\ program = [c \in Calls |-> 0]
    /\ kernel = [c \in Calls |-> NoKernel]
    /\ command = [c \in Calls |-> NoCommand]
    /\ pending = {}
    /\ awaited = [c \in Calls |-> {}]
    /\ event = NoCall
    /\ todo = [c \in Calls |-> {}]
    /\ runs = [c \in Calls |-> [i \in Indices |-> 0]]

-----------------------------------------------------------------------------
(* Life cycle.  Applications call hetero_init first and hetero_cleanup last *)
(* (workloads), so neither overlaps an offload_ in progress.                *)

HeteroInit ==
    /\ Running /\ NoneActive /\ inits < MaxInits
    /\ inits' = inits + 1
    /\ gpu' = inits'
    /\ envHint' \in IF inits = 0 THEN EnvHints ELSE {envHint}
    /\ UNCHANGED <<exited, cacheVars, pc, localVars, deviceVars, todo, runs>>

HeteroInitFails ==
    /\ Running /\ NoneActive /\ inits < MaxInits
    /\ MayFail("init")
    /\ exited' = "init"
    /\ UNCHANGED <<clVars, cacheVars, pc, localVars, deviceVars, todo, runs>>

(* Releases the queue and the context; the cached binaries stay.            *)
HeteroCleanup ==
    /\ Running /\ NoneActive /\ gpu # 0
    /\ gpu' = 0
    /\ UNCHANGED <<inits, envHint, exited, cacheVars, pc, localVars, deviceVars, todo, runs>>

-----------------------------------------------------------------------------
(* offload_: choose a scheduler.  An environment hint overrides the one in  *)
(* the code; a hint outside the switch, or no iteration, runs nothing.      *)

Scheduler(h) == IF envHint = -1 THEN h ELSE envHint

Offload(c, t, f, n, h) ==
    /\ Running /\ pc[c] = "idle" /\ t \in CallersOf[f]
    /\ gpu # 0 \/ OutsideInit
    /\ \A d \in Calls : Active(d) => call[d].thread # t
    /\ LET via == IF n = 0 THEN -1 ELSE Scheduler(h)
           cpu == via \in {SINGLE_CORE_CPU, MULTI_CORE_CPU_TBB}
       IN  /\ call' = [call EXCEPT ![c] = [thread |-> t, fn |-> f, iters |-> n, via |-> via]]
           /\ pc' = [pc EXCEPT ![c] = IF via = GPU THEN "readFunction"
                                      ELSE IF cpu THEN "loop" ELSE "leave"]
           /\ todo' = [todo EXCEPT ![c] = IF cpu THEN {i \in Indices : i < n} ELSE {}]
    /\ UNCHANGED <<clVars, exited, cacheVars, programOf, kernelOf, deviceVars, runs>>

(* The SINGLE_CORE_CPU loop, and cpu_apply_f: sequential unless the runtime *)
(* was built with TBB, where chunks run in any order.                       *)
LoopIteration(c, i) ==
    /\ Running /\ pc[c] = "loop" /\ i \in todo[c]
    /\ (TbbRuntime /\ call[c].via = MULTI_CORE_CPU_TBB) \/ \A j \in todo[c] : i <= j
    /\ todo' = [todo EXCEPT ![c] = @ \ {i}]
    /\ runs' = [runs EXCEPT ![c][i] = @ + 1]
    /\ UNCHANGED <<clVars, exited, cacheVars, pc, localVars, deviceVars>>

LoopEnd(c) ==
    /\ Running /\ pc[c] = "loop" /\ todo[c] = {}
    /\ pc' = [pc EXCEPT ![c] = "leave"]
    /\ UNCHANGED <<clVars, exited, cacheVars, localVars, deviceVars, todo, runs>>

-----------------------------------------------------------------------------
(* gpu_apply and compile_gpu_module: the two unlocked binary caches.        *)

(* Mutant: the cached kernel is not consulted.                              *)
ReadFunctionUncached(c) ==
    /\ Running /\ pc[c] = "readFunction" /\ call[c].fn \in Annotated
    /\ pc' = [pc EXCEPT ![c] = "readProgram"]
    /\ UNCHANGED <<clVars, exited, cacheVars, localVars, deviceVars, todo, runs>>

ReadFunction(c) ==
    /\ Running /\ pc[c] = "readFunction" /\ call[c].fn \in Annotated
    /\ kernelOf' = [kernelOf EXCEPT ![c] = functionBinary[call[c].fn]]
    /\ pc' = [pc EXCEPT ![c] = IF kernelOf'[c] = NoCall THEN "readProgram" ELSE "setContext"]
    /\ UNCHANGED <<clVars, exited, cacheVars, call, programOf, deviceVars, todo, runs>>

(* A loop body that was not annotated reaches gpu_apply with gpu_function   *)
(* NULL, and gpu_function->binary is read all the same.                     *)
ReadFunctionOfNull(c) ==
    /\ Running /\ pc[c] = "readFunction" /\ call[c].fn \notin Annotated
    /\ exited' = "null"
    /\ UNCHANGED <<clVars, cacheVars, pc, localVars, deviceVars, todo, runs>>

ReadProgram(c) ==
    /\ Running /\ pc[c] = "readProgram"
    /\ programOf' = [programOf EXCEPT ![c] = programBinary]
    /\ pc' = [pc EXCEPT ![c] = IF programBinary = NoCall THEN "compile" ELSE "createKernel"]
    /\ UNCHANGED <<clVars, exited, cacheVars, call, kernelOf, deviceVars, todo, runs>>

(* Mutant: a program is built although there is no context.                 *)
CompileProgramAnyway(c) ==
    /\ Running /\ pc[c] = "compile"
    /\ program' = [program EXCEPT ![c] = gpu]
    /\ programBinary' = c
    /\ programOf' = [programOf EXCEPT ![c] = c]
    /\ pc' = [pc EXCEPT ![c] = "createKernel"]
    /\ UNCHANGED <<clVars, exited, functionBinary, call, kernelOf, kernel, command,
                   pending, awaited, event, todo, runs>>

(* The result is stored whether or not another thread stored one meanwhile, *)
(* and also when it is NULL, as it always is without a context.             *)
CompileProgram(c) ==
    /\ Running /\ pc[c] = "compile"
    /\ \/ /\ gpu # 0
          /\ program' = [program EXCEPT ![c] = gpu]
          /\ programBinary' = c
       \/ /\ gpu = 0 \/ MayFail("build")
          /\ programBinary' = NoCall
          /\ UNCHANGED program
    /\ programOf' = [programOf EXCEPT ![c] = programBinary']
    /\ pc' = [pc EXCEPT ![c] = "createKernel"]
    /\ UNCHANGED <<clVars, exited, functionBinary, call, kernelOf, kernel, command,
                   pending, awaited, event, todo, runs>>

(* Mutant: the kernel is cached for every loop of the program.              *)
CreateKernelForAll(c) ==
    /\ Running /\ pc[c] = "createKernel" /\ programOf[c] # NoCall
    /\ kernel' = [kernel EXCEPT ![c].epoch = program[programOf[c]]]
    /\ kernelOf' = [kernelOf EXCEPT ![c] = c]
    /\ functionBinary' = [f \in Functions |-> c]
    /\ pc' = [pc EXCEPT ![c] = "setContext"]
    /\ UNCHANGED <<clVars, exited, programBinary, call, programOf,
                   program, command, pending, awaited, event, todo, runs>>

CreateKernel(c) ==
    /\ Running /\ pc[c] = "createKernel" /\ programOf[c] # NoCall
    /\ kernel' = [kernel EXCEPT ![c].epoch = program[programOf[c]]]
    /\ kernelOf' = [kernelOf EXCEPT ![c] = c]
    /\ functionBinary' = [functionBinary EXCEPT ![call[c].fn] = c]
    /\ pc' = [pc EXCEPT ![c] = "setContext"]
    /\ UNCHANGED <<clVars, exited, programBinary, call, programOf,
                   program, command, pending, awaited, event, todo, runs>>

(* Mutant: a refused kernel is tried again until it succeeds.               *)
CreateKernelRetried(c) ==
    /\ Running /\ pc[c] = "createKernel" /\ (programOf[c] = NoCall \/ MayFail("kernel"))
    /\ pc' = [pc EXCEPT ![c] = "readFunction"]
    /\ UNCHANGED <<clVars, exited, cacheVars, localVars, deviceVars, todo, runs>>

(* clCreateKernel refuses, as it always does for a NULL program: NULL is    *)
(* stored, "Exiting: JITing failed" is printed and 0 returned, and the      *)
(* caller goes on to clFinish.                                              *)
CreateKernelFails(c) ==
    /\ Running /\ pc[c] = "createKernel" /\ (programOf[c] = NoCall \/ MayFail("kernel"))
    /\ functionBinary' = [functionBinary EXCEPT ![call[c].fn] = NoCall]
    /\ pc' = [pc EXCEPT ![c] = "callFinish"]
    /\ UNCHANGED <<clVars, exited, programBinary, localVars, deviceVars, todo, runs>>

-----------------------------------------------------------------------------
(* execute_gpu_function_ocl: argument slots live in the cl_kernel, which    *)
(* every call of the same loop shares; enqueueing captures them.            *)

SetContext(c) ==
    /\ Running /\ pc[c] = "setContext"
    /\ kernel' = [kernel EXCEPT ![kernelOf[c]].context = c]
    /\ pc' = [pc EXCEPT ![c] = "setGContext"]
    /\ UNCHANGED <<clVars, exited, cacheVars, localVars, program, command, pending,
                   awaited, event, todo, runs>>

SetGContext(c) ==
    /\ Running /\ pc[c] = "setGContext"
    /\ kernel' = [kernel EXCEPT ![kernelOf[c]].gContext = c]
    /\ pc' = [pc EXCEPT ![c] = "enqueue"]
    /\ UNCHANGED <<clVars, exited, cacheVars, localVars, program, command, pending,
                   awaited, event, todo, runs>>

Enqueue(c, upper) ==
    /\ Running /\ pc[c] = "enqueue" /\ gpu # 0 /\ kernel[kernelOf[c]].epoch = gpu
    /\ command' = [command EXCEPT ![c] = [context  |-> kernel[kernelOf[c]].context,
                                          gContext |-> kernel[kernelOf[c]].gContext,
                                          ahead    |-> pending]]
    /\ pending' = pending \cup {c}
    /\ event' = c
    /\ todo' = [todo EXCEPT ![c] = 0 .. GlobalSize(call[c].iters, upper) - 1]
    /\ pc' = [pc EXCEPT ![c] = "callFinish"]
    /\ UNCHANGED <<clVars, exited, cacheVars, localVars, program, kernel,
                   awaited, runs>>

(* CL_INVALID_COMMAND_QUEUE, CL_INVALID_CONTEXT or no resources: exit(-1).  *)
EnqueueFails(c) ==
    /\ Running /\ pc[c] = "enqueue"
    /\ gpu = 0 \/ kernel[kernelOf[c]].epoch # gpu \/ MayFail("enqueue")
    /\ exited' = "enqueue"
    /\ UNCHANGED <<clVars, cacheVars, pc, localVars, deviceVars, todo, runs>>

(* The in-order queue: work items of the oldest command, in any order.      *)
Executing(c) == c \in pending /\ command[c].ahead \cap pending = {}

GpuWorkItem(c, i) ==
    /\ Running /\ Executing(c) /\ i \in todo[c]
    /\ todo' = [todo EXCEPT ![c] = @ \ {i}]
    /\ runs' = [runs EXCEPT ![command[c].context][i] = @ + 1]
    /\ UNCHANGED <<clVars, exited, cacheVars, pc, localVars, deviceVars>>

GpuComplete(c) ==
    /\ Running /\ Executing(c) /\ todo[c] = {}
    /\ pending' = pending \ {c}
    /\ UNCHANGED <<clVars, exited, cacheVars, pc, localVars, program, kernel,
                   command, awaited, event, todo, runs>>

-----------------------------------------------------------------------------
(* try_gpu_apply_f: clFinish blocks until everything enqueued before it is  *)
(* complete, then the statistics build reads the global Event.              *)

(* Mutant: clFlush instead of clFinish.                                     *)
CallFlush(c) ==
    /\ Running /\ pc[c] = "callFinish" /\ gpu # 0
    /\ pc' = [pc EXCEPT ![c] = "waitFinish"]
    /\ UNCHANGED <<clVars, exited, cacheVars, localVars, deviceVars, todo, runs>>

CallFinish(c) ==
    /\ Running /\ pc[c] = "callFinish" /\ gpu # 0
    /\ awaited' = [awaited EXCEPT ![c] = pending]
    /\ pc' = [pc EXCEPT ![c] = "waitFinish"]
    /\ UNCHANGED <<clVars, exited, cacheVars, localVars, program, kernel,
                   command, pending, event, todo, runs>>

(* An error from clFinish is returned as 0, which offload_ does not look at *)
FinishFails(c) ==
    /\ Running /\ pc[c] = "callFinish" /\ (gpu = 0 \/ MayFail("finish"))
    /\ pc' = [pc EXCEPT ![c] = "leave"]
    /\ UNCHANGED <<clVars, exited, cacheVars, localVars, deviceVars, todo, runs>>

FinishReturns(c) ==
    /\ Running /\ pc[c] = "waitFinish" /\ awaited[c] \cap pending = {}
    /\ pc' = [pc EXCEPT ![c] = "profile"]
    /\ UNCHANGED <<clVars, exited, cacheVars, localVars, deviceVars, todo, runs>>

ReadProfile(c) ==
    /\ Running /\ pc[c] = "profile"
    /\ pc' = [pc EXCEPT ![c] = "leave"]
    /\ UNCHANGED <<clVars, exited, cacheVars, localVars, deviceVars, todo, runs>>

Return(c) ==
    /\ Running /\ pc[c] = "leave"
    /\ pc' = [pc EXCEPT ![c] = "returned"]
    /\ UNCHANGED <<clVars, exited, cacheVars, localVars, deviceVars, todo, runs>>

(* The process ended, or the application makes no further call.             *)
Terminated ==
    /\ ~Running \/ (pending = {} /\ NoneActive)
    /\ UNCHANGED vars

-----------------------------------------------------------------------------
LifeCycle == HeteroInit \/ HeteroInitFails \/ HeteroCleanup

Enter(c) == \E f \in Functions, n \in NumIters, h \in Hints :
                \E t \in CallersOf[f] : Offload(c, t, f, n, h)

HostStep(c) ==
    \/ \E i \in Indices : LoopIteration(c, i)
    \/ LoopEnd(c)
    \/ ReadFunction(c) \/ ReadFunctionOfNull(c) \/ ReadProgram(c)
    \/ CompileProgram(c) \/ CreateKernel(c) \/ CreateKernelFails(c)
    \/ SetContext(c) \/ SetGContext(c)
    \/ \E upper \in 0 .. MaxUpper : Enqueue(c, upper)
    \/ EnqueueFails(c)
    \/ CallFinish(c) \/ FinishFails(c) \/ FinishReturns(c)
    \/ ReadProfile(c) \/ Return(c)

GpuStep(c) == (\E i \in Indices : GpuWorkItem(c, i)) \/ GpuComplete(c)

Next ==
    \/ LifeCycle
    \/ \E c \in Calls : Enter(c) \/ HostStep(c) \/ GpuStep(c)
    \/ Terminated

Spec == Init /\ [][Next]_vars

(* A thread inside offload_ is scheduled by the operating system, and the   *)
(* device makes progress on a command it has started.  Nothing obliges the  *)
(* application to make a call.                                              *)
Fairness == \A c \in Calls : WF_vars(HostStep(c)) /\ WF_vars(GpuStep(c))

FairSpec == Spec /\ Fairness

-----------------------------------------------------------------------------
(* Properties.                                                              *)

PCs == {"idle", "loop", "readFunction", "readProgram", "compile", "createKernel",
        "setContext", "setGContext", "enqueue", "callFinish", "waitFinish",
        "profile", "leave", "returned"}

(* Every variable keeps its type; no command or loop reaches an iteration   *)
(* outside Indices.                                                         *)
TypeOK ==
    /\ gpu \in 0 .. inits /\ inits \in 0 .. MaxInits /\ envHint \in EnvHints \cup {0}
    /\ exited \in {"no", "init", "enqueue", "null"}
    /\ programBinary \in Calls \cup {NoCall}
    /\ functionBinary \in [Functions -> Calls \cup {NoCall}]
    /\ pc \in [Calls -> PCs]
    /\ call \in [Calls -> [thread : Threads, fn : Functions, iters : NumIters \cup {0},
                           via : Hints \cup EnvHints \cup {-1, 0}]]
    /\ programOf \in [Calls -> Calls \cup {NoCall}]
    /\ kernelOf \in [Calls -> Calls \cup {NoCall}]
    /\ program \in [Calls -> 0 .. inits]
    /\ kernel \in [Calls -> [epoch : 0 .. inits, context : Calls \cup {NoCall},
                             gContext : Calls \cup {NoCall}]]
    /\ command \in [Calls -> [context : Calls \cup {NoCall}, gContext : Calls \cup {NoCall},
                              ahead : SUBSET Calls]]
    /\ pending \subseteq Calls
    /\ awaited \in [Calls -> SUBSET Calls]
    /\ event \in Calls \cup {NoCall}
    /\ todo \in [Calls -> SUBSET Indices]
    /\ runs \in [Calls -> [Indices -> Nat]]

InRange(c, i) == i < call[c].iters
RanOnce(c)    == \A i \in Indices : runs[c][i] = IF InRange(c, i) THEN 1 ELSE 0
RanNothing(c) == \A i \in Indices : runs[c][i] = 0

(* offload_ either executes every iteration of the loop exactly once or, on *)
(* a failure it swallows, none: a caller never continues on a loop that ran *)
(* in part, twice, out of range or with another call's body.                *)
AllOrNothing == \A c \in Calls : pc[c] = "returned" => RanOnce(c) \/ RanNothing(c)

(* Once offload_ has returned, its loop body is executed no more: the       *)
(* caller may free the body and read the results (clFinish in               *)
(* try_gpu_apply_f).                                                        *)
QuietAfterReturn == [][\A c \in Calls : pc[c] = "returned" => runs'[c] = runs[c]]_vars

(* Every command runs the body of the call that enqueued it, both halves    *)
(* (argument slots 2 and 3 of the shared cl_kernel).                        *)
ArgumentsOwn == \A c \in Calls : Submitted(c) =>
                    command[c].context = c /\ command[c].gContext = c

(* A process that initialised the runtime once and has not shut it down is  *)
(* never killed by clEnqueueNDRangeKernel: a call made before hetero_init   *)
(* leaves nothing in the binary caches (hetero.c:449-465, 482-492) that a   *)
(* later call would hand to the wrong context.                              *)
ExitOnlyAfterReinit ==
    exited = "enqueue" => MayFail("enqueue") \/ inits > 1 \/ gpu = 0

(* The kernel of a loop is never replaced or lost: where each loop belongs  *)
(* to one thread, the cache of kernels needs none of the locks the TODOs at *)
(* hetero.c:453 and 485 ask for.                                            *)
CacheIsStable == [][\A f \in Functions : functionBinary[f] # NoCall =>
                        functionBinary'[f] = functionBinary[f]]_vars

(* Every offload_ returns, unless the process ends.                         *)
CallsReturn == \A c \in Calls : Active(c) ~> (pc[c] = "returned" \/ ~Running)

(* offload_ implements the loop the programmer wrote, whichever of the      *)
(* schedulers executes it.                                                  *)
Loop == INSTANCE ParallelForHetero WITH
            Trips  <- NumIters,
            status <- [c \in Calls |-> IF Active(c) THEN "running" ELSE pc[c]],
            trip   <- [c \in Calls |-> call[c].iters],
            alive  <- Running

ImplementsLoop == Loop!LoopSpec

-----------------------------------------------------------------------------
(* Why ArgumentsOwn and QuietAfterReturn hold when no loop is offloaded by  *)
(* two threads.                                                             *)

Exclusive == \A f \in Functions : \A t, u \in CallersOf[f] : t = u

(* A thread is in one offload_ at a time, of a loop it may reach.           *)
OneCallPerThread == \A c, d \in Calls :
    Active(c) /\ Active(d) /\ call[c].thread = call[d].thread => c = d
OnOwnThread == \A c \in Calls : pc[c] # "idle" => call[c].thread \in CallersOf[call[c].fn]

(* The cached kernel of a loop, and the kernel a call holds, were created   *)
(* by a call of the same loop.                                              *)
CacheOwn == \A f \in Functions : functionBinary[f] # NoCall =>
    pc[functionBinary[f]] # "idle" /\ call[functionBinary[f]].fn = f
KernelOwn == \A c \in Calls : kernelOf[c] # NoCall =>
    pc[c] # "idle" /\ pc[kernelOf[c]] # "idle" /\ call[kernelOf[c]].fn = call[c].fn

(* Between clSetKernelArg and clEnqueueNDRangeKernel the slots keep their   *)
(* values, and the call holds a kernel.                                     *)
KernelKnown == \A c \in Calls :
    pc[c] \in {"setContext", "setGContext", "enqueue"} => kernelOf[c] \in Calls
SlotsOwn == \A c \in Calls :
    /\ pc[c] \in {"setGContext", "enqueue"} => kernel[kernelOf[c]].context = c
    /\ pc[c] = "enqueue" => kernel[kernelOf[c]].gContext = c

(* A command that is not complete belongs to a call on its way to clFinish  *)
(* or waiting there for that command.                                       *)
PendingAwaited == \A c \in pending :
    /\ gpu # 0 /\ Submitted(c)
    /\ pc[c] \in {"callFinish", "waitFinish"}
    /\ pc[c] = "waitFinish" => c \in awaited[c]

(* The inductive invariant: the kernel object of a loop is set up and used  *)
(* by one call at a time (hetero.c:271-330), and clFinish covers the call's *)
(* own command (hetero.c:509-540).                                          *)
KernelInv ==
    /\ OneCallPerThread /\ OnOwnThread
    /\ CacheOwn /\ KernelOwn /\ KernelKnown /\ SlotsOwn
    /\ ArgumentsOwn
ExclusiveInv == KernelInv /\ PendingAwaited
=============================================================================
