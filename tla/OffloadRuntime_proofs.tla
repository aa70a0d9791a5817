------------------------ MODULE OffloadRuntime_proofs ------------------------
(* Theorems about OffloadRuntime, for every number of threads, loops and    *)
(* calls, every trip count, every hint and every set of faults.             *)
EXTENDS OffloadRuntime, TLAPS

-----------------------------------------------------------------------------
(* The type invariant.                                                      *)

(* The indices of a command stay below the largest global size.             *)
LEMMA GlobalSizeBound ==
    ASSUME NEW n \in Int, NEW upper \in 0 .. MaxUpper
    PROVE  0 .. GlobalSize(n, upper) - 1 \subseteq Indices
<1>1. Word \in Nat /\ Word > 0 /\ MaxUpper \in Nat
  BY RuntimeAssumption
<1>2. n % Word \in 0 .. Word - 1
  BY <1>1
<1>3. upper \in Nat /\ upper <= MaxUpper
  BY <1>1
<1>4. upper * Word <= MaxUpper * Word /\ upper * Word \in Nat /\ MaxUpper * Word \in Nat
  BY <1>1, <1>3, Z3
<1>5. (MaxUpper + 1) * Word = MaxUpper * Word + Word
  BY <1>1, Z3
<1> QED
  BY <1>1, <1>2, <1>4, <1>5 DEF GlobalSize, Indices

(* TypeOK is not inductive by itself: clSetKernelArg and the enqueue use    *)
(* kernelOf[c], so a call there must hold a kernel object.                  *)
TypeInv == TypeOK /\ KernelKnown

KernelType == [epoch : 0 .. inits, context : Calls \cup {NoCall}, gContext : Calls \cup {NoCall}]

(* The initial states are well typed.                                       *)
LEMMA TypeInit == Init => TypeInv
<1> SUFFICES ASSUME Init PROVE TypeInv
  OBVIOUS
<1>1. MaxInits \in Nat /\ 0 \in 0 .. MaxInits /\ 0 \in 0 .. 0
  BY RuntimeAssumption
<1>2. NoArguments \in [thread : Threads, fn : Functions, iters : NumIters \cup {0},
                       via : Hints \cup EnvHints \cup {-1, 0}]
  BY RuntimeAssumption DEF NoArguments
<1>3. NoKernel \in [epoch : 0 .. 0, context : Calls \cup {NoCall}, gContext : Calls \cup {NoCall}]
  BY <1>1 DEF NoKernel
<1>4. NoCommand \in [context : Calls \cup {NoCall}, gContext : Calls \cup {NoCall},
                     ahead : SUBSET Calls]
  BY DEF NoCommand
<1>5. [i \in Indices |-> 0] \in [Indices -> Nat]
  OBVIOUS
<1>6. [c \in Calls |-> "idle"] \in [Calls -> PCs]
  BY DEF PCs
<1>7. KernelKnown
  BY DEF Init, KernelKnown
<1> QED
  BY <1>1, <1>2, <1>3, <1>4, <1>5, <1>6, <1>7 DEF Init, TypeOK, TypeInv

(* Every step keeps the types.                                              *)
LEMMA TypeStep == TypeInv /\ [Next]_vars => TypeOK'
<1> SUFFICES ASSUME TypeOK, KernelKnown, [Next]_vars PROVE TypeOK'
  BY DEF TypeInv
<1> USE DEF clVars, cacheVars, localVars, deviceVars
<1>1. CASE HeteroInit
  <2>1. inits \in Nat /\ MaxInits \in Nat /\ inits < MaxInits
    BY <1>1, RuntimeAssumption DEF HeteroInit, TypeOK
  <2>2. inits' = inits + 1 /\ 0 .. inits \subseteq 0 .. inits' /\ inits' \in 0 .. inits'
    BY <1>1, <2>1 DEF HeteroInit
  <2>3. inits' \in 0 .. MaxInits
    BY <2>1, <2>2
  <2>4. envHint' \in EnvHints \cup {0}
    BY <1>1 DEF HeteroInit, TypeOK
  <2> QED
    BY <1>1, <2>2, <2>3, <2>4 DEF HeteroInit, TypeOK
<1>2. CASE HeteroInitFails
  BY <1>2 DEF HeteroInitFails, TypeOK
<1>3. CASE HeteroCleanup
  BY <1>3, 0 \in 0 .. inits DEF HeteroCleanup, TypeOK
<1>4. ASSUME NEW c \in Calls, Enter(c) PROVE TypeOK'
  <2>1. PICK f \in Functions, n \in NumIters, h \in Hints :
            \E t \in CallersOf[f] : Offload(c, t, f, n, h)
    BY <1>4 DEF Enter
  <2>2. PICK t \in CallersOf[f] : Offload(c, t, f, n, h)
    BY <2>1
  <2>3. t \in Threads
    BY <2>2, RuntimeAssumption
  <2> DEFINE via == IF n = 0 THEN -1 ELSE Scheduler(h)
             cpu == via \in {SINGLE_CORE_CPU, MULTI_CORE_CPU_TBB}
  <2>4. via \in Hints \cup EnvHints \cup {-1, 0}
    BY DEF Scheduler, TypeOK
  <2>5. pc' = [pc EXCEPT ![c] = IF via = GPU THEN "readFunction"
                                ELSE IF cpu THEN "loop" ELSE "leave"]
    BY <2>2 DEF Offload
  <2>6. pc' \in [Calls -> PCs]
    BY <2>5 DEF PCs, TypeOK
  <2>7. call' = [call EXCEPT ![c] = [thread |-> t, fn |-> f, iters |-> n, via |-> via]]
    BY <2>2 DEF Offload
  <2>8. call' \in [Calls -> [thread : Threads, fn : Functions, iters : NumIters \cup {0},
                             via : Hints \cup EnvHints \cup {-1, 0}]]
    <3> HIDE DEF via
    <3> QED
      BY <2>3, <2>4, <2>7 DEF TypeOK
  <2>9. todo' \in [Calls -> SUBSET Indices]
    BY <2>2 DEF Offload, TypeOK
  <2> QED
    BY <2>2, <2>6, <2>8, <2>9 DEF Offload, TypeOK
<1>5. ASSUME NEW c \in Calls, HostStep(c) PROVE TypeOK'
  <2>1. ASSUME NEW i \in Indices, LoopIteration(c, i) PROVE TypeOK'
    BY <2>1 DEF LoopIteration, TypeOK
  <2>2. CASE LoopEnd(c)
    BY <2>2 DEF LoopEnd, TypeOK, PCs
  <2>3. CASE ReadFunction(c)
    BY <2>3 DEF ReadFunction, TypeOK, PCs
  <2>4. CASE ReadFunctionOfNull(c)
    BY <2>4 DEF ReadFunctionOfNull, TypeOK
  <2>5. CASE ReadProgram(c)
    BY <2>5 DEF ReadProgram, TypeOK, PCs
  <2>6. CASE CompileProgram(c)
    <3>1. program' \in [Calls -> 0 .. inits]
      BY <2>6 DEF CompileProgram, TypeOK
    <3>2. programBinary' \in Calls \cup {NoCall}
      BY <2>6 DEF CompileProgram, TypeOK
    <3>3. programOf' \in [Calls -> Calls \cup {NoCall}]
      BY <2>6, <3>2 DEF CompileProgram, TypeOK
    <3>4. pc' \in [Calls -> PCs]
      BY <2>6 DEF CompileProgram, TypeOK, PCs
    <3> QED
      BY <2>6, <3>1, <3>2, <3>3, <3>4 DEF CompileProgram, TypeOK
  <2>7. CASE CreateKernel(c)
    <3>1. programOf[c] \in Calls /\ program[programOf[c]] \in 0 .. inits
      BY <2>7 DEF CreateKernel, TypeOK
    <3>2. kernel' = [kernel EXCEPT ![c] = [kernel[c] EXCEPT !.epoch = program[programOf[c]]]]
      BY <2>7 DEF CreateKernel
    <3>3. kernel' \in [Calls -> KernelType]
      <4>1. kernel \in [Calls -> KernelType]
        BY DEF TypeOK, KernelType
      <4>2. [kernel[c] EXCEPT !.epoch = program[programOf[c]]] \in KernelType
        BY <3>1, <4>1 DEF KernelType
      <4> QED
        BY <3>2, <4>1, <4>2
    <3>4. functionBinary' \in [Functions -> Calls \cup {NoCall}]
      BY <2>7 DEF CreateKernel, TypeOK
    <3>5. pc' \in [Calls -> PCs] /\ kernelOf' \in [Calls -> Calls \cup {NoCall}]
      BY <2>7 DEF CreateKernel, TypeOK, PCs
    <3> QED
      BY <2>7, <3>3, <3>4, <3>5 DEF CreateKernel, TypeOK, KernelType
  <2>8. CASE CreateKernelFails(c)
    <3>1. functionBinary' \in [Functions -> Calls \cup {NoCall}]
      BY <2>8 DEF CreateKernelFails, TypeOK
    <3> QED
      BY <2>8, <3>1 DEF CreateKernelFails, TypeOK, PCs
  <2>9. CASE SetContext(c)
    <3> DEFINE k == kernelOf[c]
    <3>1. k \in Calls
      BY <2>9 DEF SetContext, KernelKnown
    <3>2. kernel' = [kernel EXCEPT ![k] = [kernel[k] EXCEPT !.context = c]]
      BY <2>9 DEF SetContext
    <3>3. kernel' \in [Calls -> KernelType]
      <4>1. kernel \in [Calls -> KernelType]
        BY DEF TypeOK, KernelType
      <4>2. [kernel[k] EXCEPT !.context = c] \in KernelType
        BY <3>1, <4>1 DEF KernelType
      <4> QED
        BY <3>1, <3>2, <4>1, <4>2
    <3>4. pc' \in [Calls -> PCs]
      BY <2>9 DEF SetContext, TypeOK, PCs
    <3> QED
      BY <2>9, <3>3, <3>4 DEF SetContext, TypeOK, KernelType
  <2>10. CASE SetGContext(c)
    <3> DEFINE k == kernelOf[c]
    <3>1. k \in Calls
      BY <2>10 DEF SetGContext, KernelKnown
    <3>2. kernel' = [kernel EXCEPT ![k] = [kernel[k] EXCEPT !.gContext = c]]
      BY <2>10 DEF SetGContext
    <3>3. kernel' \in [Calls -> KernelType]
      <4>1. kernel \in [Calls -> KernelType]
        BY DEF TypeOK, KernelType
      <4>2. [kernel[k] EXCEPT !.gContext = c] \in KernelType
        BY <3>1, <4>1 DEF KernelType
      <4> QED
        BY <3>1, <3>2, <4>1, <4>2
    <3>4. pc' \in [Calls -> PCs]
      BY <2>10 DEF SetGContext, TypeOK, PCs
    <3> QED
      BY <2>10, <3>3, <3>4 DEF SetGContext, TypeOK, KernelType
  <2>11. ASSUME NEW upper \in 0 .. MaxUpper, Enqueue(c, upper) PROVE TypeOK'
    <3>1. kernelOf[c] \in Calls
      BY <2>11 DEF Enqueue, KernelKnown
    <3>2. kernel[kernelOf[c]].context \in Calls \cup {NoCall}
          /\ kernel[kernelOf[c]].gContext \in Calls \cup {NoCall}
      BY <3>1 DEF TypeOK
    <3>3. command' \in [Calls -> [context : Calls \cup {NoCall}, gContext : Calls \cup {NoCall},
                                  ahead : SUBSET Calls]]
      BY <2>11, <3>2 DEF Enqueue, TypeOK
    <3>4. call[c].iters \in Int
      <4>1. call[c].iters \in NumIters \cup {0}
        BY DEF TypeOK
      <4>2. NumIters \subseteq Int
        BY RuntimeAssumption
      <4> QED
        BY <4>1, <4>2, 0 \in Int, Zenon
    <3>5. todo' \in [Calls -> SUBSET Indices]
      BY <2>11, <3>4, GlobalSizeBound DEF Enqueue, TypeOK
    <3>6. pc' \in [Calls -> PCs]
      BY <2>11 DEF Enqueue, TypeOK, PCs
    <3> QED
      BY <2>11, <3>3, <3>5, <3>6 DEF Enqueue, TypeOK
  <2>12. CASE EnqueueFails(c)
    BY <2>12 DEF EnqueueFails, TypeOK
  <2>13. CASE CallFinish(c)
    BY <2>13 DEF CallFinish, TypeOK, PCs
  <2>14. CASE FinishFails(c)
    BY <2>14 DEF FinishFails, TypeOK, PCs
  <2>15. CASE FinishReturns(c)
    BY <2>15 DEF FinishReturns, TypeOK, PCs
  <2>16. CASE ReadProfile(c)
    BY <2>16 DEF ReadProfile, TypeOK, PCs
  <2>17. CASE Return(c)
    BY <2>17 DEF Return, TypeOK, PCs
  <2> QED
    BY <1>5, <2>1, <2>2, <2>3, <2>4, <2>5, <2>6, <2>7, <2>8, <2>9, <2>10, <2>11,
       <2>12, <2>13, <2>14, <2>15, <2>16, <2>17 DEF HostStep
<1>6. ASSUME NEW c \in Calls, GpuStep(c) PROVE TypeOK'
  <2>1. ASSUME NEW i \in Indices, GpuWorkItem(c, i) PROVE TypeOK'
    <3>1. runs' \in [Calls -> [Indices -> Nat]]
      <4> DEFINE d == command[c].context
      <4>1. runs' = [runs EXCEPT ![d] = [runs[d] EXCEPT ![i] = runs[d][i] + 1]]
        BY <2>1 DEF GpuWorkItem
      <4>2. CASE d \in Calls
        BY <4>1, <4>2 DEF TypeOK
      <4>3. CASE d \notin Calls
        BY <4>1, <4>3 DEF TypeOK
      <4> QED
        BY <4>2, <4>3
    <3> QED
      BY <2>1, <3>1 DEF GpuWorkItem, TypeOK
  <2>2. CASE GpuComplete(c)
    BY <2>2 DEF GpuComplete, TypeOK
  <2> QED
    BY <1>6, <2>1, <2>2 DEF GpuStep
<1>7. CASE UNCHANGED vars
  BY <1>7 DEF vars, TypeOK
<1> QED
  BY <1>1, <1>2, <1>3, <1>4, <1>5, <1>6, <1>7 DEF Next, LifeCycle, Terminated

(* Every step keeps KernelKnown.                                            *)
LEMMA KernelKnownStep == TypeInv /\ [Next]_vars => KernelKnown'
<1> SUFFICES ASSUME TypeOK, KernelKnown, [Next]_vars, NEW c \in Calls,
                    pc'[c] \in {"setContext", "setGContext", "enqueue"}
             PROVE  kernelOf'[c] \in Calls
  BY DEF TypeInv, KernelKnown
<1> USE DEF clVars, cacheVars, localVars, deviceVars
<1>1. CASE LifeCycle \/ UNCHANGED vars
  BY <1>1 DEF LifeCycle, HeteroInit, HeteroInitFails, HeteroCleanup, vars, KernelKnown
<1>2. ASSUME NEW d \in Calls, Enter(d) PROVE kernelOf'[c] \in Calls
  BY <1>2 DEF Enter, Offload, KernelKnown, TypeOK
<1>3. ASSUME NEW d \in Calls, GpuStep(d) PROVE kernelOf'[c] \in Calls
  BY <1>3 DEF GpuStep, GpuWorkItem, GpuComplete, KernelKnown
<1>4. ASSUME NEW d \in Calls, HostStep(d) PROVE kernelOf'[c] \in Calls
  <2>1. CASE LoopEnd(d) \/ \E i \in Indices : LoopIteration(d, i)
    BY <2>1 DEF LoopEnd, LoopIteration, KernelKnown, TypeOK
  <2>2. CASE ReadFunction(d) \/ ReadFunctionOfNull(d) \/ ReadProgram(d)
    BY <2>2 DEF ReadFunction, ReadFunctionOfNull, ReadProgram, KernelKnown, TypeOK
  <2>3. CASE CompileProgram(d) \/ CreateKernel(d) \/ CreateKernelFails(d)
    BY <2>3 DEF CompileProgram, CreateKernel, CreateKernelFails, KernelKnown, TypeOK
  <2>4. CASE SetContext(d) \/ SetGContext(d) \/ EnqueueFails(d)
             \/ \E upper \in 0 .. MaxUpper : Enqueue(d, upper)
    BY <2>4 DEF SetContext, SetGContext, EnqueueFails, Enqueue, KernelKnown, TypeOK
  <2>5. CASE CallFinish(d) \/ FinishFails(d) \/ FinishReturns(d) \/ ReadProfile(d) \/ Return(d)
    BY <2>5 DEF CallFinish, FinishFails, FinishReturns, ReadProfile, Return, KernelKnown, TypeOK
  <2> QED
    BY <1>4, <2>1, <2>2, <2>3, <2>4, <2>5 DEF HostStep
<1> QED
  BY <1>1, <1>2, <1>3, <1>4 DEF Next, Terminated

(* Every variable keeps its type, and no loop or command ever has an        *)
(* iteration outside Indices, whatever the numbers of threads, loops and    *)
(* calls (offload_ in win_wrapper.c and hetero.c).                          *)
THEOREM TypeCorrect == Spec => []TypeOK
<1>1. TypeInv /\ [Next]_vars => TypeInv'
  BY TypeStep, KernelKnownStep DEF TypeInv
<1>2. TypeInv => TypeOK
  BY DEF TypeInv
<1> QED
  BY TypeInit, <1>1, <1>2, PTL DEF Spec

-----------------------------------------------------------------------------
(* Loops that are not shared between threads.                               *)

(* Only offload_ itself makes a call active; no other step touches its      *)
(* thread and loop, and none makes it idle again.                           *)
LEMMA OtherSteps ==
    ASSUME TypeOK,
           LifeCycle \/ UNCHANGED vars \/ \E d \in Calls : HostStep(d) \/ GpuStep(d)
    PROVE  /\ call' = call
           /\ \A c \in Calls : /\ pc'[c] = "idle" <=> pc[c] = "idle"
                               /\ Active(c)' => Active(c)
<1> USE DEF clVars, cacheVars, localVars, deviceVars
<1>1. CASE LifeCycle \/ UNCHANGED vars
  BY <1>1 DEF LifeCycle, HeteroInit, HeteroInitFails, HeteroCleanup, vars, Active
<1>2. ASSUME NEW d \in Calls, GpuStep(d)
      PROVE  call' = call /\ pc' = pc
  BY <1>2 DEF GpuStep, GpuWorkItem, GpuComplete
<1>3. ASSUME NEW d \in Calls, HostStep(d)
      PROVE  /\ call' = call
             /\ pc[d] \notin {"idle", "returned"}
             /\ \E q \in PCs \ {"idle"} : pc' = [pc EXCEPT ![d] = q]
  <2>0. pc' = pc => pc' = [pc EXCEPT ![d] = pc[d]]
    BY DEF TypeOK
  <2>1. CASE LoopEnd(d) \/ \E i \in Indices : LoopIteration(d, i)
    BY <2>0, <2>1 DEF LoopEnd, LoopIteration, PCs
  <2>2. CASE ReadFunction(d) \/ ReadFunctionOfNull(d) \/ ReadProgram(d)
    BY <2>0, <2>2 DEF ReadFunction, ReadFunctionOfNull, ReadProgram, PCs
  <2>3. CASE CompileProgram(d) \/ CreateKernel(d) \/ CreateKernelFails(d)
    BY <2>3 DEF CompileProgram, CreateKernel, CreateKernelFails, PCs
  <2>4. CASE SetContext(d) \/ SetGContext(d) \/ EnqueueFails(d)
             \/ \E upper \in 0 .. MaxUpper : Enqueue(d, upper)
    BY <2>0, <2>4 DEF SetContext, SetGContext, EnqueueFails, Enqueue, PCs
  <2>5. CASE CallFinish(d) \/ FinishFails(d) \/ FinishReturns(d) \/ ReadProfile(d) \/ Return(d)
    BY <2>5 DEF CallFinish, FinishFails, FinishReturns, ReadProfile, Return, PCs
  <2> QED
    BY <1>3, <2>1, <2>2, <2>3, <2>4, <2>5 DEF HostStep
<1> QED
  BY <1>1, <1>2, <1>3 DEF Active, TypeOK

(* What offload_ itself does to the calls.                                  *)
LEMMA EnterStep ==
    ASSUME TypeOK, NEW c \in Calls, Enter(c)
    PROVE  \E f \in Functions, t \in Threads :
               /\ t \in CallersOf[f] /\ pc[c] = "idle"
               /\ \A d \in Calls : Active(d) => call[d].thread # t
               /\ call'[c].thread = t /\ call'[c].fn = f
               /\ \A d \in Calls \ {c} : call'[d] = call[d] /\ pc'[d] = pc[d]
               /\ pc'[c] \in {"readFunction", "loop", "leave"}
               /\ UNCHANGED <<clVars, exited, cacheVars, programOf, kernelOf, deviceVars, runs>>
<1>1. PICK f \in Functions, n \in NumIters, h \in Hints :
          \E t \in CallersOf[f] : Offload(c, t, f, n, h)
  BY DEF Enter
<1>2. PICK t \in CallersOf[f] : Offload(c, t, f, n, h)
  BY <1>1
<1>3. t \in Threads
  BY <1>2, RuntimeAssumption
<1> QED
  BY <1>2, <1>3 DEF Offload, TypeOK

(* A call that has begun stays begun, with its thread and loop.             *)
LEMMA Begun ==
    ASSUME TypeOK, [Next]_vars, NEW c \in Calls, pc[c] # "idle"
    PROVE  pc'[c] # "idle" /\ call'[c] = call[c]
<1>1. CASE \E d \in Calls : Enter(d)
  BY <1>1, EnterStep
<1>2. CASE ~ \E d \in Calls : Enter(d)
  BY <1>2, OtherSteps DEF Next, Terminated
<1> QED
  BY <1>1, <1>2

(* A thread that is inside offload_ does not enter it again.                *)
LEMMA OneCallStep ==
    ASSUME TypeOK, OneCallPerThread, OnOwnThread, [Next]_vars
    PROVE  OneCallPerThread' /\ OnOwnThread'
<1>1. ASSUME NEW e \in Calls, Enter(e)
      PROVE  OneCallPerThread' /\ OnOwnThread'
  BY <1>1, EnterStep DEF OneCallPerThread, OnOwnThread, Active
<1>2. CASE ~ \E d \in Calls : Enter(d)
  BY <1>2, OtherSteps DEF Next, Terminated, OneCallPerThread, OnOwnThread
<1> QED
  BY <1>1, <1>2

(* Which steps touch the cached kernels and the kernels calls hold.         *)
LEMMA KernelSteps ==
    ASSUME TypeOK, [Next]_vars
    PROVE  \/ UNCHANGED <<functionBinary, kernelOf>>
           \/ \E d \in Calls : ReadFunction(d) \/ CreateKernel(d) \/ CreateKernelFails(d)
<1> USE DEF clVars, cacheVars, localVars, deviceVars
<1>1. CASE LifeCycle \/ UNCHANGED vars
  BY <1>1 DEF LifeCycle, HeteroInit, HeteroInitFails, HeteroCleanup, vars
<1>2. ASSUME NEW d \in Calls, Enter(d) PROVE UNCHANGED <<functionBinary, kernelOf>>
  BY <1>2, EnterStep
<1>3. ASSUME NEW d \in Calls, GpuStep(d) PROVE UNCHANGED <<functionBinary, kernelOf>>
  BY <1>3 DEF GpuStep, GpuWorkItem, GpuComplete
<1>4. ASSUME NEW d \in Calls, HostStep(d)
      PROVE  \/ UNCHANGED <<functionBinary, kernelOf>>
             \/ ReadFunction(d) \/ CreateKernel(d) \/ CreateKernelFails(d)
  BY <1>4 DEF HostStep, LoopIteration, LoopEnd, ReadFunctionOfNull, ReadProgram, CompileProgram,
     SetContext, SetGContext, Enqueue, EnqueueFails, CallFinish, FinishFails, FinishReturns,
     ReadProfile, Return
<1> QED
  BY <1>1, <1>2, <1>3, <1>4 DEF Next, Terminated

(* A kernel enters the cache of its own loop only.                          *)
LEMMA CacheOwnStep ==
    ASSUME TypeOK, CacheOwn, [Next]_vars
    PROVE  CacheOwn'
<1> SUFFICES ASSUME NEW f \in Functions, functionBinary'[f] # NoCall
             PROVE  pc'[functionBinary'[f]] # "idle" /\ call'[functionBinary'[f]].fn = f
  BY DEF CacheOwn
<1>1. CASE functionBinary'[f] = functionBinary[f]
  BY <1>1, Begun DEF CacheOwn, TypeOK
<1>2. CASE functionBinary'[f] # functionBinary[f]
  <2>1. PICK d \in Calls : CreateKernel(d)
    BY <1>2, KernelSteps DEF ReadFunction, CreateKernelFails, cacheVars, TypeOK
  <2>2. functionBinary'[f] = d /\ call[d].fn = f /\ pc[d] # "idle"
    BY <1>2, <2>1 DEF CreateKernel, TypeOK
  <2> QED
    BY <2>2, Begun
<1> QED
  BY <1>1, <1>2

(* A call takes its kernel from the cache of its loop, or creates it.       *)
LEMMA KernelOwnStep ==
    ASSUME TypeOK, CacheOwn, KernelOwn, [Next]_vars
    PROVE  KernelOwn'
<1> SUFFICES ASSUME NEW c \in Calls, kernelOf'[c] # NoCall
             PROVE  /\ pc'[c] # "idle" /\ pc'[kernelOf'[c]] # "idle"
                    /\ call'[kernelOf'[c]].fn = call'[c].fn
  BY DEF KernelOwn
<1>1. CASE kernelOf'[c] = kernelOf[c]
  BY <1>1, Begun DEF KernelOwn, TypeOK
<1>2. CASE kernelOf'[c] # kernelOf[c]
  <2>1. PICK d \in Calls : ReadFunction(d) \/ CreateKernel(d)
    BY <1>2, KernelSteps DEF CreateKernelFails, localVars
  <2>2. pc[c] # "idle" /\ (kernelOf'[c] = functionBinary[call[c].fn] \/ kernelOf'[c] = c)
    BY <1>2, <2>1 DEF ReadFunction, CreateKernel, TypeOK
  <2>3. call[c].fn \in Functions
    BY DEF TypeOK
  <2>4. kernelOf'[c] \in Calls /\ pc[kernelOf'[c]] # "idle" /\ call[kernelOf'[c]].fn = call[c].fn
    BY <2>2, <2>3 DEF CacheOwn, TypeOK
  <2> QED
    BY <2>2, <2>4, Begun
<1> QED
  BY <1>1, <1>2

(* Under Exclusive, no two active calls hold the same kernel object.        *)
LEMMA OneKernelUser ==
    ASSUME Exclusive, TypeOK, OneCallPerThread, OnOwnThread, KernelOwn,
           NEW c \in Calls, NEW d \in Calls, Active(c), Active(d),
           kernelOf[c] \in Calls, kernelOf[c] = kernelOf[d]
    PROVE  c = d
<1>1. kernelOf[c] # NoCall
  BY RuntimeAssumption
<1>2. call[c].fn = call[d].fn /\ call[c].fn \in Functions
  BY <1>1 DEF KernelOwn, TypeOK
<1>3. call[c].thread = call[d].thread
  BY <1>2 DEF Exclusive, OnOwnThread, Active
<1> QED
  BY <1>3 DEF OneCallPerThread

(* Which steps touch the argument slots of kernel objects, and which bring  *)
(* a call to setGContext or enqueue.                                        *)
LEMMA SlotSteps ==
    ASSUME TypeOK, [Next]_vars
    PROVE  \/ \E d \in Calls : SetContext(d) \/ SetGContext(d)
           \/ \A c \in Calls :
                  /\ kernel'[c].context = kernel[c].context
                  /\ kernel'[c].gContext = kernel[c].gContext
                  /\ pc'[c] \in {"setGContext", "enqueue"} =>
                         pc'[c] = pc[c] /\ kernelOf'[c] = kernelOf[c]
<1> USE DEF clVars, cacheVars, localVars, deviceVars
<1>1. CASE LifeCycle \/ UNCHANGED vars
  BY <1>1 DEF LifeCycle, HeteroInit, HeteroInitFails, HeteroCleanup, vars
<1>2. CASE \E d \in Calls : Enter(d)
  BY <1>2, EnterStep
<1>3. CASE \E d \in Calls : GpuStep(d)
  BY <1>3 DEF GpuStep, GpuWorkItem, GpuComplete
<1>4. ASSUME NEW d \in Calls, HostStep(d), ~SetContext(d), ~SetGContext(d), NEW c \in Calls
      PROVE  /\ kernel'[c].context = kernel[c].context
             /\ kernel'[c].gContext = kernel[c].gContext
             /\ pc'[c] \in {"setGContext", "enqueue"} =>
                    pc'[c] = pc[c] /\ kernelOf'[c] = kernelOf[c]
  <2>1. CASE LoopEnd(d) \/ \E i \in Indices : LoopIteration(d, i)
    BY <2>1 DEF LoopEnd, LoopIteration, TypeOK
  <2>2. CASE ReadFunction(d) \/ ReadFunctionOfNull(d) \/ ReadProgram(d)
    BY <2>2 DEF ReadFunction, ReadFunctionOfNull, ReadProgram, TypeOK
  <2>3. CASE CompileProgram(d) \/ CreateKernelFails(d)
    BY <2>3 DEF CompileProgram, CreateKernelFails, TypeOK
  <2>4. CASE CreateKernel(d)
    <3>1. pc' = [pc EXCEPT ![d] = "setContext"] /\ kernelOf' = [kernelOf EXCEPT ![d] = d]
      BY <2>4 DEF CreateKernel
    <3>2. kernel' = [kernel EXCEPT ![d] = [kernel[d] EXCEPT !.epoch = program[programOf[d]]]]
      BY <2>4 DEF CreateKernel
    <3>3. kernel'[c].context = kernel[c].context /\ kernel'[c].gContext = kernel[c].gContext
      BY <3>2 DEF TypeOK
    <3> QED
      BY <3>1, <3>3 DEF TypeOK
  <2>5. CASE EnqueueFails(d) \/ \E upper \in 0 .. MaxUpper : Enqueue(d, upper)
    BY <2>5 DEF EnqueueFails, Enqueue, TypeOK
  <2>6. CASE CallFinish(d) \/ FinishFails(d) \/ FinishReturns(d) \/ ReadProfile(d) \/ Return(d)
    BY <2>6 DEF CallFinish, FinishFails, FinishReturns, ReadProfile, Return, TypeOK
  <2> QED
    BY <1>4, <2>1, <2>2, <2>3, <2>4, <2>5, <2>6 DEF HostStep
<1> QED
  BY <1>1, <1>2, <1>3, <1>4 DEF Next, Terminated

(* No other call writes the slots between clSetKernelArg and the enqueue.   *)
LEMMA SlotsOwnStep ==
    ASSUME Exclusive, TypeOK, OneCallPerThread, OnOwnThread, KernelOwn, KernelKnown, SlotsOwn,
           [Next]_vars
    PROVE  SlotsOwn'
<1> SUFFICES ASSUME NEW c \in Calls, pc'[c] \in {"setGContext", "enqueue"}
             PROVE  /\ kernel'[kernelOf'[c]].context = c
                    /\ pc'[c] = "enqueue" => kernel'[kernelOf'[c]].gContext = c
  BY DEF SlotsOwn
<1>1. ASSUME NEW d \in Calls, SetContext(d)
      PROVE  /\ kernel'[kernelOf'[c]].context = c
             /\ pc'[c] = "enqueue" => kernel'[kernelOf'[c]].gContext = c
  <2> DEFINE k == kernelOf[d]
  <2>1. k \in Calls /\ Active(d) /\ kernelOf' = kernelOf
    BY <1>1 DEF SetContext, KernelKnown, Active, localVars
  <2>2. kernel' = [kernel EXCEPT ![k] = [kernel[k] EXCEPT !.context = d]]
        /\ pc' = [pc EXCEPT ![d] = "setGContext"]
    BY <1>1 DEF SetContext
  <2>3. CASE c = d
    BY <2>1, <2>2, <2>3 DEF TypeOK
  <2>4. CASE c # d
    <3>1. pc[c] = pc'[c] /\ Active(c) /\ kernelOf[c] \in Calls
      BY <2>2, <2>4 DEF TypeOK, Active, KernelKnown
    <3>2. kernelOf[c] # k
      BY <2>1, <2>4, <3>1, OneKernelUser
    <3>3. kernel'[kernelOf[c]] = kernel[kernelOf[c]]
      BY <2>2, <3>1, <3>2 DEF TypeOK
    <3> QED
      BY <2>1, <3>1, <3>3 DEF SlotsOwn
  <2> QED
    BY <2>3, <2>4
<1>2. ASSUME NEW d \in Calls, SetGContext(d)
      PROVE  /\ kernel'[kernelOf'[c]].context = c
             /\ pc'[c] = "enqueue" => kernel'[kernelOf'[c]].gContext = c
  <2> DEFINE k == kernelOf[d]
  <2>1. k \in Calls /\ Active(d) /\ kernelOf' = kernelOf
    BY <1>2 DEF SetGContext, KernelKnown, Active, localVars
  <2>2. kernel' = [kernel EXCEPT ![k] = [kernel[k] EXCEPT !.gContext = d]]
        /\ pc' = [pc EXCEPT ![d] = "enqueue"]
    BY <1>2 DEF SetGContext
  <2>3. CASE c = d
    <3>1. kernel[k].context = d
      BY <1>2 DEF SetGContext, SlotsOwn
    <3> QED
      BY <2>1, <2>2, <2>3, <3>1 DEF TypeOK
  <2>4. CASE c # d
    <3>1. pc[c] = pc'[c] /\ Active(c) /\ kernelOf[c] \in Calls
      BY <2>2, <2>4 DEF TypeOK, Active, KernelKnown
    <3>2. kernelOf[c] # k
      BY <2>1, <2>4, <3>1, OneKernelUser
    <3>3. kernel'[kernelOf[c]] = kernel[kernelOf[c]]
      BY <2>2, <3>1, <3>2 DEF TypeOK
    <3> QED
      BY <2>1, <3>1, <3>3 DEF SlotsOwn
  <2> QED
    BY <2>3, <2>4
<1>3. CASE ~ \E d \in Calls : SetContext(d) \/ SetGContext(d)
  <2>1. pc'[c] = pc[c] /\ kernelOf'[c] = kernelOf[c]
    BY <1>3, SlotSteps
  <2>2. kernelOf[c] \in Calls
    BY <2>1 DEF KernelKnown
  <2>3. /\ kernel'[kernelOf[c]].context = kernel[kernelOf[c]].context
        /\ kernel'[kernelOf[c]].gContext = kernel[kernelOf[c]].gContext
    BY <1>3, <2>2, SlotSteps
  <2> QED
    BY <2>1, <2>3 DEF SlotsOwn
<1> QED
  BY <1>1, <1>2, <1>3

(* Only Enqueue touches a command.                                          *)
LEMMA CommandSteps ==
    ASSUME TypeOK, [Next]_vars
    PROVE  command' = command \/ \E d \in Calls, upper \in 0 .. MaxUpper : Enqueue(d, upper)
<1> USE DEF clVars, cacheVars, localVars, deviceVars
<1>1. CASE LifeCycle \/ UNCHANGED vars
  BY <1>1 DEF LifeCycle, HeteroInit, HeteroInitFails, HeteroCleanup, vars
<1>2. CASE \E d \in Calls : Enter(d)
  BY <1>2, EnterStep
<1>3. CASE \E d \in Calls : GpuStep(d)
  BY <1>3 DEF GpuStep, GpuWorkItem, GpuComplete
<1>4. ASSUME NEW d \in Calls, HostStep(d)
      PROVE  command' = command \/ \E upper \in 0 .. MaxUpper : Enqueue(d, upper)
  BY <1>4 DEF HostStep, LoopIteration, LoopEnd, ReadFunction, ReadFunctionOfNull, ReadProgram,
     CompileProgram, CreateKernel, CreateKernelFails, SetContext, SetGContext, EnqueueFails,
     CallFinish, FinishFails, FinishReturns, ReadProfile, Return
<1> QED
  BY <1>1, <1>2, <1>3, <1>4 DEF Next, Terminated

(* The command captures what the call put into the slots.                   *)
LEMMA EnqueueOwn ==
    ASSUME TypeOK, SlotsOwn, NEW d \in Calls, NEW upper \in 0 .. MaxUpper, Enqueue(d, upper)
    PROVE  /\ command'[d].context = d /\ command'[d].gContext = d
           /\ \A c \in Calls \ {d} : command'[c] = command[c]
<1>1. kernel[kernelOf[d]].context = d /\ kernel[kernelOf[d]].gContext = d
  BY DEF Enqueue, SlotsOwn
<1> QED
  BY <1>1 DEF Enqueue, TypeOK

(* Commands keep the body of their own call.                                *)
LEMMA ArgumentsOwnStep ==
    ASSUME TypeOK, SlotsOwn, ArgumentsOwn, [Next]_vars
    PROVE  ArgumentsOwn'
<1>1. CASE command' = command
  BY <1>1 DEF ArgumentsOwn, Submitted
<1>2. ASSUME NEW d \in Calls, NEW upper \in 0 .. MaxUpper, Enqueue(d, upper)
      PROVE  ArgumentsOwn'
  BY <1>2, EnqueueOwn DEF ArgumentsOwn, Submitted
<1> QED
  BY <1>1, <1>2, CommandSteps

(* A command stays covered by its call's clFinish until it is complete.     *)
LEMMA PendingAwaitedStep ==
    ASSUME "finish" \notin Faults, TypeOK, KernelKnown, SlotsOwn, PendingAwaited, [Next]_vars
    PROVE  PendingAwaited'
<1> SUFFICES ASSUME NEW c \in Calls, c \in pending'
             PROVE  /\ gpu' # 0 /\ Submitted(c)'
                    /\ pc'[c] \in {"callFinish", "waitFinish"}
                    /\ pc'[c] = "waitFinish" => c \in awaited'[c]
  <2>1. pending' \subseteq Calls
    BY TypeStep DEF TypeInv, TypeOK
  <2> QED
    BY <2>1 DEF PendingAwaited
<1> USE DEF clVars, cacheVars, localVars, deviceVars
<1> DEFINE Goal == /\ gpu' # 0 /\ Submitted(c)'
                   /\ pc'[c] \in {"callFinish", "waitFinish"}
                   /\ pc'[c] = "waitFinish" => c \in awaited'[c]
<1>1. ASSUME NEW d \in Calls, NEW upper \in 0 .. MaxUpper, Enqueue(d, upper)
      PROVE  Goal
  <2>1. gpu' # 0 /\ awaited' = awaited /\ pending' = pending \cup {d}
        /\ pc' = [pc EXCEPT ![d] = "callFinish"]
    BY <1>1 DEF Enqueue
  <2>2. CASE c = d
    <3>1. Submitted(c)'
      BY <1>1, <2>2, EnqueueOwn, RuntimeAssumption DEF Submitted
    <3> QED
      BY <2>1, <2>2, <3>1 DEF TypeOK
  <2>3. CASE c # d
    <3>1. Submitted(c)'
      BY <1>1, <2>1, <2>3, EnqueueOwn DEF Submitted, PendingAwaited
    <3> QED
      BY <2>1, <2>3, <3>1 DEF TypeOK, PendingAwaited
  <2> QED
    BY <2>2, <2>3
<1>2. ASSUME ~ \E d \in Calls, upper \in 0 .. MaxUpper : Enqueue(d, upper)
      PROVE  c \in pending /\ Submitted(c)'
  <2>1. command' = command
    BY <1>2, CommandSteps
  <2>2. pending' \subseteq pending
    <3>1. CASE LifeCycle \/ UNCHANGED vars
      BY <3>1 DEF LifeCycle, HeteroInit, HeteroInitFails, HeteroCleanup, vars
    <3>2. CASE \E d \in Calls : Enter(d)
      BY <3>2, EnterStep
    <3>3. CASE \E d \in Calls : GpuStep(d)
      BY <3>3 DEF GpuStep, GpuWorkItem, GpuComplete
    <3>4. ASSUME NEW d \in Calls, HostStep(d) PROVE pending' = pending
      BY <1>2, <3>4 DEF HostStep, LoopIteration, LoopEnd, ReadFunction, ReadFunctionOfNull,
         ReadProgram, CompileProgram, CreateKernel, CreateKernelFails, SetContext, SetGContext,
         EnqueueFails, CallFinish, FinishFails, FinishReturns, ReadProfile, Return
    <3> QED
      BY <3>1, <3>2, <3>3, <3>4 DEF Next, Terminated
  <2> QED
    BY <2>1, <2>2 DEF PendingAwaited, Submitted
<1>3. ASSUME NEW d \in Calls, CallFinish(d) PROVE Goal
  <2>1. c \in pending /\ Submitted(c)'
    BY <1>3 DEF CallFinish, PendingAwaited, Submitted
  <2> QED
    BY <1>3, <2>1 DEF CallFinish, PendingAwaited, TypeOK
<1>4. ASSUME NEW d \in Calls, FinishReturns(d) PROVE Goal
  <2>1. c \in pending /\ Submitted(c)' /\ awaited' = awaited /\ gpu' = gpu
    BY <1>4 DEF FinishReturns, PendingAwaited, Submitted
  <2>2. c # d
    BY <1>4, <2>1 DEF FinishReturns, PendingAwaited
  <2> QED
    BY <1>4, <2>1, <2>2 DEF FinishReturns, PendingAwaited, TypeOK
<1>5. ASSUME ~ \E d \in Calls, upper \in 0 .. MaxUpper : Enqueue(d, upper),
             ~ \E d \in Calls : CallFinish(d) \/ FinishReturns(d)
      PROVE  gpu' # 0 /\ pc'[c] = pc[c] /\ awaited' = awaited
  <2>0. c \in pending /\ gpu # 0 /\ pc[c] \in {"callFinish", "waitFinish"}
    BY <1>2, <1>5 DEF PendingAwaited
  <2>1. CASE HeteroInit
    BY <2>1 DEF HeteroInit, TypeOK
  <2>2. CASE HeteroInitFails \/ HeteroCleanup \/ UNCHANGED vars
    BY <2>0, <2>2 DEF HeteroInitFails, HeteroCleanup, NoneActive, Active, vars
  <2>3. ASSUME NEW d \in Calls, Enter(d)
        PROVE  gpu' # 0 /\ pc'[c] = pc[c] /\ awaited' = awaited
    BY <2>0, <2>3, EnterStep
  <2>4. ASSUME NEW d \in Calls, GpuStep(d)
        PROVE  gpu' # 0 /\ pc'[c] = pc[c] /\ awaited' = awaited
    BY <2>0, <2>4 DEF GpuStep, GpuWorkItem, GpuComplete
  <2>5. ASSUME NEW d \in Calls, HostStep(d)
        PROVE  gpu' # 0 /\ pc'[c] = pc[c] /\ awaited' = awaited
    <3>1. CASE LoopEnd(d) \/ \E i \in Indices : LoopIteration(d, i)
      BY <2>0, <3>1 DEF LoopEnd, LoopIteration, TypeOK
    <3>2. CASE ReadFunction(d) \/ ReadFunctionOfNull(d) \/ ReadProgram(d)
      BY <2>0, <3>2 DEF ReadFunction, ReadFunctionOfNull, ReadProgram, TypeOK
    <3>3. CASE CompileProgram(d) \/ CreateKernel(d) \/ CreateKernelFails(d)
      BY <2>0, <3>3 DEF CompileProgram, CreateKernel, CreateKernelFails, TypeOK
    <3>4. CASE SetContext(d) \/ SetGContext(d) \/ EnqueueFails(d)
      BY <2>0, <3>4 DEF SetContext, SetGContext, EnqueueFails, TypeOK
    <3>5. CASE FinishFails(d)
      BY <2>0, <3>5 DEF FinishFails, MayFail
    <3>6. CASE ReadProfile(d) \/ Return(d)
      BY <2>0, <3>6 DEF ReadProfile, Return, TypeOK
    <3> QED
      BY <1>5, <2>5, <3>1, <3>2, <3>3, <3>4, <3>5, <3>6 DEF HostStep
  <2> QED
    BY <2>1, <2>2, <2>3, <2>4, <2>5 DEF Next, LifeCycle, Terminated
<1> QED
  BY <1>1, <1>2, <1>3, <1>4, <1>5 DEF PendingAwaited

-----------------------------------------------------------------------------
(* The theorems.                                                            *)

(* The initial states satisfy the invariant.                                *)
LEMMA ExclusiveInit == Init => ExclusiveInv
BY DEF Init, ExclusiveInv, KernelInv, OneCallPerThread, OnOwnThread, CacheOwn, KernelOwn, KernelKnown,
   SlotsOwn, ArgumentsOwn, PendingAwaited, Active, Submitted, NoCommand

(* Every step keeps the part of the invariant about kernel objects.         *)
LEMMA KernelStep ==
    ASSUME Exclusive, TypeOK, KernelInv, [Next]_vars
    PROVE  KernelInv'
BY OneCallStep, CacheOwnStep, KernelOwnStep, KernelKnownStep, SlotsOwnStep, ArgumentsOwnStep
   DEF KernelInv, TypeInv

(* The kernel object of a loop is set up and used by one call at a time     *)
(* when each loop is offloaded from one thread only (hetero.c:271-330).     *)
THEOREM KernelCorrect ==
    ASSUME Exclusive
    PROVE  Spec => []KernelInv
<1>1. Init => KernelInv
  BY ExclusiveInit DEF ExclusiveInv
<1>2. TypeOK /\ KernelInv /\ [Next]_vars => KernelInv'
  BY KernelStep
<1> QED
  BY TypeCorrect, <1>1, <1>2, PTL DEF Spec

(* If moreover clFinish reports no error, every command that is not         *)
(* complete belongs to a call that will wait for it (hetero.c:509-540).     *)
THEOREM ExclusiveCorrect ==
    ASSUME Exclusive, "finish" \notin Faults
    PROVE  Spec => []ExclusiveInv
<1>1. TypeOK /\ KernelInv /\ ExclusiveInv /\ [Next]_vars => ExclusiveInv'
  BY KernelStep, PendingAwaitedStep DEF ExclusiveInv, KernelInv
<1> QED
  BY ExclusiveInit, TypeCorrect, KernelCorrect, <1>1, PTL DEF Spec

(* Every command runs the body of the call that enqueued it, if each loop   *)
(* is offloaded from one thread only: the argument slots of the shared      *)
(* cl_kernel need no lock then (hetero.c:299-321).                          *)
THEOREM ArgumentsCorrect ==
    ASSUME Exclusive
    PROVE  Spec => []ArgumentsOwn
<1>1. KernelInv => ArgumentsOwn
  BY DEF KernelInv
<1> QED
  BY KernelCorrect, <1>1, PTL

(* If moreover clFinish reports no error, no iteration is executed after    *)
(* its offload_ has returned (try_gpu_apply_f, hetero.c:527).               *)
THEOREM QuietCorrect ==
    ASSUME Exclusive, "finish" \notin Faults
    PROVE  Spec => QuietAfterReturn
<1>1. ASSUME TypeOK, ExclusiveInv, [Next]_vars, NEW c \in Calls, pc[c] = "returned"
      PROVE  runs'[c] = runs[c]
  <2> USE <1>1 DEF clVars, cacheVars, localVars, deviceVars
  <2>1. CASE LifeCycle \/ UNCHANGED vars
    BY <2>1 DEF LifeCycle, HeteroInit, HeteroInitFails, HeteroCleanup, vars
  <2>2. CASE \E d \in Calls : Enter(d)
    BY <2>2, EnterStep
  <2>3. ASSUME NEW d \in Calls, NEW i \in Indices, GpuWorkItem(d, i) PROVE runs'[c] = runs[c]
    <3>1. d \in pending /\ command[d].context = d /\ c # d
      BY <2>3 DEF GpuWorkItem, Executing, ExclusiveInv, KernelInv, PendingAwaited, ArgumentsOwn
    <3> QED
      BY <2>3, <3>1 DEF GpuWorkItem, TypeOK
  <2>4. ASSUME NEW d \in Calls, NEW i \in Indices, LoopIteration(d, i) PROVE runs'[c] = runs[c]
    BY <2>4 DEF LoopIteration, TypeOK
  <2>5. ASSUME NEW d \in Calls, GpuComplete(d) PROVE runs'[c] = runs[c]
    BY <2>5 DEF GpuComplete
  <2>6. ASSUME NEW d \in Calls, HostStep(d), ~ \E i \in Indices : LoopIteration(d, i)
        PROVE  runs'[c] = runs[c]
    BY <2>6 DEF HostStep, LoopEnd, ReadFunction, ReadFunctionOfNull, ReadProgram, CompileProgram,
       CreateKernel, CreateKernelFails, SetContext, SetGContext, Enqueue, EnqueueFails, CallFinish,
       FinishFails, FinishReturns, ReadProfile, Return
  <2> QED
    BY <2>1, <2>2, <2>3, <2>4, <2>5, <2>6 DEF Next, GpuStep, Terminated
<1>2. TypeOK /\ ExclusiveInv /\ [Next]_vars =>
          [\A c \in Calls : pc[c] = "returned" => runs'[c] = runs[c]]_vars
  BY <1>1
<1> QED
  BY TypeCorrect, ExclusiveCorrect, <1>2, PTL DEF Spec, QuietAfterReturn

-----------------------------------------------------------------------------
(* What the caller of offload_ relies on: the iterations of a loop are      *)
(* executed once or not at all (so that the runtime implements              *)
(* ParallelForHetero), the process is killed only after the runtime was     *)
(* initialised again, and one thread compiles a loop once.                  *)
(* Which iterations were executed.                                          *)

(* No iteration was executed, or all but those in todo.                     *)
Fresh(c)   == todo[c] = {} /\ RanNothing(c)
Started(c) == /\ todo[c] \subseteq {i \in Indices : InRange(c, i)}
              /\ \A i \in Indices :
                     runs[c][i] = IF InRange(c, i) /\ i \notin todo[c] THEN 1 ELSE 0

Before == {"idle", "readFunction", "readProgram", "compile", "createKernel",
           "setContext", "setGContext", "enqueue"}
After  == {"callFinish", "waitFinish", "profile", "leave", "returned"}

IterationsOf(c) ==
    /\ Fresh(c) \/ Started(c)
    /\ pc[c] \in Before => Fresh(c) /\ c \notin pending
    /\ pc[c] = "loop" \/ c \in pending => Started(c)
    /\ pc[c] \in After /\ c \notin pending => todo[c] = {}
IterationsInv == \A c \in Calls : IterationsOf(c)

(* A step of one call leaves the iterations of the others alone.            *)
Aside(d) == \A c \in Calls \ {d} :
    /\ pc'[c] = pc[c] /\ call'[c] = call[c] /\ todo'[c] = todo[c] /\ runs'[c] = runs[c]
    /\ c \in pending' <=> c \in pending

(* So the invariant is a matter of the call that makes the step.            *)
LEMMA AsideKept ==
    ASSUME IterationsInv, NEW d \in Calls, Aside(d), IterationsOf(d)'
    PROVE  IterationsInv'
<1> SUFFICES ASSUME NEW c \in Calls, c # d PROVE IterationsOf(c)'
  BY DEF IterationsInv
<1> QED
  BY DEF IterationsInv, IterationsOf, Fresh, Started, RanNothing, InRange, Aside

(* The conditions under which the runtime keeps its promise: no loop is     *)
(* offloaded by two threads, clFinish reports no error, trip counts are not *)
(* negative and nothing but zeros lies beside numiters.                     *)
Promised == /\ Exclusive /\ "finish" \notin Faults
            /\ NumIters \subseteq Nat /\ MaxUpper = 0

(* A command has the iterations of its loop.                                *)
LEMMA SizeExact ==
    ASSUME Promised, NEW n \in NumIters \cup {0}
    PROVE  0 .. GlobalSize(n, 0) - 1 = {i \in Indices : i < n}
<1>1. /\ Word \in Nat \ {0} /\ n \in Nat /\ n < Word
      /\ Indices = 0 .. Word - 1
  BY RuntimeAssumption DEF Promised, Indices
<1>2. n % Word = n
  BY <1>1
<1>3. GlobalSize(n, 0) = n
  BY <1>1, <1>2 DEF GlobalSize
<1> QED
  BY <1>1, <1>3

(* The steps of a call.                                                     *)
LEMMA HostIterations ==
    ASSUME Promised, TypeOK, ExclusiveInv, IterationsInv, NEW d \in Calls, HostStep(d)
    PROVE  Aside(d) /\ IterationsOf(d)'
<1> USE DEF clVars, cacheVars, localVars, deviceVars
<1>t. /\ pc \in [Calls -> PCs] /\ todo \in [Calls -> SUBSET Indices]
      /\ runs \in [Calls -> [Indices -> Nat]] /\ pending \subseteq Calls
      /\ call[d].iters \in NumIters \cup {0}
  BY DEF TypeOK
<1>i. IterationsOf(d)
  BY DEF IterationsInv
<1>1. ASSUME NEW i \in Indices, LoopIteration(d, i) PROVE Aside(d) /\ IterationsOf(d)'
  <2>1. /\ todo' = [todo EXCEPT ![d] = @ \ {i}] /\ runs' = [runs EXCEPT ![d][i] = @ + 1]
        /\ UNCHANGED <<pc, call, pending>> /\ pc[d] = "loop" /\ i \in todo[d]
    BY <1>1 DEF LoopIteration
  <2>2. Started(d)
    BY <1>i, <2>1 DEF IterationsOf
  <2>3. runs[d][i] = 0 /\ InRange(d, i)
    BY <2>1, <2>2 DEF Started
  <2>4. /\ todo'[d] = todo[d] \ {i} /\ runs'[d][i] = 1
        /\ \A j \in Indices \ {i} : runs'[d][j] = runs[d][j]
    BY <1>t, <2>1, <2>3
  <2>5. Started(d)'
    BY <2>1, <2>2, <2>3, <2>4 DEF Started, InRange
  <2>6. Aside(d)
    BY <1>t, <2>1 DEF Aside
  <2> QED
    BY <2>1, <2>5, <2>6, <1>i DEF IterationsOf, Before, After
<1>2. CASE LoopEnd(d)
  BY <1>2, <1>t, <1>i DEF LoopEnd, Aside, IterationsOf, Fresh, Started, RanNothing, InRange, Before, After
<1>3. CASE \/ ReadFunction(d) \/ ReadFunctionOfNull(d) \/ ReadProgram(d) \/ CompileProgram(d)
           \/ CreateKernel(d) \/ CreateKernelFails(d) \/ SetContext(d) \/ SetGContext(d)
           \/ EnqueueFails(d)
  <2>1. /\ UNCHANGED <<call, pending, todo, runs>> /\ pc[d] \in Before
        /\ \A c \in Calls \ {d} : pc'[c] = pc[c]
        /\ pc'[d] \in Before \cup {"callFinish"}
    BY <1>3, <1>t DEF ReadFunction, ReadFunctionOfNull, ReadProgram, CompileProgram, CreateKernel,
                CreateKernelFails, SetContext, SetGContext, EnqueueFails, Before
  <2> QED
    BY <2>1, <1>i DEF Aside, IterationsOf, Fresh, Started, RanNothing, InRange, Before, After
<1>4. ASSUME NEW upper \in 0 .. MaxUpper, Enqueue(d, upper) PROVE Aside(d) /\ IterationsOf(d)'
  <2>1. upper = 0
    BY DEF Promised
  <2>2. /\ todo' = [todo EXCEPT ![d] = 0 .. GlobalSize(call[d].iters, 0) - 1]
        /\ pc' = [pc EXCEPT ![d] = "callFinish"] /\ pc[d] = "enqueue"
        /\ pending' = pending \cup {d} /\ UNCHANGED <<call, runs>>
    BY <1>4, <2>1 DEF Enqueue
  <2>3. todo'[d] = {i \in Indices : InRange(d, i)}
    BY <1>t, <2>2, SizeExact DEF InRange
  <2>4. Fresh(d)
    BY <1>i, <2>2 DEF IterationsOf, Before
  <2>5. Started(d)'
    BY <2>2, <2>3, <2>4 DEF Started, Fresh, RanNothing, InRange
  <2>6. Aside(d)
    BY <1>t, <2>2 DEF Aside
  <2> QED
    BY <1>t, <2>2, <2>5, <2>6 DEF IterationsOf, Before, After
<1>5. CASE CallFinish(d) \/ FinishFails(d) \/ FinishReturns(d) \/ ReadProfile(d) \/ Return(d)
  <2>1. /\ UNCHANGED <<call, pending, todo, runs>> /\ pc[d] \in After
        /\ \A c \in Calls \ {d} : pc'[c] = pc[c]
        /\ pc'[d] \in After
    BY <1>5, <1>t DEF CallFinish, FinishFails, FinishReturns, ReadProfile, Return, After
  <2> QED
    BY <2>1, <1>i DEF Aside, IterationsOf, Fresh, Started, RanNothing, InRange, Before, After
<1> QED
  BY <1>1, <1>2, <1>3, <1>4, <1>5 DEF HostStep

(* The steps of a command: it runs the body of its own call.                *)
LEMMA GpuIterations ==
    ASSUME Promised, TypeOK, ExclusiveInv, IterationsInv, NEW d \in Calls, GpuStep(d)
    PROVE  Aside(d) /\ IterationsOf(d)'
<1> USE DEF clVars, cacheVars, localVars, deviceVars
<1>t. /\ todo \in [Calls -> SUBSET Indices] /\ runs \in [Calls -> [Indices -> Nat]]
  BY DEF TypeOK
<1>i. IterationsOf(d)
  BY DEF IterationsInv
<1>p. /\ d \in pending /\ pc[d] \in {"callFinish", "waitFinish"}
      /\ command[d].context = d
  BY DEF GpuStep, GpuWorkItem, GpuComplete, Executing, ExclusiveInv, KernelInv, PendingAwaited, ArgumentsOwn
<1>s. Started(d)
  BY <1>i, <1>p DEF IterationsOf
<1>1. ASSUME NEW i \in Indices, GpuWorkItem(d, i) PROVE Aside(d) /\ IterationsOf(d)'
  <2>1. /\ todo' = [todo EXCEPT ![d] = @ \ {i}] /\ runs' = [runs EXCEPT ![d][i] = @ + 1]
        /\ UNCHANGED <<pc, call, pending>> /\ i \in todo[d]
    BY <1>1, <1>p DEF GpuWorkItem
  <2>2. runs[d][i] = 0 /\ InRange(d, i)
    BY <2>1, <1>s DEF Started
  <2>3. /\ todo'[d] = todo[d] \ {i} /\ runs'[d][i] = 1
        /\ \A j \in Indices \ {i} : runs'[d][j] = runs[d][j]
    BY <1>t, <2>1, <2>2
  <2>4. Started(d)'
    BY <1>s, <2>1, <2>2, <2>3 DEF Started, InRange
  <2>5. Aside(d)
    BY <1>t, <2>1 DEF Aside
  <2> QED
    BY <1>p, <2>1, <2>4, <2>5 DEF IterationsOf, Before
<1>2. CASE GpuComplete(d)
  <2>1. UNCHANGED <<pc, call, todo, runs>> /\ pending' = pending \ {d} /\ todo[d] = {}
    BY <1>2 DEF GpuComplete
  <2> QED
    BY <1>p, <1>s, <2>1 DEF Aside, IterationsOf, Started, InRange, Before, After
<1> QED
  BY <1>1, <1>2 DEF GpuStep

(* A call begins with all iterations to do, or none.                        *)
LEMMA EnterIterations ==
    ASSUME Promised, TypeOK, IterationsInv, NEW d \in Calls, Enter(d)
    PROVE  /\ Aside(d) /\ IterationsOf(d)'
           /\ pc[d] = "idle" /\ pc'[d] \in {"loop", "readFunction", "leave"}
           /\ \E n \in NumIters : \E a : a.iters = n /\ call' = [call EXCEPT ![d] = a]
           /\ runs' = runs /\ exited' = exited
<1> USE DEF clVars, cacheVars, localVars, deviceVars
<1>0. PICK f \in Functions, n \in NumIters, h \in Hints :
          \E t \in CallersOf[f] : Offload(d, t, f, n, h)
  BY DEF Enter
<1>1. PICK t \in CallersOf[f] : Offload(d, t, f, n, h)
  BY <1>0
<1> DEFINE via == IF n = 0 THEN -1 ELSE Scheduler(h)
           cpu == via \in {SINGLE_CORE_CPU, MULTI_CORE_CPU_TBB}
           a   == [thread |-> t, fn |-> f, iters |-> n, via |-> via]
           l   == IF via = GPU THEN "readFunction" ELSE IF cpu THEN "loop" ELSE "leave"
<1>2. /\ pc[d] = "idle" /\ pc' = [pc EXCEPT ![d] = l] /\ call' = [call EXCEPT ![d] = a]
      /\ todo' = [todo EXCEPT ![d] = IF cpu THEN {i \in Indices : i < n} ELSE {}]
      /\ UNCHANGED <<pending, runs, exited>>
  BY <1>1 DEF Offload
<1>3. cpu => l = "loop"
  BY DEF GPU, SINGLE_CORE_CPU, MULTI_CORE_CPU_TBB
<1>4. ~cpu => l \in {"readFunction", "leave"}
  OBVIOUS
<1>5. a.iters = n
  OBVIOUS
<1> HIDE DEF a, l, cpu, via
<1>6. l \in {"loop", "readFunction", "leave"}
  BY <1>3, <1>4
<1>7. /\ pc'[d] = l /\ call'[d] = a
      /\ todo'[d] = IF cpu THEN {i \in Indices : i < n} ELSE {}
      /\ \A c \in Calls \ {d} : pc'[c] = pc[c] /\ call'[c] = call[c] /\ todo'[c] = todo[c]
  BY <1>2 DEF TypeOK
<1>8. Aside(d)
  BY <1>2, <1>7 DEF Aside
<1>9. RanNothing(d) /\ d \notin pending
  BY <1>2 DEF IterationsInv, IterationsOf, Before, Fresh
<1>10. CASE cpu
  <2>1. Started(d)'
    BY <1>2, <1>5, <1>7, <1>9, <1>10 DEF Started, RanNothing, InRange
  <2>2. IterationsOf(d)'
    BY <1>2, <1>3, <1>7, <1>9, <1>10, <2>1 DEF IterationsOf, Before, After
  <2> QED
    BY <1>2, <1>5, <1>6, <1>7, <1>8, <2>2
<1>11. CASE ~cpu
  <2>1. Fresh(d)'
    BY <1>2, <1>7, <1>9, <1>11 DEF Fresh, RanNothing
  <2>2. IterationsOf(d)'
    BY <1>2, <1>4, <1>7, <1>9, <1>11, <2>1 DEF IterationsOf, Before, After
  <2> QED
    BY <1>2, <1>5, <1>6, <1>7, <1>8, <2>2
<1> QED
  BY <1>10, <1>11

(* Every step keeps it.                                                     *)
LEMMA IterationsStep ==
    ASSUME Promised, TypeOK, ExclusiveInv, IterationsInv, [Next]_vars
    PROVE  IterationsInv'
<1>1. CASE LifeCycle \/ UNCHANGED vars
  <2>1. UNCHANGED <<pc, call, todo, runs, pending>>
    BY <1>1 DEF LifeCycle, HeteroInit, HeteroInitFails, HeteroCleanup, vars, localVars, deviceVars
  <2> QED
    BY <2>1 DEF IterationsInv, IterationsOf, Fresh, Started, RanNothing, InRange
<1>2. ASSUME NEW d \in Calls, Enter(d) \/ HostStep(d) \/ GpuStep(d) PROVE IterationsInv'
  BY <1>2, EnterIterations, HostIterations, GpuIterations, AsideKept
<1> QED
  BY <1>1, <1>2 DEF Next, Terminated

(* What is known of each call in a run that keeps the conditions.           *)
LoopInv == TypeOK /\ ExclusiveInv /\ IterationsInv

(* It holds in every such run.                                              *)
LEMMA LoopAlways == ASSUME Promised PROVE Spec => []LoopInv
<1>1. Init => IterationsInv
  BY DEF Init, IterationsInv, IterationsOf, Fresh, RanNothing, Before, After
<1>2. TypeOK /\ ExclusiveInv /\ IterationsInv /\ [Next]_vars => IterationsInv'
  BY IterationsStep
<1>3. Spec => []TypeOK /\ []ExclusiveInv
  BY TypeCorrect, ExclusiveCorrect DEF Promised
<1> QED
  BY <1>1, <1>2, <1>3, PTL DEF Spec, LoopInv

(* A call that returned ran its loop exactly once, or not at all.           *)
LEMMA ReturnedWhole ==
    ASSUME LoopInv, NEW c \in Calls, pc[c] \in {"leave", "returned"}
    PROVE  RanOnce(c) \/ RanNothing(c)
<1>1. c \notin pending
  BY DEF LoopInv, ExclusiveInv, PendingAwaited
<1>2. todo[c] = {} /\ (Fresh(c) \/ Started(c))
  BY <1>1 DEF LoopInv, IterationsInv, IterationsOf, After
<1> QED
  BY <1>2 DEF Fresh, Started, RanOnce

(* offload_ runs its loop exactly once or not at all, for any number of     *)
(* threads, loops and calls, whatever else fails.                           *)
THEOREM AllOrNothingCorrect ==
    ASSUME Promised PROVE Spec => []AllOrNothing
<1>1. LoopInv => AllOrNothing
  BY ReturnedWhole DEF AllOrNothing
<1> QED
  BY <1>1, LoopAlways, PTL

-----------------------------------------------------------------------------
(* The runtime implements the loop.                                         *)

Status(c) == IF Active(c) THEN "running" ELSE pc[c]

(* The runtime starts as the abstract loop does.                            *)
LEMMA ImplementsInit == Init => Loop!LoopInit
<1> SUFFICES ASSUME Init PROVE Loop!LoopInit
  OBVIOUS
<1>1. \A c \in Calls : ~Active(c) /\ pc[c] = "idle" /\ call[c].iters = 0
  BY DEF Init, Active, NoArguments
<1> QED
  BY <1>1 DEF Init, Loop!LoopInit, Running

(* Every step is a step of the abstract loop, or none.                      *)
LEMMA ImplementsStep ==
    ASSUME Promised, LoopInv, [Next]_vars
    PROVE  [Loop!LoopNext]_(Loop!loopVars)
<1> USE DEF clVars, cacheVars, localVars, deviceVars
<1> DEFINE status == [c \in Calls |-> Status(c)]
           trip   == [c \in Calls |-> call[c].iters]
<1>t. TypeOK /\ IterationsInv
  BY DEF LoopInv
<1>a. ASSUME UNCHANGED <<call, runs, exited>>, \A c \in Calls : Status(c)' = Status(c)
      PROVE  UNCHANGED Loop!loopVars
  BY <1>a DEF Loop!loopVars, Status, Running
<1>b. ASSUME UNCHANGED <<call, runs, pc>>, exited' # "no" PROVE Loop!LoopNext
  BY <1>b DEF Loop!LoopNext, Loop!ProcessEnds, Active, Running
<1>1. CASE UNCHANGED vars
  BY <1>1, <1>a DEF vars, Status, Active
<1>2. CASE LifeCycle
  BY <1>2, <1>a, <1>b DEF LifeCycle, HeteroInit, HeteroInitFails, HeteroCleanup, Status, Active
<1>3. ASSUME NEW d \in Calls, Enter(d) PROVE Loop!LoopNext
  <2>1. /\ Aside(d) /\ pc[d] = "idle" /\ pc'[d] \in {"loop", "readFunction", "leave"}
        /\ \E n \in NumIters : \E a : a.iters = n /\ call' = [call EXCEPT ![d] = a]
        /\ runs' = runs /\ exited' = exited
    BY <1>3, <1>t, EnterIterations
  <2>n. PICK n \in NumIters : \E a : a.iters = n /\ call' = [call EXCEPT ![d] = a]
    BY <2>1
  <2>2. PICK a : a.iters = n /\ call' = [call EXCEPT ![d] = a]
    BY <2>n
  <2>3. Running
    BY <1>3 DEF Enter, Offload
  <2>4. /\ Status(d) = "idle" /\ Status(d)' = "running"
        /\ \A c \in Calls \ {d} : Status(c)' = Status(c)
    BY <2>1 DEF Status, Active, Aside
  <2>5. status' = [status EXCEPT ![d] = "running"]
    BY <2>4
  <2>6. trip' = [trip EXCEPT ![d] = n]
    BY <1>t, <2>2 DEF TypeOK
  <2> QED
    BY <2>1, <2>3, <2>4, <2>5, <2>6 DEF Loop!LoopNext, Loop!Start, Status, Running
<1>4. ASSUME NEW d \in Calls, NEW i \in Indices, LoopIteration(d, i) \/ GpuWorkItem(d, i)
      PROVE  Loop!LoopNext
  <2>1. /\ Running /\ UNCHANGED <<pc, call, exited>> /\ runs' = [runs EXCEPT ![d][i] = @ + 1]
        /\ i \in todo[d] /\ Started(d) /\ Active(d)
    <3>1. CASE LoopIteration(d, i)
      BY <1>t, <1>4, <3>1 DEF LoopIteration, IterationsInv, IterationsOf, Active
    <3>2. CASE GpuWorkItem(d, i)
      <4>1. /\ d \in pending /\ pc[d] \in {"callFinish", "waitFinish"} /\ command[d].context = d
        BY <3>2 DEF GpuWorkItem, Executing, LoopInv, ExclusiveInv, KernelInv, PendingAwaited,
                    ArgumentsOwn
      <4> QED
        BY <1>t, <3>2, <4>1 DEF GpuWorkItem, IterationsInv, IterationsOf, Active
    <3> QED
      BY <1>4, <3>1, <3>2
  <2>2. runs[d][i] = 0 /\ i < call[d].iters
    BY <2>1 DEF Started, InRange
  <2>3. runs' = [runs EXCEPT ![d][i] = 1]
    BY <1>t, <2>1, <2>2 DEF TypeOK
  <2>4. Loop!Iterate(d, i)
    BY <2>1, <2>2, <2>3 DEF Loop!Iterate, Active, Running
  <2> QED
    BY <2>4 DEF Loop!LoopNext
<1>5. ASSUME NEW d \in Calls, Return(d) PROVE Loop!LoopNext
  <2>1. /\ Running /\ pc[d] = "leave" /\ pc' = [pc EXCEPT ![d] = "returned"]
        /\ UNCHANGED <<call, runs, exited>>
    BY <1>5 DEF Return
  <2>2. /\ Status(d) = "running" /\ Status(d)' = "returned"
        /\ \A c \in Calls \ {d} : Status(c)' = Status(c)
    BY <1>t, <2>1 DEF Status, Active, TypeOK
  <2>3. status' = [status EXCEPT ![d] = "returned"]
    BY <2>2
  <2>4. \/ \A i \in Indices : i < call[d].iters => runs[d][i] = 1
        \/ \A i \in Indices : runs[d][i] = 0
    BY <2>1, ReturnedWhole DEF RanOnce, RanNothing, InRange
  <2>5. Loop!Complete(d) \/ Loop!Untouched(d)
    BY <2>4 DEF Loop!Complete, Loop!Untouched
  <2> QED
    BY <2>1, <2>2, <2>3, <2>5 DEF Loop!LoopNext, Loop!Finish, Status, Running
<1>6. ASSUME NEW d \in Calls, ReadFunctionOfNull(d) \/ EnqueueFails(d) PROVE Loop!LoopNext
  BY <1>6, <1>b DEF ReadFunctionOfNull, EnqueueFails
<1>7. ASSUME NEW d \in Calls,
             \/ LoopEnd(d) \/ ReadFunction(d) \/ ReadProgram(d) \/ CompileProgram(d)
             \/ CreateKernel(d) \/ CreateKernelFails(d) \/ SetContext(d) \/ SetGContext(d)
             \/ \E upper \in 0 .. MaxUpper : Enqueue(d, upper)
             \/ CallFinish(d) \/ FinishFails(d) \/ FinishReturns(d) \/ ReadProfile(d)
             \/ GpuComplete(d)
      PROVE  UNCHANGED Loop!loopVars
  <2>1. /\ UNCHANGED <<call, runs, exited>> /\ \A c \in Calls \ {d} : pc'[c] = pc[c]
        /\ \/ pc'[d] = pc[d]
           \/ pc[d] \notin {"idle", "returned"} /\ pc'[d] \notin {"idle", "returned"}
    <3>1. CASE LoopEnd(d) \/ ReadFunction(d) \/ ReadProgram(d) \/ CompileProgram(d)
      BY <1>t, <3>1 DEF TypeOK, LoopEnd, ReadFunction, ReadProgram, CompileProgram
    <3>2. CASE CreateKernel(d) \/ CreateKernelFails(d) \/ SetContext(d) \/ SetGContext(d)
      BY <1>t, <3>2 DEF TypeOK, CreateKernel, CreateKernelFails, SetContext, SetGContext
    <3>3. CASE CallFinish(d) \/ FinishFails(d) \/ FinishReturns(d) \/ ReadProfile(d)
      BY <1>t, <3>3 DEF TypeOK, CallFinish, FinishFails, FinishReturns, ReadProfile
    <3>4. CASE GpuComplete(d) \/ \E upper \in 0 .. MaxUpper : Enqueue(d, upper)
      <4>1. ASSUME NEW upper \in 0 .. MaxUpper, Enqueue(d, upper)
            PROVE  /\ UNCHANGED <<call, runs, exited>> /\ pc[d] = "enqueue"
                   /\ pc'[d] = "callFinish" /\ \A c \in Calls \ {d} : pc'[c] = pc[c]
        BY <1>t, <4>1 DEF Enqueue, TypeOK
      <4>2. ASSUME GpuComplete(d) PROVE UNCHANGED <<pc, call, runs, exited>>
        BY <4>2 DEF GpuComplete
      <4> QED
        BY <3>4, <4>1, <4>2
    <3> QED
      BY <1>7, <3>1, <3>2, <3>3, <3>4
  <2>2. \A c \in Calls : Status(c)' = Status(c)
    BY <2>1 DEF Status, Active
  <2> QED
    BY <1>a, <2>1, <2>2
<1> QED
  BY <1>1, <1>2, <1>3, <1>4, <1>5, <1>6, <1>7 DEF Next, HostStep, GpuStep, Terminated

(* offload_ implements the parallel loop, whichever processor runs it.      *)
THEOREM LoopCorrect ==
    ASSUME Promised PROVE Spec => ImplementsLoop
<1>1. Init => Loop!LoopInit
  BY ImplementsInit
<1>2. LoopInv /\ [Next]_vars => [Loop!LoopNext]_(Loop!loopVars)
  BY ImplementsStep
<1> QED
  BY <1>1, <1>2, LoopAlways, PTL DEF Spec, ImplementsLoop, Loop!LoopSpec

-----------------------------------------------------------------------------
(* What the binary caches hold.                                             *)

(* No cache and no call holds a program or kernel built without a context.  *)
EpochInv ==
    /\ programBinary # NoCall => program[programBinary] # 0
    /\ \A f \in Functions : functionBinary[f] # NoCall => kernel[functionBinary[f]].epoch # 0
    /\ \A c \in Calls : /\ programOf[c] # NoCall => program[programOf[c]] # 0
                        /\ kernelOf[c] # NoCall => kernel[kernelOf[c]].epoch # 0

(* Steps that build nothing keep it.                                        *)
LEMMA EpochsSame ==
    ASSUME TypeOK, EpochInv, UNCHANGED <<cacheVars, programOf, kernelOf, program>>,
           \A c \in Calls : kernel'[c].epoch = kernel[c].epoch
    PROVE  EpochInv'
BY DEF TypeOK, EpochInv, cacheVars

(* Building and caching keep it.                                            *)
LEMMA EpochStep ==
    ASSUME TypeOK, KernelKnown, EpochInv, [Next]_vars
    PROVE  EpochInv'
<1> USE DEF clVars, cacheVars, localVars, deviceVars
<1>1. CASE LifeCycle \/ UNCHANGED vars
  BY <1>1, EpochsSame DEF LifeCycle, HeteroInit, HeteroInitFails, HeteroCleanup, vars
<1>2. ASSUME NEW d \in Calls, Enter(d) \/ GpuStep(d) PROVE EpochInv'
  BY <1>2, EpochsSame DEF Enter, Offload, GpuStep, GpuWorkItem, GpuComplete
<1>3. ASSUME NEW d \in Calls, SetContext(d) \/ SetGContext(d) PROVE EpochInv'
  <2>1. kernelOf[d] \in Calls
    BY <1>3 DEF SetContext, SetGContext, KernelKnown
  <2>2. \A c \in Calls : kernel'[c].epoch = kernel[c].epoch
    <3> DEFINE k == kernelOf[d]
    <3>1. kernel' = [kernel EXCEPT ![k] = [kernel[k] EXCEPT !.context = d]]
          \/ kernel' = [kernel EXCEPT ![k] = [kernel[k] EXCEPT !.gContext = d]]
      BY <1>3 DEF SetContext, SetGContext
    <3>2. /\ [kernel[k] EXCEPT !.context = d].epoch = kernel[k].epoch
          /\ [kernel[k] EXCEPT !.gContext = d].epoch = kernel[k].epoch
      BY <2>1 DEF TypeOK
    <3>3. kernel \in [Calls -> KernelType]
      BY DEF TypeOK, KernelType
    <3> HIDE DEF k
    <3> QED
      BY <3>1, <3>2, <3>3
  <2> QED
    BY <1>3, <2>2, EpochsSame DEF SetContext, SetGContext
<1>4. ASSUME NEW d \in Calls, ReadFunction(d) \/ ReadProgram(d) PROVE EpochInv'
  <2>1. CASE ReadFunction(d)
    <3>1. /\ call[d].fn \in Functions /\ kernelOf' = [kernelOf EXCEPT ![d] = functionBinary[call[d].fn]]
          /\ UNCHANGED <<programBinary, functionBinary, programOf, program, kernel>>
      BY <2>1 DEF ReadFunction, TypeOK
    <3> QED
      BY <3>1 DEF EpochInv, TypeOK
  <2>2. CASE ReadProgram(d)
    <3>1. /\ programOf' = [programOf EXCEPT ![d] = programBinary]
          /\ UNCHANGED <<programBinary, functionBinary, kernelOf, program, kernel>>
      BY <2>2 DEF ReadProgram
    <3> QED
      BY <3>1 DEF EpochInv, TypeOK
  <2> QED
    BY <1>4, <2>1, <2>2
<1>5. ASSUME NEW d \in Calls, CompileProgram(d) PROVE EpochInv'
  BY <1>5 DEF CompileProgram, EpochInv, TypeOK
<1>6. ASSUME NEW d \in Calls, CreateKernel(d) PROVE EpochInv'
  <2>1. program[programOf[d]] # 0
    BY <1>6 DEF CreateKernel, EpochInv
  <2>2. /\ kernel'[d].epoch # 0
        /\ \A c \in Calls \ {d} : kernel'[c].epoch = kernel[c].epoch
    BY <1>6, <2>1 DEF CreateKernel, TypeOK
  <2> QED
    BY <1>6, <2>2 DEF CreateKernel, EpochInv, TypeOK
<1>7. ASSUME NEW d \in Calls, CreateKernelFails(d) PROVE EpochInv'
  BY <1>7 DEF CreateKernelFails, EpochInv, TypeOK
<1>8. ASSUME NEW d \in Calls, HostStep(d),
             ~(SetContext(d) \/ SetGContext(d) \/ ReadFunction(d) \/ ReadProgram(d)
               \/ CompileProgram(d) \/ CreateKernel(d) \/ CreateKernelFails(d))
      PROVE  EpochInv'
  BY <1>8, EpochsSame DEF HostStep, LoopIteration, LoopEnd, ReadFunctionOfNull, Enqueue,
     EnqueueFails, CallFinish, FinishFails, FinishReturns, ReadProfile, Return
<1> QED
  BY <1>1, <1>2, <1>3, <1>4, <1>5, <1>6, <1>7, <1>8 DEF Next, Terminated

(* A process that is killed by the enqueue had its queue shut down, was     *)
(* initialised twice, or met a refusal of the driver: nothing a call leaves *)
(* in the caches before hetero_init can do it.                              *)
THEOREM ExitCorrect == Spec => []ExitOnlyAfterReinit
<1>1. Init => EpochInv /\ ExitOnlyAfterReinit /\ KernelKnown
  BY DEF Init, EpochInv, ExitOnlyAfterReinit, KernelKnown
<1>2. TypeOK /\ KernelKnown /\ EpochInv /\ [Next]_vars => EpochInv' /\ KernelKnown'
  BY EpochStep, KernelKnownStep DEF TypeInv
<1>3. ASSUME TypeOK, KernelKnown, EpochInv, ExitOnlyAfterReinit, [Next]_vars
      PROVE  ExitOnlyAfterReinit'
  <2> USE <1>3 DEF clVars, cacheVars, localVars, deviceVars
  <2>1. ASSUME NEW d \in Calls, EnqueueFails(d) PROVE ExitOnlyAfterReinit'
    <3>1. SUFFICES ASSUME gpu # 0, ~MayFail("enqueue"), inits <= 1 PROVE FALSE
      BY <2>1 DEF EnqueueFails, ExitOnlyAfterReinit, TypeOK, MayFail
    <3>2. kernelOf[d] \in Calls /\ kernelOf[d] # NoCall
      BY <2>1, RuntimeAssumption DEF EnqueueFails, KernelKnown
    <3>3. kernel[kernelOf[d]].epoch \in 0 .. inits /\ kernel[kernelOf[d]].epoch # 0
      BY <3>2 DEF EpochInv, TypeOK
    <3>4. gpu \in 0 .. inits /\ inits \in Nat
      BY RuntimeAssumption DEF TypeOK
    <3> QED
      BY <2>1, <3>1, <3>3, <3>4 DEF EnqueueFails
  <2>2. ASSUME NEW d \in Calls, ReadFunctionOfNull(d) PROVE ExitOnlyAfterReinit'
    BY <2>2 DEF ReadFunctionOfNull, ExitOnlyAfterReinit
  <2>3. CASE LifeCycle \/ UNCHANGED vars
    BY <2>3 DEF LifeCycle, HeteroInit, HeteroInitFails, HeteroCleanup, vars, ExitOnlyAfterReinit,
                Running, MayFail
  <2>4. ASSUME NEW d \in Calls, Enter(d) \/ GpuStep(d) PROVE ExitOnlyAfterReinit'
    BY <2>4 DEF Enter, Offload, GpuStep, GpuWorkItem, GpuComplete, ExitOnlyAfterReinit, Running
  <2>5. ASSUME NEW d \in Calls, HostStep(d), ~EnqueueFails(d), ~ReadFunctionOfNull(d)
        PROVE  ExitOnlyAfterReinit'
    <3>1. exited' = "no"
      BY <2>5 DEF HostStep, LoopIteration, LoopEnd, ReadFunction, ReadProgram, CompileProgram,
         CreateKernel, CreateKernelFails, SetContext, SetGContext, Enqueue, CallFinish,
         FinishFails, FinishReturns, ReadProfile, Return, Running
    <3> QED
      BY <3>1 DEF ExitOnlyAfterReinit
  <2> QED
    BY <2>1, <2>2, <2>3, <2>4, <2>5 DEF Next, Terminated
<1> QED
  BY <1>1, <1>2, <1>3, TypeCorrect, PTL DEF Spec

(* What a call that found no kernel knows, when no other thread has its loop. *)
MissInv == \A c \in Calls :
    pc[c] \in {"readProgram", "compile", "createKernel"} => functionBinary[call[c].fn] = NoCall

(* There is at most one call of a loop under way.                           *)
LEMMA OneCallOfLoop ==
    ASSUME Exclusive, TypeOK, KernelInv, NEW c \in Calls, NEW d \in Calls,
           Active(c), Active(d), call[c].fn = call[d].fn
    PROVE  c = d
<1>1. call[c].thread \in CallersOf[call[c].fn] /\ call[d].thread \in CallersOf[call[d].fn]
  BY DEF KernelInv, OnOwnThread, Active
<1>2. call[c].thread = call[d].thread
  BY <1>1 DEF Exclusive, TypeOK
<1> QED
  BY <1>2 DEF KernelInv, OneCallPerThread

(* So no step replaces a cached kernel.                                     *)
LEMMA CacheStep ==
    ASSUME Exclusive, TypeOK, KernelInv, MissInv, [Next]_vars
    PROVE  /\ MissInv'
           /\ \A f \in Functions : functionBinary[f] # NoCall =>
                  functionBinary'[f] = functionBinary[f]
<1> DEFINE Stable == \A f \in Functions : functionBinary[f] # NoCall =>
                         functionBinary'[f] = functionBinary[f]
<1> USE DEF clVars, cacheVars, localVars, deviceVars
<1>t. pc \in [Calls -> PCs] /\ \A c \in Calls : call[c].fn \in Functions
  BY DEF TypeOK
<1>1. CASE LifeCycle \/ UNCHANGED vars
  BY <1>1 DEF LifeCycle, HeteroInit, HeteroInitFails, HeteroCleanup, vars, MissInv
<1>2. ASSUME NEW d \in Calls, Enter(d) PROVE MissInv' /\ Stable
  <2>1. /\ pc[d] = "idle" /\ UNCHANGED <<programBinary, functionBinary>>
        /\ pc'[d] \notin {"readProgram", "compile", "createKernel"}
        /\ \A c \in Calls \ {d} : pc'[c] = pc[c] /\ call'[c] = call[c]
    BY <1>2, <1>t DEF Enter, Offload, TypeOK
  <2> QED
    BY <2>1 DEF MissInv
<1>3. ASSUME NEW d \in Calls, GpuStep(d) PROVE MissInv' /\ Stable
  BY <1>3 DEF GpuStep, GpuWorkItem, GpuComplete, MissInv
<1>4. ASSUME NEW d \in Calls, HostStep(d) PROVE MissInv' /\ Stable
  <2>0. /\ Active(d) /\ call' = call
        /\ \A c \in Calls \ {d} : pc'[c] = pc[c]
    <3>1. Active(d)
      BY <1>4 DEF HostStep, LoopIteration, LoopEnd, ReadFunction, ReadFunctionOfNull, ReadProgram,
         CompileProgram, CreateKernel, CreateKernelFails, SetContext, SetGContext, Enqueue,
         EnqueueFails, CallFinish, FinishFails, FinishReturns, ReadProfile, Return, Active
    <3>2. call' = call /\ \A c \in Calls \ {d} : pc'[c] = pc[c]
      BY <1>4, <1>t DEF HostStep, LoopIteration, LoopEnd, ReadFunction, ReadFunctionOfNull, ReadProgram,
         CompileProgram, CreateKernel, CreateKernelFails, SetContext, SetGContext, Enqueue,
         EnqueueFails, CallFinish, FinishFails, FinishReturns, ReadProfile, Return
    <3> QED
      BY <3>1, <3>2
  <2>1. CASE functionBinary' = functionBinary /\
             (pc'[d] \in {"readProgram", "compile", "createKernel"} =>
                  functionBinary[call[d].fn] = NoCall)
    BY <2>0, <2>1 DEF MissInv
  <2>2. CASE ReadFunction(d)
    BY <1>t, <2>1, <2>2 DEF ReadFunction, TypeOK
  <2>3. CASE ReadProgram(d) \/ CompileProgram(d)
    BY <1>t, <2>1, <2>3 DEF ReadProgram, CompileProgram, MissInv
  <2>4. CASE CreateKernel(d) \/ CreateKernelFails(d)
    <3>1. /\ functionBinary[call[d].fn] = NoCall
          /\ pc'[d] \in {"setContext", "callFinish"}
          /\ \A f \in Functions \ {call[d].fn} : functionBinary'[f] = functionBinary[f]
      BY <1>t, <2>4 DEF CreateKernel, CreateKernelFails, MissInv, TypeOK
    <3>2. ASSUME NEW c \in Calls, pc'[c] \in {"readProgram", "compile", "createKernel"}
          PROVE  functionBinary'[call'[c].fn] = NoCall
      <4>1. c # d /\ pc[c] = pc'[c] /\ Active(c)
        BY <2>0, <3>1, <3>2 DEF Active
      <4>2. call[c].fn # call[d].fn
        BY <2>0, <4>1, OneCallOfLoop
      <4> QED
        BY <1>t, <2>0, <3>1, <3>2, <4>1, <4>2 DEF MissInv
    <3> QED
      BY <3>1, <3>2 DEF MissInv
  <2>5. CASE ~(ReadFunction(d) \/ ReadProgram(d) \/ CompileProgram(d) \/ CreateKernel(d)
               \/ CreateKernelFails(d))
    <3>1. /\ functionBinary' = functionBinary
          /\ pc'[d] = pc[d] \/ pc'[d] \notin {"readProgram", "compile", "createKernel"}
      BY <1>4, <1>t, <2>5 DEF HostStep, LoopIteration, LoopEnd, ReadFunctionOfNull, SetContext,
         SetGContext, Enqueue, EnqueueFails, CallFinish, FinishFails, FinishReturns,
         ReadProfile, Return
    <3> QED
      BY <2>1, <3>1 DEF MissInv
  <2> QED
    BY <2>2, <2>3, <2>4, <2>5
<1> QED
  BY <1>1, <1>2, <1>3, <1>4 DEF Next, Terminated

(* A program that offloads each loop from one thread creates its kernel     *)
(* once and keeps it, however often the driver refuses (gpu_apply,          *)
(* hetero.c:474-497).                                                       *)
THEOREM CacheCorrect ==
    ASSUME Exclusive PROVE Spec => CacheIsStable
<1>1. Init => MissInv
  BY DEF Init, MissInv
<1>2. TypeOK /\ KernelInv /\ MissInv /\ [Next]_vars => MissInv'
  BY CacheStep
<1>3. TypeOK /\ KernelInv /\ MissInv /\ [Next]_vars =>
          [\A f \in Functions : functionBinary[f] # NoCall =>
               functionBinary'[f] = functionBinary[f]]_vars
  BY CacheStep
<1>4. Spec => []TypeOK /\ []KernelInv
  BY TypeCorrect, KernelCorrect
<1> QED
  BY <1>1, <1>2, <1>3, <1>4, PTL DEF Spec, CacheIsStable
=============================================================================
