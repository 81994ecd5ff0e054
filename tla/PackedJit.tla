------------------------------ MODULE PackedJit ------------------------------
(***************************************************************************)
(* The packed JIT engine: the plan of the packed engine as native code.    *)
(* Within a function, which holds `Chunk` tasks, every arena word is       *)
(* loaded at most once: a gather takes it from the variable that holds the *)
(* word last loaded or stored.                                             *)
(***************************************************************************)
EXTENDS PackedEngine

CONSTANT Chunk \* CHUNK: tasks per function

VARIABLE cache \* word index -> the value its variable holds

jitVars == <<vars, cache>>

NoWords == [w \in {} |-> {}]

\* Every function starts with an empty cache; the capture belongs to the
\* last one.
Known == IF (pc - 1) % Chunk = 0 /\ pc \in DOMAIN plan.tasks THEN NoWords ELSE cache

\* What the code sees of the arena.
View == [w \in DOMAIN bits |-> IF w \in DOMAIN Known THEN Known[w] ELSE bits[w]]

\* The words a gather asks for: the second word of a funnel unless the
\* source is aligned.
Loads(stream) ==
  {WordOf(seg.src) : seg \in stream.funnels \cup stream.splats}
    \cup {WordOf(seg.src) + 1 : seg \in {f \in stream.funnels : Offset(f.src) # 0}}

TaskLoads(task) ==
  (UNION {Loads(task.streams[i]) : i \in 1 .. 3}) \cup {WordOf(p) : p \in ToSet(task.read.addr_pos)}

Caching(words) == [w \in DOMAIN Known \cup words |-> View[w]]

\* Mutant: a store does not update the variable of a loaded word.
StoreBehindCache ==
  /\ pc \in DOMAIN plan.tasks
  /\ LET task == plan.tasks[pc]
     IN  /\ bits' = [bits EXCEPT ![task.dst] = TaskWord(View, bits, task)]
         /\ cache' = Caching(TaskLoads(task))
  /\ pc' = pc + 1
  /\ UNCHANGED <<config, staging, outs>>

JitTask ==
  /\ pc \in DOMAIN plan.tasks
  /\ LET task == plan.tasks[pc]
         word == TaskWord(View, bits, task)
     IN  /\ bits' = [bits EXCEPT ![task.dst] = word]
         /\ cache' = [Caching(TaskLoads(task) \cup {task.dst}) EXCEPT ![task.dst] = word]
  /\ pc' = pc + 1
  /\ UNCHANGED <<config, staging, outs>>

JitCapture ==
  /\ pc = Len(plan.tasks) + 1
  /\ staging' = Written(View, plan.writes, Captured(View))
  /\ outs' = PlanOutputs(tape, plan, bits)
  /\ pc' = 0 /\ cache' = NoWords
  /\ UNCHANGED <<config, bits>>

JitStep == JitTask \/ JitCapture

JitInit == Init /\ cache = NoWords

JitNext ==
  \/ /\ \/ \E i \in InputIds(tape), value \in BOOLEAN : set_input(i, value)
        \/ reset
        \/ ClockEdge
     /\ UNCHANGED cache
  \/ JitStep

JitSpec == JitInit /\ [][JitNext]_jitVars /\ WF_jitVars(JitStep)

-----------------------------------------------------------------------------
\* "Caching the loaded/stored value per word can never observe a stale
\* state": a variable holds what its arena word holds, also where the word
\* was loaded, with a neighbour, before its own task had run.
CacheCoherent == \A w \in DOMAIN cache : cache[w] = bits[w]

\* "No gather reads a task's word before that task ran."
LoadsAfterTask ==
  \A j, k \in DOMAIN plan.tasks :
    plan.tasks[k].dst \in TaskLoads(plan.tasks[j]) => k < j
=============================================================================
