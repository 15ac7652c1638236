------------------------------ MODULE TeamProofs ------------------------------
(***************************************************************************)
(* Teams, from the parser to the end of the run, for any graph, any number *)
(* of workers and any callers of stop_run.                                 *)
(*                                                                         *)
(* First IInv is shown to be an inductive invariant of TeamRun, acyclic    *)
(* graphs or not. Steps fall into three kinds: those that only touch child *)
(* runs (the child's own task, and stop_run), those of one worker, and     *)
(* those of the parent. The same three kinds then show that the rows       *)
(* implement TeamContract, and those of the children RunContract, but for  *)
(* a child that a stop failed while its task was starting.                 *)
(*                                                                         *)
(* Then the parser: the search for a cycle, action by action, keeps its    *)
(* stack a path of the graph, the visited nodes closed under edges and     *)
(* free of cycles, and the nodes of every loop accounted for; from this it *)
(* accepts exactly what can be scheduled. Both together give TeamPipeline. *)
(***************************************************************************)
EXTENDS TeamPipeline, FiniteSetTheorems, SequenceTheorems, TLAPS

USE DEF Active, Ended, NodePoints, NodeEnded, parentVars, nodeVars, childVars, stopVars

-----------------------------------------------------------------------------
(* Cardinalities.                                                          *)

\* Any set of workers is finite.
LEMMA WorkersAreFinite ==
    ASSUME NEW S, S \subseteq Nodes
    PROVE  IsFiniteSet(S)
BY FS_Subset, TeamAssumption

\* Fewer workers than an admitted number are admitted.
LEMMA FewerFit ==
    ASSUME NEW S, NEW T, T \subseteq Nodes, S \subseteq T, Cardinality(T) <= MaxParallel
    PROVE  Cardinality(S) <= MaxParallel
<1>1. IsFiniteSet(T) /\ IsFiniteSet(S)
  BY WorkersAreFinite
<1>2. Cardinality(S) <= Cardinality(T)
  BY <1>1, FS_Subset
<1>3. Cardinality(S) \in Nat /\ Cardinality(T) \in Nat /\ MaxParallel \in Nat
  BY <1>1, FS_CardinalityType, TeamAssumption
<1> QED BY <1>2, <1>3

-----------------------------------------------------------------------------
(* Steps that only touch child runs.                                       *)

\* A child run's row changes only while it is active or, failed, about to run late;
\* its task is given up only while there is one, and with it that the run was late.
ChildrenMove ==
    \A m \in Nodes :
        /\ child'[m] # child[m] => child[m] \in Active \/ (child[m] = "failed" /\ m \in late')
        /\ ctask'[m] # ctask[m] => HasHandle(m)
        /\ m \in late => m \in late' \/ ctask'[m] \in {"done", "aborted"}

\* stop_run's branches move children so.
LEMMA StopMovesChild ==
    ASSUME TypeOK, MarkInv, NEW n \in Nodes,
           StopRefused(n) \/ FailsRow(n) \/ StopCancels(n) \/ StopWaited(n)
    PROVE  /\ child' \in [Nodes -> {"unborn"} \cup Active \cup Ended]
           /\ ctask' \in [Nodes -> {"none", "live", "cancelling", "done", "aborted"}]
           /\ UNCHANGED <<due, late>>
           /\ ChildrenMove /\ MarkInv'
<1>1. /\ child \in [Nodes -> {"unborn"} \cup Active \cup Ended]
      /\ ctask \in [Nodes -> {"none", "live", "cancelling", "done", "aborted"}]
  BY DEF TypeOK
<1>2. CASE StopRefused(n)
  BY <1>1, <1>2 DEF StopRefused, ChildrenMove, MarkInv, HasHandle, Active
<1>3. CASE FailsRow(n)
  BY <1>1, <1>3 DEF FailsRow, ChildrenMove, MarkInv, HasHandle, Active
<1>4. CASE StopCancels(n)
  BY <1>1, <1>4 DEF StopCancels, ChildrenMove, MarkInv, HasHandle, Active
<1>5. CASE StopWaited(n)
  BY <1>1, <1>5 DEF StopWaited, ChildrenMove, MarkInv, HasHandle, Active
<1> QED BY <1>2, <1>3, <1>4, <1>5

\* No child with a task appears when children only move.
LEMMA HandlesShrink ==
    ASSUME ChildrenMove
    PROVE  Handles' \subseteq Handles
BY DEF ChildrenMove, Handles, HasHandle, Active

\* What is left of the invariant when only children move.
LEMMA ChildrenMoveI ==
    ASSUME IInv, TypeOK', ChildrenMove, MarkInv',
           UNCHANGED <<edges, pc, verdict, outputs, wave, nodeVars>>,
           status' = "succeeded" => status = "succeeded",
           status' # status => pc = "done"
    PROVE  IInv'
<1>1. WavesInv'
  BY DEF IInv, WavesInv, WorkersSettleFirst, Predecessors
<1>2. OutcomeInv'
  BY DEF IInv, OutcomeInv
<1>3. WorkerInv'
  BY DEF IInv, WorkerInv, ChildrenMove, HasHandle, Active
<1>4. SemaphoreInv'
  <2>1. Holding' = Holding
    BY DEF Holding
  <2>2. Handles' \subseteq Handles /\ Handles \subseteq Nodes
    BY HandlesShrink DEF Handles
  <2>3. SemaphoreInv
    BY DEF IInv
  <2>4. ~StopTimeout => BoundedParallelism'
    <3>1. SUFFICES ASSUME ~StopTimeout
                   PROVE  BoundedParallelism'
      OBVIOUS
    <3>2. Cardinality(Handles) <= MaxParallel
      BY <2>3, <3>1 DEF SemaphoreInv, BoundedParallelism, Handles
    <3>3. Cardinality(Handles') <= MaxParallel
      BY <2>2, <3>2, FewerFit
    <3> QED BY <3>3 DEF BoundedParallelism, Handles
  <2> QED BY <2>1, <2>2, <2>3, <2>4 DEF SemaphoreInv
<1> QED BY <1>1, <1>2, <1>3, <1>4 DEF IInv

\* The steps of a child's task.
LEMMA ChildTaskI ==
    ASSUME IInv, NEW n \in Nodes, ChildReads(n) \/ ChildRuns(n) \/ ChildEnds(n) \/ ChildAborts(n)
    PROVE  IInv'
<1>1. /\ child \in [Nodes -> {"unborn"} \cup Active \cup Ended]
      /\ ctask \in [Nodes -> {"none", "live", "cancelling", "done", "aborted"}]
      /\ due \subseteq Nodes /\ late \subseteq Nodes
      /\ MarkInv
  BY DEF IInv, TypeOK
<1>2. UNCHANGED <<edges, parentVars, nodeVars, stopVars>>
  BY DEF ChildReads, ChildRuns, ChildEnds, ChildAborts
<1>3. /\ child' \in [Nodes -> {"unborn"} \cup Active \cup Ended]
      /\ ctask' \in [Nodes -> {"none", "live", "cancelling", "done", "aborted"}]
      /\ due' \subseteq Nodes /\ late' \subseteq Nodes
      /\ ChildrenMove /\ MarkInv'
  <2> USE DEF ChildrenMove, MarkInv, HasHandle, Active, Ended
  <2>1. CASE ChildReads(n)
    BY <1>1, <2>1 DEF ChildReads
  <2>2. CASE ChildRuns(n)
    BY <1>1, <2>2 DEF ChildRuns
  <2>3. CASE ChildEnds(n)
    BY <1>1, <2>3 DEF ChildEnds
  <2>4. CASE ChildAborts(n)
    BY <1>1, <2>4 DEF ChildAborts
  <2> QED BY <2>1, <2>2, <2>3, <2>4
<1>4. TypeOK'
  BY <1>2, <1>3 DEF IInv, TypeOK
<1> QED BY <1>2, <1>3, <1>4, ChildrenMoveI

\* stop_run on the parent up to its children, and on a child.
LEMMA StopChildrenI ==
    ASSUME IInv, NEW s \in Stoppers,
           \/ StopParentBegin(s) \/ StopChildEnds(s)
           \/ \E n \in Nodes : StopChildBegin(s, n) \/ StopDescend(s, n)
    PROVE  IInv'
<1>0. TypeOK /\ MarkInv
  BY DEF IInv
<1>1. UNCHANGED <<edges, parentVars, nodeVars>>
  BY DEF StopParentBegin, StopChildEnds, StopChildBegin, StopDescend
<1>2. \/ UNCHANGED childVars
      \/ \E n \in Nodes : StopRefused(n) \/ FailsRow(n) \/ StopCancels(n) \/ StopWaited(n)
  BY <1>0 DEF StopParentBegin, StopChildEnds, StopChildBegin, StopDescend, StopTurnsTo, TypeOK
<1>3. /\ child' \in [Nodes -> {"unborn"} \cup Active \cup Ended]
      /\ ctask' \in [Nodes -> {"none", "live", "cancelling", "done", "aborted"}]
      /\ UNCHANGED <<due, late>>
      /\ ChildrenMove /\ MarkInv'
  <2>1. CASE UNCHANGED childVars
    BY <1>0, <2>1 DEF TypeOK, ChildrenMove, MarkInv, HasHandle, childVars
  <2> QED BY <1>0, <1>2, <2>1, StopMovesChild
<1>4. /\ spc' \in [Stoppers -> {"idle", "descend", "child", "parent"}]
      /\ left' \in [Stoppers -> SUBSET Nodes]
      /\ target' \in [Stoppers -> Nodes \cup {None}]
      /\ blind' \subseteq Stoppers
  <2>0. /\ spc \in [Stoppers -> {"idle", "descend", "child", "parent"}]
        /\ left \in [Stoppers -> SUBSET Nodes]
        /\ target \in [Stoppers -> Nodes \cup {None}]
        /\ blind \subseteq Stoppers
    BY <1>0 DEF TypeOK
  <2>1. CASE StopParentBegin(s)
    <3>1. {n \in Nodes : child[n] # "unborn"} \in SUBSET Nodes
      OBVIOUS
    <3> QED BY <2>0, <2>1, <3>1 DEF StopParentBegin
  <2>2. CASE StopChildEnds(s)
    BY <2>0, <2>2 DEF StopChildEnds
  <2>3. ASSUME NEW n \in Nodes, StopChildBegin(s, n)
        PROVE  /\ spc' \in [Stoppers -> {"idle", "descend", "child", "parent"}]
               /\ left' \in [Stoppers -> SUBSET Nodes]
               /\ target' \in [Stoppers -> Nodes \cup {None}]
               /\ blind' \subseteq Stoppers
    BY <2>0, <2>3 DEF StopChildBegin, StopTurnsTo
  <2>4. ASSUME NEW n \in Nodes, StopDescend(s, n)
        PROVE  /\ spc' \in [Stoppers -> {"idle", "descend", "child", "parent"}]
               /\ left' \in [Stoppers -> SUBSET Nodes]
               /\ target' \in [Stoppers -> Nodes \cup {None}]
               /\ blind' \subseteq Stoppers
    BY <2>0, <2>4 DEF StopDescend, StopTurnsTo
  <2> QED BY <2>1, <2>2, <2>3, <2>4
<1>5. TypeOK'
  BY <1>0, <1>1, <1>3, <1>4 DEF TypeOK
<1> QED BY <1>1, <1>3, <1>5, ChildrenMoveI

\* stop_run's last part, which may write the parent's row itself.
LEMMA StopParentI ==
    ASSUME IInv, NEW s \in Stoppers, StopParent(s) \/ StopParentEnds(s)
    PROVE  IInv'
<1>0. TypeOK
  BY DEF IInv
<1>1. /\ UNCHANGED <<edges, pc, verdict, outputs, wave, nodeVars, childVars, left, target, blind>>
      /\ status' \in {status, "failed", "cancelled"}
  BY DEF StopParent, StopParentEnds
<1>2. thrown' \in BOOLEAN /\ spc' \in [Stoppers -> {"idle", "descend", "child", "parent"}]
  BY <1>0 DEF StopParent, StopParentEnds, TypeOK
<1>3. TypeOK'
  BY <1>0, <1>1, <1>2 DEF TypeOK
<1>4. ChildrenMove /\ MarkInv' /\ (status' = "succeeded" => status = "succeeded")
  BY <1>1 DEF ChildrenMove, IInv, MarkInv, HasHandle
<1>5. status' # status => pc = "done"
  BY DEF StopParent, StopParentEnds
<1> QED BY <1>1, <1>3, <1>4, <1>5, ChildrenMoveI

-----------------------------------------------------------------------------
(* Steps of one worker.                                                    *)

\* A worker that has begun and not ended comes to another point of its task.
WorkerMoves(n) ==
    /\ node[n] \notin NodeEnded \cup {"idle"}
    /\ node'[n] # "idle"
    /\ \A m \in Nodes : m # n => /\ node'[m] = node[m] /\ clean'[m] = clean[m]
                                 /\ child'[m] = child[m] /\ ctask'[m] = ctask[m]
    /\ UNCHANGED <<edges, parentVars, due, late>>

\* A moving worker belongs to the wave, which is not yet taken for settled.
LEMMA MovingInWave ==
    ASSUME TypeOK, WavesInv, NEW n \in Nodes, WorkerMoves(n)
    PROVE  n \in wave /\ n \notin outputs /\ pc \in {"waiting", "draining", "unwinding"}
<1>1. n \notin outputs /\ node[n] # "idle"
  BY DEF WavesInv, WorkerMoves
<1>2. pc \notin {"synthesis", "finishing", "done"}
  BY DEF WavesInv, WorkersSettleFirst, WorkerMoves
<1>3. pc # "schedule"
  BY <1>1 DEF WavesInv
<1>4. pc \in {"waiting", "draining", "unwinding"}
  BY <1>2, <1>3 DEF TypeOK
<1>5. n \in wave
  BY <1>1, <1>4 DEF WavesInv
<1> QED BY <1>1, <1>4, <1>5

\* It leaves the progress of the waves alone.
LEMMA WorkerWaves ==
    ASSUME TypeOK, WavesInv, OutcomeInv, NEW n \in Nodes, WorkerMoves(n)
    PROVE  WavesInv' /\ OutcomeInv'
<1>1. n \in wave /\ n \notin outputs /\ pc \in {"waiting", "draining", "unwinding"}
  BY MovingInWave
<1>2. \A m \in Nodes : m # n => node'[m] = node[m]
  BY DEF WorkerMoves
<1>3. UNCHANGED <<edges, parentVars>> /\ node[n] # "idle"
  BY DEF WorkerMoves
<1>4. outputs \subseteq Nodes
  BY DEF TypeOK
<1>5. \A m \in outputs' : node'[m] = "ok"
  BY <1>1, <1>2, <1>3, <1>4 DEF WavesInv
<1>6. \A m \in Nodes : node'[m] # "idle" => Predecessors(m)' \subseteq outputs'
  BY <1>2, <1>3 DEF WavesInv, Predecessors
<1>7. \A m \in Nodes \ (outputs' \cup wave') : pc \in {"waiting", "draining", "unwinding"} => node'[m] = "idle"
  BY <1>1, <1>2, <1>3 DEF WavesInv
<1>8. pc' \notin {"schedule", "synthesis", "finishing", "done"}
  BY <1>1, <1>3
<1>9. WavesInv'
  BY <1>3, <1>5, <1>6, <1>7, <1>8 DEF WavesInv, WorkersSettleFirst
<1>10. OutcomeInv'
  BY <1>3 DEF OutcomeInv
<1> QED BY <1>9, <1>10

\* Nor does it free another worker's place; its own it takes only by Acquire, and
\* its child gets a task only where no CancelledError is waiting for it.
LEMMA WorkerSemaphore ==
    ASSUME TypeOK, WavesInv, SemaphoreInv, NEW n \in Nodes, WorkerMoves(n),
           Cardinality(Holding') <= MaxParallel,
           nthrown' \in {nthrown, nthrown \ {n}},
           node'[n] \in {"queued", "starting", "committed"} =>
               n \notin nthrown /\ node[n] \in {"queued", "starting", "committed"},
           n \in Handles' => \/ n \in Handles
                             \/ node[n] = "committed" /\ n \notin nthrown,
           n \in Handles' => n \in Holding' \/ StopTimeout \/ n \in nthrown
    PROVE  SemaphoreInv'
<1>1. n \in wave /\ n \notin outputs /\ pc \in {"waiting", "draining", "unwinding"}
  BY MovingInWave
<1>2. \A m \in Nodes : m # n => /\ node'[m] = node[m]
                                /\ child'[m] = child[m] /\ ctask'[m] = ctask[m]
  BY DEF WorkerMoves
<1>3. pc' = pc
  BY DEF WorkerMoves
<1>4. \A m \in Nodes : m # n => /\ m \in Holding' <=> m \in Holding
                                /\ m \in Handles' <=> m \in Handles
                                /\ m \in nthrown' <=> m \in nthrown
  BY <1>2 DEF WorkerMoves, Holding, Handles, HasHandle
<1>5. Handles' \subseteq Nodes /\ Handles \subseteq Nodes /\ Holding \subseteq Nodes /\ Holding' \subseteq Nodes
  BY DEF Handles, Holding
<1>6. CASE pc = "waiting"
  <2>1. nthrown = {} /\ (~StopTimeout => Handles \subseteq Holding)
    BY <1>6 DEF SemaphoreInv
  <2>2. nthrown' = {}
    BY <2>1
  <2>3. ~StopTimeout => Handles' \subseteq Holding'
    BY <1>4, <1>5, <2>1
  <2>4. ~StopTimeout => Cardinality(Handles') <= MaxParallel
    BY <1>5, <2>3, FewerFit
  <2>5. ~StopTimeout => BoundedParallelism'
    BY <2>4 DEF BoundedParallelism, Handles
  <2> QED BY <1>3, <1>6, <2>2, <2>3, <2>5 DEF SemaphoreInv
<1>7. CASE pc \in {"draining", "unwinding"}
  <2>1. \A m \in Nodes : node[m] \in {"queued", "starting", "committed"} => m \in nthrown
    BY <1>7 DEF SemaphoreInv
  <2>2. \A m \in Nodes : node'[m] \in {"queued", "starting", "committed"} => m \in nthrown'
    BY <1>2, <1>4, <2>1
  <2>3. Handles' \subseteq Handles
    BY <1>4, <1>5, <2>1
  <2>4. ~StopTimeout => Cardinality(Handles) <= MaxParallel
    BY DEF SemaphoreInv, BoundedParallelism, Handles
  <2>5. ~StopTimeout => Cardinality(Handles') <= MaxParallel
    BY <1>5, <2>3, <2>4, FewerFit
  <2>6. ~StopTimeout => BoundedParallelism'
    BY <2>5 DEF BoundedParallelism, Handles
  <2> QED BY <1>3, <1>7, <2>2, <2>6 DEF SemaphoreInv
<1> QED BY <1>1, <1>6, <1>7

\* A worker that moves without taking a place leaves the semaphore's bound.
LEMMA HoldingShrinks ==
    ASSUME SemaphoreInv, NEW n \in Nodes, WorkerMoves(n), n \in Holding' => n \in Holding
    PROVE  Cardinality(Holding') <= MaxParallel
<1>1. \A m \in Nodes : m # n => node'[m] = node[m]
  BY DEF WorkerMoves
<1>2. Holding' \subseteq Holding /\ Holding \subseteq Nodes
  BY <1>1 DEF Holding
<1>3. Cardinality(Holding) <= MaxParallel
  BY DEF SemaphoreInv
<1> QED BY <1>2, <1>3, FewerFit

\* The other workers' part of WorkerInv.
LEMMA WorkerAt ==
    ASSUME WorkerInv, NEW n \in Nodes, WorkerMoves(n),
           node'[n] \in {"idle", "queued", "starting"} => child'[n] = "unborn",
           node'[n] \in {"idle", "queued", "starting", "committed"} => ctask'[n] = "none",
           node'[n] = "ok" => child'[n] = "succeeded",
           clean'[n] # "none" => node'[n] \in {"timing_out", "cancelling"}
    PROVE  WorkerInv'
<1>1. \A m \in Nodes : m # n => /\ node'[m] = node[m] /\ clean'[m] = clean[m]
                                /\ child'[m] = child[m] /\ ctask'[m] = ctask[m]
  BY DEF WorkerMoves
<1> QED BY <1>1 DEF WorkerInv

\* A worker's step is none of a child that is about to run.
LEMMA WorkerMark ==
    ASSUME MarkInv, NEW n \in Nodes, WorkerMoves(n),
           n \in due => child'[n] = child[n] /\ ctask'[n] = ctask[n]
    PROVE  MarkInv'
<1>1. \A m \in Nodes : m \in due => child'[m] = child[m] /\ ctask'[m] = ctask[m]
  BY DEF WorkerMoves
<1> QED BY <1>1 DEF MarkInv, WorkerMoves, HasHandle

\* A worker takes a free place.
LEMMA AcquireI ==
    ASSUME IInv, NEW n \in Nodes, Acquire(n)
    PROVE  IInv'
<1>0. TypeOK /\ WavesInv /\ OutcomeInv /\ WorkerInv /\ MarkInv /\ SemaphoreInv
  BY DEF IInv
<1>1. /\ node[n] = "queued" /\ n \notin nthrown /\ Cardinality(Holding) < MaxParallel
      /\ UNCHANGED <<edges, parentVars, clean, nthrown, childVars, stopVars>>
  BY DEF Acquire
<1>2. node' \in [Nodes -> NodePoints] /\ node'[n] = "starting"
      /\ \A m \in Nodes : m # n => node'[m] = node[m]
  BY <1>0 DEF Acquire, NodeGoes, TypeOK
<1>3. WorkerMoves(n)
  BY <1>1, <1>2 DEF WorkerMoves
<1>4. TypeOK'
  BY <1>0, <1>1, <1>2 DEF TypeOK
<1>5. Cardinality(Holding') <= MaxParallel
  <2>1. n \notin Holding /\ Holding' = Holding \cup {n}
    BY <1>1, <1>2 DEF Holding
  <2>2. IsFiniteSet(Holding)
    BY WorkersAreFinite DEF Holding
  <2>3. Cardinality(Holding') = Cardinality(Holding) + 1
    BY <2>1, <2>2, FS_AddElement
  <2>4. Cardinality(Holding) \in Nat /\ MaxParallel \in Nat
    BY <2>2, FS_CardinalityType, TeamAssumption
  <2> QED BY <1>1, <2>3, <2>4
<1>6. n \notin Handles'
  BY <1>0, <1>1 DEF Handles, HasHandle, WorkerInv
<1>7. SemaphoreInv'
  BY <1>0, <1>1, <1>2, <1>3, <1>5, <1>6, WorkerSemaphore
<1>8. WorkerInv'
  BY <1>0, <1>1, <1>2, <1>3, WorkerAt DEF WorkerInv
<1>9. WavesInv' /\ OutcomeInv'
  BY <1>0, <1>3, WorkerWaves
<1>10. MarkInv'
  BY <1>0, <1>1, <1>3, WorkerMark
<1> QED BY <1>4, <1>7, <1>8, <1>9, <1>10 DEF IInv

\* _start_run commits a child or refuses one.
LEMMA ChildStartsI ==
    ASSUME IInv, NEW n \in Nodes, ChildCommitted(n) \/ ChildRefused(n)
    PROVE  IInv'
<1>0. TypeOK /\ WavesInv /\ OutcomeInv /\ WorkerInv /\ MarkInv /\ SemaphoreInv
  BY DEF IInv
<1>1. /\ node[n] = "starting" /\ n \notin nthrown
      /\ UNCHANGED <<edges, parentVars, clean, nthrown, ctask, due, late, stopVars>>
  BY DEF ChildCommitted, ChildRefused
<1>2. node' \in [Nodes -> NodePoints] /\ node'[n] \in {"committed", "error"}
      /\ \A m \in Nodes : m # n => node'[m] = node[m]
  BY <1>0 DEF ChildCommitted, ChildRefused, NodeGoes, TypeOK
<1>3. child' \in [Nodes -> {"unborn"} \cup Active \cup Ended]
      /\ \A m \in Nodes : m # n => child'[m] = child[m]
  BY <1>0 DEF ChildCommitted, ChildRefused, TypeOK
<1>4. WorkerMoves(n)
  BY <1>1, <1>2, <1>3 DEF WorkerMoves
<1>5. TypeOK'
  BY <1>0, <1>1, <1>2, <1>3 DEF TypeOK
<1>6. ctask'[n] = "none" /\ clean'[n] = "none"
  BY <1>0, <1>1 DEF WorkerInv
<1>7. Cardinality(Holding') <= MaxParallel
  <2>1. n \in Holding
    BY <1>1 DEF Holding
  <2> QED BY <1>0, <1>4, <2>1, HoldingShrinks
<1>8. n \notin Handles'
  BY <1>6 DEF Handles, HasHandle
<1>9. SemaphoreInv'
  BY <1>0, <1>1, <1>2, <1>4, <1>7, <1>8, WorkerSemaphore
<1>10. WorkerInv'
  BY <1>0, <1>2, <1>4, <1>6, WorkerAt
<1>11. WavesInv' /\ OutcomeInv'
  BY <1>0, <1>4, WorkerWaves
<1>12. MarkInv'
  <2>1. n \notin due
    BY <1>0, <1>1 DEF MarkInv, HasHandle, WorkerInv
  <2> QED BY <1>0, <1>4, <2>1, WorkerMark
<1> QED BY <1>5, <1>9, <1>10, <1>11, <1>12 DEF IInv

\* The child's task is registered.
LEMMA ChildRegisteredI ==
    ASSUME IInv, NEW n \in Nodes, ChildRegistered(n)
    PROVE  IInv'
<1>0. TypeOK /\ WavesInv /\ OutcomeInv /\ WorkerInv /\ MarkInv /\ SemaphoreInv
  BY DEF IInv
<1>1. /\ node[n] = "committed" /\ n \notin nthrown
      /\ UNCHANGED <<edges, parentVars, clean, nthrown, child, due, late, stopVars>>
  BY DEF ChildRegistered
<1>2. node' \in [Nodes -> NodePoints] /\ node'[n] = "awaiting"
      /\ \A m \in Nodes : m # n => node'[m] = node[m]
  BY <1>0 DEF ChildRegistered, NodeGoes, TypeOK
<1>3. ctask' \in [Nodes -> {"none", "live", "cancelling", "done", "aborted"}]
      /\ \A m \in Nodes : m # n => ctask'[m] = ctask[m]
  BY <1>0 DEF ChildRegistered, TypeOK
<1>4. WorkerMoves(n)
  BY <1>1, <1>2, <1>3 DEF WorkerMoves
<1>5. TypeOK'
  BY <1>0, <1>1, <1>2, <1>3 DEF TypeOK
<1>6. clean'[n] = "none"
  BY <1>0, <1>1 DEF WorkerInv
<1>7. n \in Holding /\ n \in Holding'
  BY <1>1, <1>2 DEF Holding
<1>8. Cardinality(Holding') <= MaxParallel
  BY <1>0, <1>4, <1>7, HoldingShrinks
<1>9. SemaphoreInv'
  BY <1>0, <1>1, <1>2, <1>4, <1>7, <1>8, WorkerSemaphore
<1>10. WorkerInv'
  BY <1>0, <1>2, <1>4, <1>6, WorkerAt
<1>11. WavesInv' /\ OutcomeInv'
  BY <1>0, <1>4, WorkerWaves
<1>12. MarkInv'
  <2>1. n \notin due
    BY <1>0, <1>1 DEF MarkInv, HasHandle, WorkerInv
  <2> QED BY <1>0, <1>4, <2>1, WorkerMark
<1> QED BY <1>5, <1>9, <1>10, <1>11, <1>12 DEF IInv

\* CancelledError before run_child's try block.
LEMMA NodeCancelledEarlyI ==
    ASSUME IInv, NEW n \in Nodes, NodeCancelledEarly(n)
    PROVE  IInv'
<1>0. TypeOK /\ WavesInv /\ OutcomeInv /\ WorkerInv /\ MarkInv /\ SemaphoreInv
  BY DEF IInv
<1>1. /\ node[n] \in {"queued", "starting", "committed"} /\ nthrown' = nthrown \ {n}
      /\ UNCHANGED <<edges, parentVars, clean, ctask, due, late, stopVars>>
  BY DEF NodeCancelledEarly
<1>2. node' \in [Nodes -> NodePoints] /\ node'[n] = "cancelled"
      /\ \A m \in Nodes : m # n => node'[m] = node[m]
  BY <1>0 DEF NodeCancelledEarly, NodeGoes, TypeOK
<1>3. child' \in [Nodes -> {"unborn"} \cup Active \cup Ended]
      /\ \A m \in Nodes : m # n => child'[m] = child[m]
  BY <1>0 DEF NodeCancelledEarly, TypeOK
<1>4. WorkerMoves(n)
  BY <1>1, <1>2, <1>3 DEF WorkerMoves
<1>5. TypeOK'
  BY <1>0, <1>1, <1>2, <1>3 DEF TypeOK
<1>6. ctask'[n] = "none" /\ clean'[n] = "none"
  BY <1>0, <1>1 DEF WorkerInv
<1>7. Cardinality(Holding') <= MaxParallel
  <2>1. n \notin Holding'
    BY <1>2 DEF Holding
  <2> QED BY <1>0, <1>4, <2>1, HoldingShrinks
<1>8. n \notin Handles'
  BY <1>6 DEF Handles, HasHandle
<1>9. SemaphoreInv'
  BY <1>0, <1>1, <1>2, <1>4, <1>7, <1>8, WorkerSemaphore
<1>10. WorkerInv'
  BY <1>0, <1>2, <1>4, <1>6, WorkerAt
<1>11. WavesInv' /\ OutcomeInv'
  BY <1>0, <1>4, WorkerWaves
<1>12. MarkInv'
  <2>1. n \notin due
    BY <1>0, <1>1 DEF MarkInv, HasHandle, WorkerInv
  <2> QED BY <1>0, <1>4, <2>1, WorkerMark
<1> QED BY <1>5, <1>9, <1>10, <1>11, <1>12 DEF IInv

\* The await of the child's task ends: with its result, by timeout or by a
\* CancelledError.
LEMMA AwaitEndsI ==
    ASSUME IInv, NEW n \in Nodes, ChildReturned(n) \/ ChildTimesOut(n) \/ NodeCancelled(n)
    PROVE  IInv'
<1>0. TypeOK /\ WavesInv /\ OutcomeInv /\ WorkerInv /\ MarkInv /\ SemaphoreInv
  BY DEF IInv
<1>1. /\ node[n] = "awaiting" /\ nthrown' \in {nthrown, nthrown \ {n}}
      /\ UNCHANGED <<edges, parentVars, childVars, stopVars>>
  BY DEF ChildReturned, ChildTimesOut, NodeCancelled
<1>2. node' \in [Nodes -> NodePoints] /\ node'[n] \in {"ok", "error", "timing_out", "cancelling"}
      /\ \A m \in Nodes : m # n => node'[m] = node[m]
  BY <1>0 DEF ChildReturned, ChildTimesOut, NodeCancelled, NodeGoes, TypeOK
<1>3. clean' \in [Nodes -> {"none", "check", "wait"}]
      /\ \A m \in Nodes : m # n => clean'[m] = clean[m]
  BY <1>0 DEF ChildReturned, ChildTimesOut, NodeCancelled, TypeOK
<1>4. WorkerMoves(n)
  BY <1>1, <1>2, <1>3 DEF WorkerMoves
<1>5. nthrown' \subseteq Nodes
  BY <1>0, <1>1 DEF TypeOK
<1>6. TypeOK'
  BY <1>0, <1>1, <1>2, <1>3, <1>5 DEF TypeOK
<1>7. ASSUME ChildReturned(n)
      PROVE  SemaphoreInv' /\ WorkerInv'
  <2>1. /\ node'[n] \in {"ok", "error"}
        /\ node'[n] = "ok" => child[n] = "succeeded"
        /\ ctask'[n] = "done" /\ clean' = clean
    BY <1>0, <1>7 DEF ChildReturned, NodeGoes, TypeOK
  <2>2. clean'[n] = "none" /\ n \notin Handles'
    BY <1>0, <1>1, <2>1 DEF WorkerInv, Handles, HasHandle
  <2>3. n \notin Holding'
    BY <2>1 DEF Holding
  <2>4. Cardinality(Holding') <= MaxParallel
    BY <1>0, <1>4, <2>3, HoldingShrinks
  <2>5. SemaphoreInv'
    BY <1>0, <1>1, <2>1, <1>4, <2>2, <2>4, WorkerSemaphore
  <2>6. WorkerInv'
    BY <1>0, <1>1, <1>4, <2>1, <2>2, WorkerAt
  <2> QED BY <2>5, <2>6
<1>8. ASSUME ChildTimesOut(n) \/ NodeCancelled(n)
      PROVE  SemaphoreInv' /\ WorkerInv'
  <2>1. node'[n] \in {"timing_out", "cancelling"}
    BY <1>0, <1>8 DEF ChildTimesOut, NodeCancelled, NodeGoes, TypeOK
  <2>2. n \in Holding /\ n \in Holding'
    BY <1>1, <2>1 DEF Holding
  <2>3. Cardinality(Holding') <= MaxParallel
    BY <1>0, <1>4, <2>2, HoldingShrinks
  <2>4. Handles' = Handles
    BY <1>1 DEF Handles, HasHandle
  <2>5. SemaphoreInv'
    BY <1>0, <1>1, <2>1, <1>4, <2>2, <2>3, <2>4, WorkerSemaphore
  <2>6. WorkerInv'
    BY <1>0, <1>4, <2>1, WorkerAt
  <2> QED BY <2>5, <2>6
<1>9. WavesInv' /\ OutcomeInv'
  BY <1>0, <1>4, WorkerWaves
<1>10. MarkInv'
  BY <1>0, <1>1, <1>4, WorkerMark
<1> QED BY <1>6, <1>7, <1>8, <1>9, <1>10 DEF IInv

\* A second CancelledError drives a worker off its cleanup.
LEMMA NodeCancelledAgainI ==
    ASSUME IInv, NEW n \in Nodes, NodeCancelledAgain(n)
    PROVE  IInv'
<1>0. TypeOK /\ WavesInv /\ OutcomeInv /\ WorkerInv /\ MarkInv /\ SemaphoreInv
  BY DEF IInv
<1>1. /\ n \in nthrown /\ nthrown' = nthrown \ {n}
      /\ node[n] \in {"timing_out", "cancelling"}
      /\ UNCHANGED <<edges, parentVars, childVars, stopVars>>
  BY <1>0 DEF NodeCancelledAgain, WorkerInv
<1>2. node' \in [Nodes -> NodePoints] /\ node'[n] = "cancelled"
      /\ \A m \in Nodes : m # n => node'[m] = node[m]
  BY <1>0 DEF NodeCancelledAgain, NodeGoes, TypeOK
<1>3. clean' \in [Nodes -> {"none", "check", "wait"}] /\ clean'[n] = "none"
      /\ \A m \in Nodes : m # n => clean'[m] = clean[m]
  BY <1>0 DEF NodeCancelledAgain, TypeOK
<1>4. WorkerMoves(n)
  BY <1>1, <1>2, <1>3 DEF WorkerMoves
<1>5. TypeOK'
  BY <1>0, <1>1, <1>2, <1>3 DEF TypeOK
<1>6. Cardinality(Holding') <= MaxParallel
  <2>1. n \notin Holding'
    BY <1>2 DEF Holding
  <2> QED BY <1>0, <1>4, <2>1, HoldingShrinks
<1>7. Handles' = Handles
  BY <1>1 DEF Handles, HasHandle
<1>8. SemaphoreInv'
  BY <1>0, <1>1, <1>2, <1>4, <1>6, <1>7, WorkerSemaphore
<1>9. WorkerInv'
  BY <1>0, <1>2, <1>3, <1>4, WorkerAt
<1>10. WavesInv' /\ OutcomeInv'
  BY <1>0, <1>4, WorkerWaves
<1>11. MarkInv'
  BY <1>0, <1>1, <1>4, WorkerMark
<1> QED BY <1>5, <1>8, <1>9, <1>10, <1>11 DEF IInv

\* stop_run on a child touches no other child.
LEMMA StopTouchesOne ==
    ASSUME TypeOK, NEW n \in Nodes, NEW m \in Nodes, m # n,
           StopRefused(n) \/ FailsRow(n) \/ StopCancels(n) \/ StopWaited(n)
    PROVE  child'[m] = child[m] /\ ctask'[m] = ctask[m]
BY DEF TypeOK, StopRefused, FailsRow, StopCancels, StopWaited

\* When run_child's cleanup is done and stops are waited for to the end, the child
\* is no longer active or no longer has a task.
LEMMA CleanupReleases ==
    ASSUME TypeOK, NEW n \in Nodes,
           StopRefused(n) \/ FailsRow(n) \/ StopWaited(n)
    PROVE  n \in Handles' => StopTimeout
<1>0. child \in [Nodes -> {"unborn"} \cup Active \cup Ended] /\ ctask \in [Nodes -> {"none", "live", "cancelling", "done", "aborted"}]
  BY DEF TypeOK
<1>1. CASE StopRefused(n)
  BY <1>0, <1>1 DEF StopRefused, Handles
<1>2. CASE FailsRow(n)
  BY <1>0, <1>2 DEF FailsRow, Handles
<1>3. CASE StopWaited(n)
  BY <1>0, <1>3 DEF StopWaited, Handles, HasHandle
<1> QED BY <1>1, <1>2, <1>3

\* The except clauses of run_child.
LEMMA CleanupI ==
    ASSUME IInv, NEW n \in Nodes, Cleanup(n)
    PROVE  IInv'
<1>0. TypeOK /\ WavesInv /\ OutcomeInv /\ WorkerInv /\ MarkInv /\ SemaphoreInv
  BY DEF IInv
<1>1. /\ clean[n] # "none" /\ node[n] \in {"timing_out", "cancelling"}
      /\ UNCHANGED <<edges, parentVars, nthrown, stopVars>>
  BY <1>0 DEF Cleanup, WorkerInv
<1>2. StopRefused(n) \/ FailsRow(n) \/ StopCancels(n) \/ StopWaited(n)
  BY DEF Cleanup
<1>3. /\ child' \in [Nodes -> {"unborn"} \cup Active \cup Ended]
      /\ ctask' \in [Nodes -> {"none", "live", "cancelling", "done", "aborted"}]
      /\ UNCHANGED <<due, late>>
      /\ ChildrenMove /\ MarkInv'
      /\ \A m \in Nodes : m # n => child'[m] = child[m] /\ ctask'[m] = ctask[m]
  BY <1>0, <1>2, StopMovesChild, StopTouchesOne
<1>4. /\ node' \in [Nodes -> NodePoints] /\ clean' \in [Nodes -> {"none", "check", "wait"}]
      /\ \A m \in Nodes : m # n => node'[m] = node[m] /\ clean'[m] = clean[m]
      /\ \/ node' = node
         \/ /\ node'[n] \in {"error", "cancelled"} /\ clean'[n] = "none"
            /\ StopRefused(n) \/ FailsRow(n) \/ StopWaited(n)
  <2>0. node \in [Nodes -> NodePoints] /\ clean \in [Nodes -> {"none", "check", "wait"}]
    BY <1>0 DEF TypeOK
  <2>1. CASE CleanupDone(n) /\ (StopRefused(n) \/ FailsRow(n) \/ StopWaited(n))
    BY <2>0, <2>1 DEF CleanupDone, NodeGoes
  <2>2. CASE clean' = [clean EXCEPT ![n] = "wait"] /\ UNCHANGED node
    BY <2>0, <2>2
  <2> QED BY <2>1, <2>2 DEF Cleanup
<1>5. WorkerMoves(n)
  BY <1>1, <1>3, <1>4 DEF WorkerMoves
<1>6. TypeOK'
  BY <1>0, <1>1, <1>3, <1>4 DEF TypeOK
<1>7. n \in Holding
  BY <1>1 DEF Holding
<1>8. Cardinality(Holding') <= MaxParallel
  BY <1>0, <1>5, <1>7, HoldingShrinks
<1>9. Handles' \subseteq Handles
  BY <1>3, HandlesShrink
<1>10. n \in Handles' => n \in Holding' \/ StopTimeout
  <2>1. CASE node' = node
    BY <1>1, <2>1 DEF Holding
  <2>2. CASE StopRefused(n) \/ FailsRow(n) \/ StopWaited(n)
    BY <1>0, <2>2, CleanupReleases
  <2> QED BY <1>4, <2>1, <2>2
<1>11. node'[n] \in {"timing_out", "cancelling", "error", "cancelled"}
  BY <1>1, <1>4
<1>12. SemaphoreInv'
  BY <1>0, <1>1, <1>5, <1>8, <1>9, <1>10, <1>11, WorkerSemaphore
<1>13. WorkerInv'
  BY <1>0, <1>1, <1>4, <1>5, <1>11, WorkerAt
<1>14. WavesInv' /\ OutcomeInv'
  BY <1>0, <1>5, WorkerWaves
<1> QED BY <1>3, <1>6, <1>12, <1>13, <1>14 DEF IInv

-----------------------------------------------------------------------------
(* Steps of the parent.                                                    *)

\* _run_graph queues the workers whose predecessors have been collected.
LEMMA ScheduleI ==
    ASSUME IInv, Schedule
    PROVE  IInv'
<1>0. TypeOK /\ WavesInv /\ OutcomeInv /\ WorkerInv /\ MarkInv /\ SemaphoreInv
  BY DEF IInv
<1>1. /\ pc = "schedule"
      /\ UNCHANGED <<edges, status, verdict, thrown, outputs, clean, nthrown, childVars, stopVars>>
  BY DEF Schedule
<1>2. /\ \A n \in Nodes \ outputs : node[n] = "idle"
      /\ \A n \in outputs : n \in Nodes /\ node[n] = "ok"
  BY <1>0, <1>1 DEF WavesInv, TypeOK
<1>3. Handles' = Handles
  BY <1>1 DEF Handles, HasHandle
<1>4. nthrown = {} /\ (~StopTimeout => Handles \subseteq Holding)
  BY <1>0, <1>1 DEF SemaphoreInv
<1>5. Holding = {}
  BY <1>2 DEF Holding
<1>6. ~StopTimeout => BoundedParallelism'
  BY <1>0, <1>1 DEF SemaphoreInv, BoundedParallelism, Handles, HasHandle
<1>9. MarkInv'
  BY <1>0, <1>1 DEF MarkInv, HasHandle
<1>7. CASE Pending = {} /\ pc' = "synthesis" /\ UNCHANGED <<wave, node>>
  <2>1. outputs = Nodes
    BY <1>0, <1>7 DEF Pending, TypeOK
  <2>2. TypeOK'
    BY <1>0, <1>1, <1>7 DEF TypeOK
  <2>3. \A n \in Nodes : node'[n] = "ok"
    BY <1>2, <1>7, <2>1
  <2>4. WavesInv'
    BY <1>0, <1>1, <1>7, <2>1, <2>3 DEF WavesInv, WorkersSettleFirst, Predecessors
  <2>5. OutcomeInv'
    BY <1>0, <1>1, <1>7 DEF OutcomeInv
  <2>6. WorkerInv'
    BY <1>0, <1>1, <1>7 DEF WorkerInv
  <2>7. SemaphoreInv'
    <3>1. Holding' = Holding
      BY <1>7 DEF Holding
    <3> QED BY <1>0, <1>1, <1>3, <1>4, <1>6, <1>7, <3>1 DEF SemaphoreInv
  <2> QED BY <1>9, <2>2, <2>4, <2>5, <2>6, <2>7 DEF IInv
<1>8. CASE /\ wave' = Ready
           /\ node' = [n \in Nodes |-> IF n \in Ready THEN "queued" ELSE node[n]]
           /\ pc' = "waiting"
  <2>1. Ready \subseteq Nodes \ outputs
    BY DEF Ready, Pending
  <2>2. TypeOK'
    BY <1>0, <1>1, <1>8, <2>1 DEF TypeOK
  <2>3. /\ \A n \in Ready : node[n] = "idle" /\ node'[n] = "queued" /\ Predecessors(n) \subseteq outputs
        /\ \A n \in Nodes \ Ready : node'[n] = node[n]
    BY <1>2, <1>8, <2>1 DEF Ready
  <2>4. WavesInv'
    <3>1. \A n \in outputs' : node'[n] = "ok"
      BY <1>1, <1>2, <2>1, <2>3
    <3>2. \A n \in Nodes : node'[n] # "idle" => Predecessors(n)' \subseteq outputs'
      BY <1>0, <1>1, <2>3 DEF WavesInv, Predecessors
    <3>3. \A n \in Nodes \ (outputs' \cup wave') : node'[n] = "idle"
      BY <1>1, <1>2, <1>8, <2>3
    <3> QED BY <1>8, <3>1, <3>2, <3>3 DEF WavesInv, WorkersSettleFirst
  <2>5. OutcomeInv'
    BY <1>0, <1>1, <1>8 DEF OutcomeInv
  <2>6. WorkerInv'
    BY <1>0, <1>1, <2>3 DEF WorkerInv
  <2>7. SemaphoreInv'
    <3>1. Holding' = Holding
      BY <1>5, <1>2, <2>3 DEF Holding
    <3> QED BY <1>0, <1>1, <1>3, <1>4, <1>6, <1>8, <3>1 DEF SemaphoreInv
  <2> QED BY <1>9, <2>2, <2>4, <2>5, <2>6, <2>7 DEF IInv
<1> QED BY <1>7, <1>8 DEF Schedule

\* A step of the parent that leaves its workers where they are and keeps the
\* semaphore's account.
LEMMA ParentMoves ==
    ASSUME IInv, UNCHANGED <<node, clean, childVars>>, TypeOK', WavesInv', OutcomeInv',
           \/ pc' \in {"schedule", "waiting", "synthesis"} /\ nthrown' = nthrown
              /\ pc \in {"schedule", "waiting", "synthesis"}
           \/ pc' \in {"draining", "unwinding"} /\ Unfinished \subseteq nthrown'
              /\ pc \in {"waiting", "draining", "unwinding"}
           \/ pc' \in {"finishing", "done"}
    PROVE  IInv'
<1>0. TypeOK /\ WavesInv /\ OutcomeInv /\ WorkerInv /\ MarkInv /\ SemaphoreInv
  BY DEF IInv
<1>1. Holding' = Holding /\ Handles' = Handles
  BY DEF Holding, Handles, HasHandle
<1>2. WorkerInv' /\ MarkInv'
  BY <1>0 DEF WorkerInv, MarkInv, HasHandle
<1>3. ~StopTimeout => BoundedParallelism'
  BY <1>0 DEF SemaphoreInv, BoundedParallelism, Handles, HasHandle
<1>4. CASE pc' \in {"schedule", "waiting", "synthesis"} /\ nthrown' = nthrown
           /\ pc \in {"schedule", "waiting", "synthesis"}
  BY <1>0, <1>1, <1>2, <1>3, <1>4 DEF SemaphoreInv, IInv
<1>5. CASE pc' \in {"draining", "unwinding"} /\ Unfinished \subseteq nthrown'
           /\ pc \in {"waiting", "draining", "unwinding"}
  <2>1. ASSUME NEW n \in Nodes, node'[n] \in {"queued", "starting", "committed"}
        PROVE  n \in nthrown'
    <3>1. node[n] \in {"queued", "starting", "committed"}
      BY <2>1
    <3>2. n \in wave
      BY <1>0, <1>5, <3>1 DEF WavesInv
    <3> QED BY <1>5, <3>1, <3>2 DEF Unfinished
  <2> QED BY <1>0, <1>1, <1>2, <1>3, <1>5, <2>1 DEF SemaphoreInv, IInv
<1>6. CASE pc' \in {"finishing", "done"}
  BY <1>0, <1>1, <1>2, <1>3, <1>6 DEF SemaphoreInv, IInv
<1> QED BY <1>4, <1>5, <1>6

\* _run_ready's wait returns: the wave's outputs are collected, or what is left of
\* it is cancelled.
LEMMA WaveReturnsI ==
    ASSUME IInv, WaveReturns
    PROVE  IInv'
<1>0. TypeOK /\ WavesInv /\ OutcomeInv /\ WorkerInv /\ MarkInv /\ SemaphoreInv
  BY DEF IInv
<1>1. /\ pc = "waiting" /\ (Unfinished = {} \/ \E n \in wave : node[n] = "error")
      /\ UNCHANGED <<edges, status, thrown, wave, node, clean, childVars, stopVars>>
  BY DEF WaveReturns
<1>2. \A n \in Nodes \ (outputs \cup wave) : node[n] = "idle"
  BY <1>0, <1>1 DEF WavesInv
<1>3. CASE /\ Failures = {}
           /\ outputs' = outputs \cup wave
           /\ pc' = "schedule"
           /\ UNCHANGED <<verdict, nthrown>>
  <2>1. \A n \in wave : node[n] = "ok"
    <3>1. Unfinished = {}
      BY <1>1, <1>3 DEF Failures
    <3> QED BY <1>3, <3>1 DEF Failures, Unfinished
  <2>2. TypeOK'
    BY <1>0, <1>1, <1>3 DEF TypeOK
  <2>3. outputs \subseteq outputs' /\ outputs' \subseteq Nodes
    BY <1>0, <1>3 DEF TypeOK
  <2>4. WavesInv'
    <3>1. \A n \in outputs' : node'[n] = "ok"
      BY <1>0, <1>1, <1>3, <2>1 DEF WavesInv
    <3>2. \A n \in Nodes : node'[n] # "idle" => Predecessors(n)' \subseteq outputs'
      BY <1>0, <1>1, <2>3 DEF WavesInv, Predecessors
    <3>3. \A n \in Nodes \ outputs' : node'[n] = "idle"
      BY <1>1, <1>2, <1>3
    <3> QED BY <1>3, <3>1, <3>2, <3>3 DEF WavesInv, WorkersSettleFirst
  <2>5. OutcomeInv'
    <3>1. "succeeded" \in {verdict', status'} => outputs' = Nodes
      BY <1>0, <1>1, <1>3, <2>3 DEF OutcomeInv
    <3> QED BY <1>0, <1>1, <1>3, <3>1 DEF OutcomeInv
  <2> QED BY <1>1, <1>3, <2>2, <2>4, <2>5, ParentMoves
<1>4. CASE /\ \E n \in Failures : verdict' = IF node[n] = "cancelled" THEN "cancelled" ELSE "failed"
           /\ nthrown' = nthrown \cup Unfinished
           /\ pc' = "draining"
           /\ UNCHANGED outputs
  <2>1. verdict' \in {"cancelled", "failed"}
    BY <1>4
  <2>2. Unfinished \subseteq Nodes /\ nthrown' \subseteq Nodes
    BY <1>0, <1>4 DEF Unfinished, TypeOK
  <2>3. TypeOK'
    BY <1>0, <1>1, <1>4, <2>1, <2>2 DEF TypeOK
  <2>4. WavesInv'
    BY <1>0, <1>1, <1>2, <1>4 DEF WavesInv, WorkersSettleFirst, Predecessors
  <2>5. OutcomeInv'
    BY <1>0, <1>1, <1>4, <2>1 DEF OutcomeInv
  <2> QED BY <1>1, <1>4, <2>3, <2>4, <2>5, ParentMoves
<1> QED BY <1>3, <1>4 DEF WaveReturns

\* A CancelledError thrown at the parent cancels the workers.
LEMMA ParentCancelledI ==
    ASSUME IInv, ParentCancelled
    PROVE  IInv'
<1>0. TypeOK /\ WavesInv /\ OutcomeInv
  BY DEF IInv
<1>1. /\ pc \in {"waiting", "draining", "unwinding"} /\ thrown' = FALSE
      /\ nthrown' = nthrown \cup Unfinished /\ pc' = "unwinding"
      /\ UNCHANGED <<edges, status, verdict, outputs, wave, node, clean, childVars, stopVars>>
  BY DEF ParentCancelled
<1>2. Unfinished \subseteq Nodes /\ nthrown' \subseteq Nodes
  BY <1>0, <1>1 DEF Unfinished, TypeOK
<1>3. TypeOK'
  BY <1>0, <1>1, <1>2 DEF TypeOK
<1>4. WavesInv'
  BY <1>0, <1>1 DEF WavesInv, WorkersSettleFirst, Predecessors
<1>5. OutcomeInv'
  BY <1>0, <1>1 DEF OutcomeInv
<1> QED BY <1>1, <1>3, <1>4, <1>5, ParentMoves

\* The gather has all workers: nothing of the wave is still at it.
LEMMA GatheredI ==
    ASSUME IInv, Drained \/ Unwound
    PROVE  IInv'
<1>0. TypeOK /\ WavesInv /\ OutcomeInv
  BY DEF IInv
<1>1. /\ pc \in {"draining", "unwinding"} /\ Unfinished = {} /\ pc' = "finishing"
      /\ UNCHANGED <<edges, status, thrown, outputs, wave, nodeVars, childVars, stopVars>>
      /\ verdict' = "cancelled" \/ (pc = "draining" /\ verdict' = verdict)
  BY DEF Drained, Unwound, Conclude
<1>2. \A n \in Nodes : node'[n] \in NodeEnded \cup {"idle"}
  BY <1>0, <1>1 DEF WavesInv, Unfinished
<1>3. verdict' \in Ended /\ ("succeeded" \in {verdict', status'} => outputs' = Nodes)
  BY <1>0, <1>1 DEF OutcomeInv
<1>4. TypeOK'
  BY <1>0, <1>1, <1>3 DEF TypeOK
<1>5. WavesInv'
  BY <1>0, <1>1, <1>2 DEF WavesInv, WorkersSettleFirst, Predecessors
<1>6. OutcomeInv'
  BY <1>0, <1>1, <1>3 DEF OutcomeInv
<1> QED BY <1>1, <1>4, <1>5, <1>6, ParentMoves

\* The parent decides its outcome and writes it.
LEMMA ParentEndsI ==
    ASSUME IInv, Synthesis \/ ParentFinish
    PROVE  IInv'
<1>0. TypeOK /\ WavesInv /\ OutcomeInv
  BY DEF IInv
<1>1. /\ pc \in {"synthesis", "finishing"} /\ pc' \in {"finishing", "done"} /\ thrown' = FALSE
      /\ UNCHANGED <<edges, outputs, wave, nodeVars, childVars, stopVars>>
  BY DEF Synthesis, ParentFinish, Conclude
<1>2. /\ verdict' \in Ended /\ status' \in {"running"} \cup Ended
      /\ "succeeded" \in {verdict', status'} => outputs' = Nodes
  <2>1. CASE Synthesis
    <3>1. outputs = Nodes /\ outputs' = Nodes /\ status' = status /\ verdict' \in Ended
      BY <1>0, <2>1 DEF Synthesis, Conclude, WavesInv
    <3> QED BY <1>0, <3>1 DEF TypeOK
  <2>2. CASE ParentFinish
    <3>1. verdict' = verdict /\ verdict \in Ended /\ outputs' = outputs /\ status' \in {verdict, status}
      BY <1>0, <2>2 DEF ParentFinish, OutcomeInv
    <3> QED BY <1>0, <3>1 DEF TypeOK, OutcomeInv
  <2> QED BY <2>1, <2>2
<1>3. TypeOK'
  BY <1>0, <1>1, <1>2 DEF TypeOK
<1>4. WavesInv'
  <2>1. \A n \in Nodes : node'[n] \in NodeEnded \cup {"idle"}
    BY <1>0, <1>1 DEF WavesInv, WorkersSettleFirst
  <2> QED BY <1>0, <1>1, <2>1 DEF WavesInv, WorkersSettleFirst, Predecessors
<1>5. OutcomeInv'
  <2>1. status' \in Ended => pc' = "done"
    BY <1>0, <1>1 DEF OutcomeInv, Synthesis, ParentFinish, TypeOK
  <2> QED BY <1>2, <2>1 DEF OutcomeInv
<1> QED BY <1>1, <1>3, <1>4, <1>5, ParentMoves

-----------------------------------------------------------------------------
(* The theorems.                                                           *)

\* No worker has begun when a run starts, whatever its graph.
LEMMA FreshI ==
    ASSUME edges \subseteq Nodes \X Nodes, Fresh
    PROVE  IInv
<1>1. TypeOK
  BY DEF Fresh, TypeOK
<1>2. WavesInv /\ OutcomeInv
  BY TeamAssumption DEF Fresh, WavesInv, OutcomeInv, WorkersSettleFirst
<1>3. WorkerInv /\ MarkInv
  BY DEF Fresh, WorkerInv, MarkInv
<1>4. Holding = {} /\ Handles = {}
  BY DEF Fresh, Holding, Handles, HasHandle
<1>5. Cardinality({}) = 0 /\ MaxParallel \in Nat
  BY FS_EmptySet, TeamAssumption
<1>6. Cardinality(Holding) <= MaxParallel /\ BoundedParallelism /\ Handles = {}
  BY <1>4, <1>5 DEF BoundedParallelism
<1>7. SemaphoreInv
  BY <1>6 DEF Fresh, SemaphoreInv
<1> QED BY <1>1, <1>2, <1>3, <1>7 DEF IInv

\* The graphs of the parser are sets of edges.
LEMMA GraphsAreEdges ==
    ASSUME edges \in Graphs
    PROVE  edges \subseteq Nodes \X Nodes
<1>1. edges \in SUBSET {e \in Nodes \X Nodes : e[1] # e[2]}
  BY DEF Graphs
<1> QED BY <1>1, Zenon

\* What the invariant says of the outcome and of the order of the workers.
LEMMA InvPromises ==
    ASSUME IInv
    PROVE  SuccessIsComplete /\ DependenciesFirst /\ WorkersSettleFirst
<1>1. SuccessIsComplete
  <2>1. SUFFICES ASSUME status = "succeeded", NEW n \in Nodes
                 PROVE  child[n] = "succeeded"
    BY DEF SuccessIsComplete
  <2>2. n \in outputs
    BY <2>1 DEF IInv, OutcomeInv
  <2> QED BY <2>2 DEF IInv, WavesInv, WorkerInv
<1>2. DependenciesFirst
  <2>1. SUFFICES ASSUME NEW n \in Nodes, child[n] # "unborn", NEW m \in Predecessors(n)
                 PROVE  child[m] = "succeeded"
    BY DEF DependenciesFirst
  <2>2. node[n] # "idle"
    BY <2>1 DEF IInv, WorkerInv
  <2>3. m \in outputs /\ m \in Nodes
    BY <2>1, <2>2 DEF IInv, WavesInv, Predecessors
  <2> QED BY <2>3 DEF IInv, WavesInv, WorkerInv
<1>3. WorkersSettleFirst
  BY DEF IInv, WavesInv
<1> QED BY <1>1, <1>2, <1>3

\* Every step of the run, of its workers, its children and its stoppers keeps IInv.
LEMMA NextI ==
    ASSUME IInv, [Next]_vars
    PROVE  IInv'
<1>1. CASE UNCHANGED vars
  <2>1. TypeOK'
    BY <1>1 DEF IInv, TypeOK, vars
  <2>2. ChildrenMove /\ MarkInv'
    BY <1>1 DEF ChildrenMove, IInv, MarkInv, HasHandle, vars
  <2> QED BY <1>1, <2>1, <2>2, ChildrenMoveI DEF vars
<1>2. CASE ParentStep
  <2>1. CASE Schedule \/ WaveReturns \/ ParentCancelled
    BY <2>1, ScheduleI, WaveReturnsI, ParentCancelledI
  <2>2. CASE Drained \/ Unwound
    BY <2>2, GatheredI
  <2>3. CASE Synthesis \/ ParentFinish
    BY <2>3, ParentEndsI
  <2> QED BY <1>2, <2>1, <2>2, <2>3 DEF ParentStep
<1>3. ASSUME NEW n \in Nodes, NodeStep(n)
      PROVE  IInv'
  BY <1>3, AcquireI, ChildStartsI, ChildRegisteredI, NodeCancelledEarlyI, AwaitEndsI,
     NodeCancelledAgainI, CleanupI DEF NodeStep
<1>4. ASSUME NEW n \in Nodes, ChildReads(n) \/ ChildRuns(n) \/ ChildEnds(n) \/ ChildAborts(n)
      PROVE  IInv'
  BY <1>4, ChildTaskI
<1>5. ASSUME NEW s \in Stoppers, \/ StopParentBegin(s) \/ StopStep(s)
                                 \/ \E n \in Nodes : StopChildBegin(s, n)
      PROVE  IInv'
  BY <1>5, StopChildrenI, StopParentI DEF StopStep
<1> QED BY <1>1, <1>2, <1>3, <1>4, <1>5 DEF Next

\* The invariant of a team run.
THEOREM Invariance == Spec => []IInv
<1>1. Init => IInv
  BY FreshI, GraphsAreEdges DEF Init
<1>2. IInv /\ [Next]_vars => IInv'
  BY NextI
<1> QED BY <1>1, <1>2, PTL DEF Spec

\* A team run succeeds only on the work of all its workers: each of its child runs
\* succeeded, whoever was stopped or timed out on the way.
THEOREM SuccessTakesAll == Spec => []SuccessIsComplete
BY InvPromises, Invariance, PTL

\* No child run exists before the runs of all the workers it depends on succeeded.
THEOREM DependenciesComeFirst == Spec => []DependenciesFirst
BY InvPromises, Invariance, PTL

\* The parent writes its outcome when no worker is still at it.
THEOREM WorkersSettle == Spec => []WorkersSettleFirst
BY InvPromises, Invariance, PTL

\* The semaphore admits orchestration_max_parallel workers, whatever is cancelled and
\* however long a cancellation takes.
THEOREM SemaphoreHolds == Spec => [](Cardinality(Holding) <= MaxParallel)
<1>1. IInv => Cardinality(Holding) <= MaxParallel
  BY DEF IInv, SemaphoreInv
<1> QED BY <1>1, Invariance, PTL

\* When a stop is waited for to the end, no more child runs than that are active and
\* have a task, those left behind by a second CancelledError included, those that run
\* although a stop failed them first aside.
THEOREM ParallelismIsBounded == ASSUME ~StopTimeout PROVE Spec => []BoundedParallelism
<1>1. IInv => BoundedParallelism
  BY DEF IInv, SemaphoreInv
<1> QED BY <1>1, Invariance, PTL

\* No step of a run changes its graph.
LEMMA GraphStays ==
    ASSUME [Next]_vars
    PROVE  edges' = edges
<1>1. CASE UNCHANGED vars
  BY <1>1 DEF vars
<1>2. CASE ParentStep
  BY <1>2 DEF ParentStep, Schedule, WaveReturns, Drained, ParentCancelled, Unwound, Synthesis, ParentFinish
<1>3. ASSUME NEW n \in Nodes, NodeStep(n) \/ ChildReads(n) \/ ChildRuns(n) \/ ChildEnds(n) \/ ChildAborts(n)
      PROVE  edges' = edges
  BY <1>3 DEF NodeStep, Acquire, ChildCommitted, ChildRefused, ChildRegistered, NodeCancelledEarly,
     ChildReturned, ChildTimesOut, NodeCancelled, NodeCancelledAgain, Cleanup, ChildReads, ChildRuns, ChildEnds,
     ChildAborts
<1>4. ASSUME NEW s \in Stoppers, \/ StopParentBegin(s) \/ StopStep(s)
                                 \/ \E n \in Nodes : StopChildBegin(s, n)
      PROVE  edges' = edges
  BY <1>4 DEF StopParentBegin, StopStep, StopDescend, StopChildEnds, StopParent, StopParentEnds,
     StopChildBegin, StopTurnsTo
<1> QED BY <1>1, <1>2, <1>3, <1>4 DEF Next

\* A graph without a cycle has a worker to schedule while some are left.
LEMMA GraphsSchedule ==
    ASSUME edges \in Graphs
    PROVE  Pending = {} \/ Ready # {}
<1>1. SUFFICES ASSUME Pending # {}
               PROVE  Ready # {}
  OBVIOUS
<1>2. Acyclic(edges) /\ Pending \in SUBSET Nodes
  BY DEF Graphs, Pending
<1>3. PICK n \in Pending : \A m \in Pending : <<m, n>> \notin edges
  BY <1>1, <1>2 DEF Acyclic
<1>4. Predecessors(n) \subseteq outputs
  BY <1>3 DEF Predecessors, Pending
<1> QED BY <1>3, <1>4 DEF Ready

\* A graph accepted by parse_team_graph always has a worker to schedule while some
\* are left, so the branch of _run_graph that gives up is never taken.
THEOREM AlwaysSchedulable == Spec => [](pc = "schedule" => Pending = {} \/ Ready # {})
<1>1. Init => edges \in Graphs
  BY DEF Init
<1>2. edges \in Graphs /\ [Next]_vars => (edges \in Graphs)'
  BY GraphStays DEF Graphs, Acyclic
<1>3. edges \in Graphs => (pc = "schedule" => Pending = {} \/ Ready # {})
  BY GraphsSchedule
<1> QED BY <1>1, <1>2, <1>3, PTL DEF Spec

\* What may happen to the outcome of a child run: a failed one is run late.
OutcomeStands(n) ==
    child[n] \in Ended =>
        child'[n] = child[n] \/ (child[n] = "failed" /\ child'[n] = "running" /\ n \in due \ due')

\* A child run that has succeeded or was cancelled stays so under every later stop,
\* and a failed one changes only by the write of _mark_running, in a task that had
\* read the row before it was failed: what the parent collected of it stays true.
THEOREM ChildOutcomesStand == Spec => [][\A n \in Nodes : OutcomeStands(n)]_vars
<1>1. ASSUME IInv, [Next]_vars, NEW n \in Nodes, child[n] \in Ended
      PROVE  OutcomeStands(n)
  <2>0. TypeOK /\ WorkerInv /\ MarkInv
    BY <1>1 DEF IInv
  <2>1. CASE UNCHANGED child
    BY <2>1 DEF OutcomeStands
  <2>2. ASSUME NEW m \in Nodes,
               StopRefused(m) \/ FailsRow(m) \/ StopCancels(m) \/ StopWaited(m)
        PROVE  child'[n] = child[n]
    BY <1>1, <2>0, <2>2 DEF StopRefused, FailsRow, StopCancels, StopWaited, TypeOK
  <2>3. ASSUME NEW m \in Nodes, ChildReads(m) \/ ChildEnds(m) \/ ChildAborts(m)
        PROVE  child'[n] = child[n]
    BY <1>1, <2>0, <2>3 DEF ChildReads, ChildEnds, ChildAborts, TypeOK
  <2>9. ASSUME NEW m \in Nodes, ChildRuns(m)
        PROVE  OutcomeStands(n)
    BY <1>1, <2>0, <2>9 DEF ChildRuns, OutcomeStands, MarkInv, TypeOK
  <2>4. ASSUME NEW m \in Nodes, ChildCommitted(m) \/ NodeCancelledEarly(m)
        PROVE  child'[n] = child[n]
    BY <1>1, <2>0, <2>4 DEF ChildCommitted, NodeCancelledEarly, TypeOK, WorkerInv
  <2>5. ASSUME NEW m \in Nodes, NodeStep(m)
        PROVE  child'[n] = child[n]
    BY <2>2, <2>4, <2>5 DEF NodeStep, Acquire, ChildRefused, ChildRegistered, ChildReturned,
       ChildTimesOut, NodeCancelled, NodeCancelledAgain, Cleanup
  <2>6. ASSUME NEW s \in Stoppers, \/ StopParentBegin(s) \/ StopStep(s)
                                   \/ \E m \in Nodes : StopChildBegin(s, m)
        PROVE  child'[n] = child[n]
    BY <2>0, <2>2, <2>6 DEF StopParentBegin, StopStep, StopDescend, StopChildEnds, StopParent,
       StopParentEnds, StopChildBegin, StopTurnsTo, TypeOK
  <2>7. CASE ParentStep
    BY <2>1, <2>7 DEF ParentStep, Schedule, WaveReturns, Drained, ParentCancelled, Unwound, Synthesis, ParentFinish
  <2>8. CASE UNCHANGED vars
    BY <2>1, <2>8 DEF vars
  <2> QED BY <1>1, <2>3, <2>5, <2>6, <2>7, <2>8, <2>9 DEF Next, OutcomeStands
<1>2. IInv /\ [Next]_vars => [\A n \in Nodes : OutcomeStands(n)]_vars
  BY <1>1 DEF OutcomeStands
<1> QED BY <1>2, Invariance, PTL DEF Spec

-----------------------------------------------------------------------------
(* A team run is never stuck.                                              *)

\* No step takes a worker, a child's row or a child's task back.
GoesForward ==
    \A n \in Nodes :
        /\ node[n] # "idle" => node'[n] # "idle"
        /\ child[n] # "unborn" => child'[n] # "unborn"
        /\ ctask[n] # "none" => ctask'[n] # "none"
        /\ ctask[n] \in {"cancelling", "done", "aborted"} => ctask'[n] \in {"cancelling", "done", "aborted"}

\* stop_run's branches do not.
LEMMA StopGoesForward ==
    ASSUME TypeOK, NEW m \in Nodes,
           StopRefused(m) \/ FailsRow(m) \/ StopCancels(m) \/ StopWaited(m)
    PROVE  \A n \in Nodes :
               /\ child[n] # "unborn" => child'[n] # "unborn"
               /\ ctask[n] # "none" => ctask'[n] # "none"
               /\ ctask[n] \in {"cancelling", "done", "aborted"} => ctask'[n] \in {"cancelling", "done", "aborted"}
<1>1. /\ child \in [Nodes -> {"unborn"} \cup Active \cup Ended]
      /\ ctask \in [Nodes -> {"none", "live", "cancelling", "done", "aborted"}]
  BY DEF TypeOK
<1>2. CASE StopRefused(m)
  BY <1>1, <1>2 DEF StopRefused
<1>3. CASE FailsRow(m)
  BY <1>1, <1>3 DEF FailsRow
<1>4. CASE StopCancels(m)
  BY <1>1, <1>4 DEF StopCancels, HasHandle
<1>5. CASE StopWaited(m)
  BY <1>1, <1>5 DEF StopWaited
<1> QED BY <1>2, <1>3, <1>4, <1>5

\* Nor does any other step.
LEMMA StepsGoForward ==
    ASSUME IInv, [Next]_vars
    PROVE  GoesForward
<1>0. /\ TypeOK /\ WorkerInv
      /\ node \in [Nodes -> NodePoints]
      /\ child \in [Nodes -> {"unborn"} \cup Active \cup Ended]
      /\ ctask \in [Nodes -> {"none", "live", "cancelling", "done", "aborted"}]
  BY DEF IInv, TypeOK
<1>1. CASE UNCHANGED <<node, child, ctask>>
  BY <1>1 DEF GoesForward
<1>2. CASE ParentStep
  <2>1. CASE Schedule
    BY <1>0, <1>1, <2>1 DEF Schedule, GoesForward
  <2> QED BY <1>1, <1>2, <2>1 DEF ParentStep, WaveReturns, Drained, ParentCancelled, Unwound, Synthesis,
          ParentFinish
<1>3. ASSUME NEW m \in Nodes, NodeStep(m)
      PROVE  GoesForward
  <2>1. CASE Cleanup(m)
    <3>1. StopRefused(m) \/ FailsRow(m) \/ StopCancels(m) \/ StopWaited(m)
      BY <2>1 DEF Cleanup
    <3>2. \A n \in Nodes : node[n] # "idle" => node'[n] # "idle"
      BY <1>0, <2>1 DEF Cleanup, CleanupDone, NodeGoes
    <3> QED BY <1>0, <3>1, <3>2, StopGoesForward DEF GoesForward
  <2>2. CASE Acquire(m) \/ ChildCommitted(m) \/ ChildRefused(m) \/ ChildRegistered(m)
    BY <1>0, <2>2 DEF Acquire, ChildCommitted, ChildRefused, ChildRegistered, NodeGoes, WorkerInv, GoesForward
  <2>3. CASE NodeCancelledEarly(m) \/ ChildReturned(m)
    BY <1>0, <2>3 DEF NodeCancelledEarly, ChildReturned, NodeGoes, GoesForward
  <2>4. CASE ChildTimesOut(m) \/ NodeCancelled(m) \/ NodeCancelledAgain(m)
    BY <1>0, <2>4 DEF ChildTimesOut, NodeCancelled, NodeCancelledAgain, NodeGoes, GoesForward
  <2> QED BY <1>3, <2>1, <2>2, <2>3, <2>4 DEF NodeStep
<1>4. ASSUME NEW m \in Nodes, ChildReads(m) \/ ChildRuns(m) \/ ChildEnds(m) \/ ChildAborts(m)
      PROVE  GoesForward
  BY <1>0, <1>4 DEF ChildReads, ChildRuns, ChildEnds, ChildAborts, GoesForward
<1>5. ASSUME NEW s \in Stoppers, \/ StopParentBegin(s) \/ StopStep(s)
                                 \/ \E m \in Nodes : StopChildBegin(s, m)
      PROVE  GoesForward
  <2>1. UNCHANGED node
    BY <1>5 DEF StopParentBegin, StopStep, StopDescend, StopChildEnds, StopParent, StopParentEnds,
       StopChildBegin, StopTurnsTo
  <2>2. \/ UNCHANGED childVars
        \/ \E m \in Nodes : StopRefused(m) \/ FailsRow(m) \/ StopCancels(m) \/ StopWaited(m)
    BY <1>0, <1>5 DEF StopParentBegin, StopStep, StopDescend, StopChildEnds, StopParent, StopParentEnds,
       StopChildBegin, StopTurnsTo, TypeOK
  <2> QED BY <1>0, <1>1, <2>1, <2>2, StopGoesForward DEF GoesForward
<1> QED BY <1>1, <1>2, <1>3, <1>4, <1>5 DEF Next, vars

\* What a worker waits for stays there while the worker does not move.
LEMMA WorkerKeepsWaiting ==
    ASSUME NEW n \in Nodes, WorkerWaits(n), GoesForward, node'[n] = node[n], clean'[n] = clean[n]
    PROVE  WorkerWaits(n)'
BY DEF WorkerWaits, GoesForward

\* And what a caller waits for.
LEMMA CallerKeepsWaiting ==
    ASSUME TypeOK, NEW s \in Stoppers, CallerWaits(s), GoesForward,
           spc'[s] = spc[s], left'[s] = left[s], target'[s] = target[s], (s \in blind') = (s \in blind)
    PROVE  CallerWaits(s)'
<1>1. left[s] \subseteq Nodes /\ target[s] \in Nodes \cup {None}
  BY DEF TypeOK
<1> QED BY <1>1 DEF CallerWaits, GoesForward

\* A worker moves to a place where it has something to wait for.
LEMMA WorkerWaitsI ==
    ASSUME IInv, NEW n \in Nodes, WorkerWaits(n), NodeStep(n)
    PROVE  WorkerWaits(n)'
<1>0. /\ node \in [Nodes -> NodePoints]
      /\ clean \in [Nodes -> {"none", "check", "wait"}]
      /\ child \in [Nodes -> {"unborn"} \cup Active \cup Ended]
      /\ ctask \in [Nodes -> {"none", "live", "cancelling", "done", "aborted"}]
  BY DEF IInv, TypeOK
<1>1. clean[n] # "none" => node[n] \in {"timing_out", "cancelling"}
  BY DEF IInv, WorkerInv
<1>2. CASE Acquire(n) \/ ChildRefused(n) \/ ChildReturned(n)
  BY <1>0, <1>1, <1>2 DEF Acquire, ChildRefused, ChildReturned, NodeGoes, WorkerWaits
<1>3. CASE ChildCommitted(n) \/ ChildRegistered(n) \/ NodeCancelledEarly(n)
  BY <1>0, <1>1, <1>3 DEF ChildCommitted, ChildRegistered, NodeCancelledEarly, NodeGoes, WorkerWaits
<1>4. CASE ChildTimesOut(n) \/ NodeCancelled(n) \/ NodeCancelledAgain(n)
  BY <1>0, <1>1, <1>4 DEF ChildTimesOut, NodeCancelled, NodeCancelledAgain, NodeGoes, WorkerWaits
<1>5. CASE Cleanup(n)
  <2>1. CASE CleanupDone(n)
    BY <1>0, <2>1 DEF CleanupDone, NodeGoes, WorkerWaits
  <2>2. CASE clean[n] = "check" /\ StopCancels(n) /\ clean' = [clean EXCEPT ![n] = "wait"] /\ UNCHANGED node
    BY <1>0, <1>1, <2>2 DEF StopCancels, WorkerWaits
  <2> QED BY <1>5, <2>1, <2>2 DEF Cleanup
<1> QED BY <1>2, <1>3, <1>4, <1>5 DEF NodeStep

\* A caller waits only for a task that it has cancelled, or that had ended.
LEMMA CallerWaitsI ==
    ASSUME IInv, NEW s \in Stoppers, CallerWaits(s), GoesForward,
           \/ StopParentBegin(s) \/ StopStep(s)
           \/ \E m \in Nodes : StopChildBegin(s, m)
    PROVE  CallerWaits(s)'
<1>0. /\ spc \in [Stoppers -> {"idle", "descend", "child", "parent"}]
      /\ left \in [Stoppers -> SUBSET Nodes]
      /\ target \in [Stoppers -> Nodes \cup {None}] /\ blind \subseteq Stoppers
      /\ ctask \in [Nodes -> {"none", "live", "cancelling", "done", "aborted"}]
  BY DEF IInv, TypeOK
<1>1. CASE StopParentBegin(s)
  BY <1>0, <1>1 DEF StopParentBegin, CallerWaits, GoesForward
<1>2. CASE StopParent(s) \/ StopParentEnds(s)
  BY <1>0, <1>2 DEF StopParent, StopParentEnds, CallerWaits, GoesForward
<1>3. CASE StopChildEnds(s)
  BY <1>0, <1>3 DEF StopChildEnds, CallerWaits, GoesForward
<1>6. ASSUME NEW m \in Nodes, StopTurnsTo(s, m)
      PROVE  target'[s] = m /\ m # None /\ (s \in blind' \/ ctask'[m] = "cancelling")
  BY <1>0, <1>6, TeamAssumption DEF StopTurnsTo, StopCancels
<1>4. ASSUME NEW m \in Nodes, StopDescend(s, m)
      PROVE  CallerWaits(s)'
  <2>1. \A n \in left'[s] : child'[n] # "unborn"
    BY <1>0, <1>4 DEF StopDescend, CallerWaits, GoesForward
  <2>2. CASE UNCHANGED <<target, blind>>
    BY <1>0, <1>4, <2>1, <2>2 DEF StopDescend, CallerWaits, GoesForward
  <2>3. CASE StopTurnsTo(s, m)
    BY <1>4, <1>6, <2>1, <2>3 DEF StopDescend, CallerWaits
  <2> QED BY <1>4, <2>2, <2>3 DEF StopDescend
<1>5. ASSUME NEW m \in Nodes, StopChildBegin(s, m)
      PROVE  CallerWaits(s)'
  <2>1. \A n \in left'[s] : child'[n] # "unborn"
    BY <1>0, <1>5 DEF StopChildBegin, CallerWaits, GoesForward
  <2> QED BY <1>5, <1>6, <2>1 DEF StopChildBegin, CallerWaits
<1> QED BY <1>1, <1>2, <1>3, <1>4, <1>5 DEF StopStep

\* Every step keeps it so that whoever waits has something to wait for.
LEMMA WaitsI ==
    ASSUME IInv, WaitsInv, [Next]_vars
    PROVE  WaitsInv'
<1>0. /\ TypeOK /\ GoesForward
      /\ node \in [Nodes -> NodePoints] /\ clean \in [Nodes -> {"none", "check", "wait"}]
      /\ wave \subseteq Nodes
  BY StepsGoForward DEF IInv, TypeOK
<1>1. \A n \in wave' : node'[n] # "idle"
  <2>1. CASE wave' = wave
    BY <1>0, <2>1 DEF WaitsInv, GoesForward
  <2>2. CASE Schedule
    BY <1>0, <2>1, <2>2 DEF Schedule, Ready, Pending
  <2>3. wave' = wave \/ Schedule
    BY DEF Next, ParentStep, WaveReturns, Drained, ParentCancelled, Unwound, Synthesis, ParentFinish,
       NodeStep, Acquire, ChildCommitted, ChildRefused, ChildRegistered, NodeCancelledEarly, ChildReturned,
       ChildTimesOut, NodeCancelled, NodeCancelledAgain, Cleanup, ChildReads, ChildRuns, ChildEnds, ChildAborts,
       StopParentBegin, StopStep, StopDescend, StopChildEnds, StopParent, StopParentEnds, StopChildBegin, StopTurnsTo, vars
  <2> QED BY <2>1, <2>2, <2>3
<1>2. ASSUME NEW n \in Nodes
      PROVE  WorkerWaits(n)'
  <2>0. WorkerWaits(n)
    BY DEF WaitsInv
  <2>1. CASE node'[n] = node[n] /\ clean'[n] = clean[n]
    BY <1>0, <2>0, <2>1, WorkerKeepsWaiting
  <2>2. CASE NodeStep(n)
    BY <2>0, <2>2, WorkerWaitsI
  <2>3. ASSUME NEW m \in Nodes, m # n, NodeStep(m)
        PROVE  node'[n] = node[n] /\ clean'[n] = clean[n]
    BY <1>0, <2>3 DEF NodeStep, Acquire, ChildCommitted, ChildRefused, ChildRegistered, NodeCancelledEarly,
       ChildReturned, ChildTimesOut, NodeCancelled, NodeCancelledAgain, Cleanup, CleanupDone, NodeGoes
  <2>4. CASE ParentStep
    <3>1. CASE Schedule /\ n \in Ready
      <4>1. node'[n] = "queued" /\ clean'[n] = clean[n]
        BY <1>0, <3>1 DEF Schedule, Ready
      <4>2. clean[n] = "none"
        <5>1. pc = "schedule" /\ n \in Nodes \ outputs
          BY <3>1 DEF Schedule, Ready, Pending
        <5>2. node[n] = "idle"
          BY <5>1 DEF IInv, WavesInv
        <5> QED BY <5>2 DEF IInv, WorkerInv
      <4> QED BY <4>1, <4>2 DEF WorkerWaits
    <3>2. CASE Schedule /\ n \notin Ready
      BY <1>0, <2>1, <3>2 DEF Schedule
    <3>3. CASE ~Schedule
      BY <2>1, <2>4, <3>3 DEF ParentStep, WaveReturns, Drained, ParentCancelled, Unwound, Synthesis, ParentFinish
    <3> QED BY <3>1, <3>2, <3>3
  <2>5. CASE UNCHANGED <<node, clean>>
    BY <2>1, <2>5
  <2>6. ASSUME NEW m \in Nodes, ChildReads(m) \/ ChildRuns(m) \/ ChildEnds(m) \/ ChildAborts(m)
        PROVE  UNCHANGED <<node, clean>>
    BY <2>6 DEF ChildReads, ChildRuns, ChildEnds, ChildAborts
  <2>7. ASSUME NEW s \in Stoppers, \/ StopParentBegin(s) \/ StopStep(s)
                                   \/ \E m \in Nodes : StopChildBegin(s, m)
        PROVE  UNCHANGED <<node, clean>>
    BY <2>7 DEF StopParentBegin, StopStep, StopDescend, StopChildEnds, StopParent, StopParentEnds,
       StopChildBegin, StopTurnsTo
  <2>8. CASE UNCHANGED vars
    BY <2>5, <2>8 DEF vars
  <2> QED BY <2>1, <2>2, <2>3, <2>4, <2>5, <2>6, <2>7, <2>8 DEF Next
<1>3. ASSUME NEW s \in Stoppers
      PROVE  CallerWaits(s)'
  <2>0. CallerWaits(s)
    BY DEF WaitsInv
  <2>1. CASE /\ spc'[s] = spc[s] /\ left'[s] = left[s] /\ target'[s] = target[s]
             /\ (s \in blind') = (s \in blind)
    BY <1>0, <2>0, <2>1, CallerKeepsWaiting
  <2>2. CASE \/ StopParentBegin(s) \/ StopStep(s)
             \/ \E m \in Nodes : StopChildBegin(s, m)
    BY <1>0, <2>0, <2>2, CallerWaitsI
  <2>3. ASSUME NEW r \in Stoppers, r # s, \/ StopParentBegin(r) \/ StopStep(r)
                                          \/ \E m \in Nodes : StopChildBegin(r, m)
        PROVE  /\ spc'[s] = spc[s] /\ left'[s] = left[s] /\ target'[s] = target[s]
               /\ (s \in blind') = (s \in blind)
    BY <1>0, <2>3 DEF StopParentBegin, StopStep, StopDescend, StopChildEnds, StopParent, StopParentEnds,
       StopChildBegin, StopTurnsTo, TypeOK
  <2>4. CASE UNCHANGED stopVars
    BY <2>1, <2>4
  <2>5. ASSUME NEW m \in Nodes, NodeStep(m) \/ ChildReads(m) \/ ChildRuns(m) \/ ChildEnds(m) \/ ChildAborts(m)
        PROVE  UNCHANGED stopVars
    BY <2>5 DEF NodeStep, Acquire, ChildCommitted, ChildRefused, ChildRegistered, NodeCancelledEarly,
       ChildReturned, ChildTimesOut, NodeCancelled, NodeCancelledAgain, Cleanup, ChildReads, ChildRuns, ChildEnds,
       ChildAborts
  <2>6. CASE ParentStep
    BY <2>4, <2>6 DEF ParentStep, Schedule, WaveReturns, Drained, ParentCancelled, Unwound, Synthesis,
       ParentFinish
  <2>7. CASE UNCHANGED vars
    BY <2>4, <2>7 DEF vars
  <2> QED BY <2>1, <2>2, <2>3, <2>4, <2>5, <2>6, <2>7 DEF Next
<1> QED BY <1>1, <1>2, <1>3 DEF WaitsInv

\* Before the first step nobody waits.
LEMMA FreshWaits ==
    ASSUME Fresh
    PROVE  WaitsInv
BY DEF Fresh, WaitsInv, WorkerWaits, CallerWaits

\* One who holds a place in the semaphore can go on.
LEMMA HolderMayStep ==
    ASSUME IInv, NEW n \in Nodes, WorkerWaits(n), n \in Holding
    PROVE  WorkerMayStep(n)
<1>1. clean[n] \in {"none", "check", "wait"}
  BY DEF IInv, TypeOK
<1> QED BY <1>1 DEF Holding, WorkerWaits, WorkerMayStep

\* So a worker that waits for a place waits for one who can go on.
LEMMA UnfinishedMayStep ==
    ASSUME IInv, WaitsInv, NEW n \in Unfinished
    PROVE  \E m \in Nodes : WorkerMayStep(m)
<1>1. n \in Nodes /\ n \in wave /\ node[n] \in NodePoints \ (NodeEnded \cup {"idle"})
  BY DEF IInv, TypeOK, Unfinished, WaitsInv
<1>2. \A m \in Holding : m \in Nodes /\ WorkerMayStep(m)
  BY HolderMayStep DEF WaitsInv, Holding
<1>3. CASE n \in Holding
  BY <1>2, <1>3
<1>4. CASE Holding # {}
  BY <1>2, <1>4
<1>5. CASE node[n] = "queued" /\ Holding = {}
  <2>1. Cardinality(Holding) < MaxParallel
    BY <1>5, FS_EmptySet, TeamAssumption
  <2> QED BY <1>1, <1>5, <2>1 DEF WorkerMayStep
<1> QED BY <1>1, <1>3, <1>4, <1>5 DEF Holding

\* With a graph that can be scheduled, what is known of those who wait leaves no
\* state in which the run is stuck.
LEMMA InvNeverStuck ==
    ASSUME IInv, WaitsInv, pc = "schedule" => Pending = {} \/ Ready # {}
    PROVE  TeamNeverStuck
<1>1. ASSUME pc # "done"
      PROVE  ParentMayStep \/ \E n \in Nodes : WorkerMayStep(n)
  <2>1. pc \in {"schedule", "waiting", "draining", "unwinding", "synthesis", "finishing"}
    BY <1>1 DEF IInv, TypeOK
  <2>2. CASE Unfinished = {}
    BY <2>1, <2>2 DEF ParentMayStep
  <2>3. CASE pc \in {"schedule", "synthesis", "finishing"}
    BY <2>3 DEF ParentMayStep
  <2>4. CASE Unfinished # {}
    BY <2>4, UnfinishedMayStep
  <2> QED BY <2>2, <2>4
<1>2. ASSUME NEW s \in Stoppers, spc[s] # "idle"
      PROVE  CallerMayStep(s)
  <2>1. spc[s] \in {"descend", "child", "parent"} /\ CallerWaits(s)
    BY <1>2 DEF IInv, TypeOK, WaitsInv
  <2> QED BY <2>1 DEF CallerWaits, CallerMayStep
<1> QED BY <1>1, <1>2 DEF TeamNeverStuck

\* A team run is never stuck: until the parent has ended its task or a worker's can go
\* on, however many workers share however small a semaphore, whoever cancels, and even
\* if no child ever answers; and no call of stop_run waits in vain.
THEOREM NeverStuck == Spec => []TeamNeverStuck
<1>1. Init => WaitsInv
  BY FreshWaits DEF Init
<1>2. IInv /\ WaitsInv /\ [Next]_vars => WaitsInv'
  BY WaitsI
<1>3. IInv /\ WaitsInv /\ (pc = "schedule" => Pending = {} \/ Ready # {}) => TeamNeverStuck
  BY InvNeverStuck
<1> QED BY <1>1, <1>2, <1>3, Invariance, AlwaysSchedulable, PTL DEF Spec

-----------------------------------------------------------------------------
(* A team run implements TeamContract, and its children RunContract.       *)

\* A child's move as TeamContract knows it, or none.
ChildStep(n) ==
    \/ UNCHANGED <<child, due>>
    \/ Contract!Begin(n) \/ Contract!Run(n) \/ Contract!Succeed(n) \/ Contract!GiveUp(n)

\* stop_run's branches and the child's own task give a child its next state or none.
LEMMA ChildStepIsContract ==
    ASSUME TypeOK, MarkInv, UNCHANGED <<edges, status>>, NEW n \in Nodes,
           \/ StopRefused(n) \/ FailsRow(n) \/ StopCancels(n) \/ StopWaited(n)
           \/ ChildReads(n) \/ ChildRuns(n) \/ ChildEnds(n) \/ ChildAborts(n)
    PROVE  ChildStep(n)
<1>0. /\ child \in [Nodes -> {"unborn"} \cup Active \cup Ended]
      /\ n \in due => child[n] \in {"queued", "failed"}
  BY DEF TypeOK, MarkInv
<1> USE DEF ChildStep, Contract!Begin, Contract!Run, Contract!Succeed, Contract!GiveUp, Contract!Live
<1>1. CASE StopRefused(n) \/ StopCancels(n)
  BY <1>1 DEF StopRefused, StopCancels
<1>2. CASE FailsRow(n)
  <2>1. CASE child[n] \in Active
    BY <1>2, <2>1 DEF FailsRow
  <2>2. CASE child[n] \notin Active
    BY <1>0, <1>2, <2>2 DEF FailsRow
  <2> QED BY <2>1, <2>2
<1>3. CASE StopWaited(n)
  <2>1. /\ UNCHANGED due
        /\ UNCHANGED child \/ child' = [child EXCEPT ![n] = IF child[n] \in Active THEN "cancelled" ELSE child[n]]
    BY <1>3 DEF StopWaited
  <2>2. CASE child[n] \in Active
    BY <2>1, <2>2
  <2>3. CASE child[n] \notin Active
    BY <1>0, <2>1, <2>3
  <2> QED BY <2>2, <2>3
<1>4. CASE ChildReads(n) \/ ChildRuns(n)
  BY <1>0, <1>4 DEF ChildReads, ChildRuns
<1>5. CASE ChildEnds(n)
  BY <1>0, <1>5 DEF ChildEnds
<1>6. CASE ChildAborts(n)
  BY <1>0, <1>6 DEF ChildAborts
<1> QED BY <1>1, <1>2, <1>3, <1>4, <1>5, <1>6

\* A child is born while the parent runs and its predecessors have succeeded.
LEMMA BirthIsContract ==
    ASSUME IInv, NEW n \in Nodes, node[n] = "starting",
           child' = [child EXCEPT ![n] = "queued"], UNCHANGED <<edges, status, due>>
    PROVE  Contract!Delegate(n)
<1>0. TypeOK /\ WavesInv /\ OutcomeInv /\ WorkerInv
  BY DEF IInv
<1>1. child[n] = "unborn"
  BY <1>0 DEF WorkerInv
<1>2. status = "running"
  <2>1. pc # "done"
    BY <1>0 DEF WavesInv, WorkersSettleFirst
  <2> QED BY <1>0, <2>1 DEF OutcomeInv, TypeOK
<1>3. \A m \in Nodes : <<m, n>> \in edges => child[m] = "succeeded"
  <2>1. SUFFICES ASSUME NEW m \in Nodes, <<m, n>> \in edges
                 PROVE  child[m] = "succeeded"
    OBVIOUS
  <2>2. m \in outputs
    BY <1>0, <2>1 DEF WavesInv, Predecessors
  <2> QED BY <1>0, <2>2 DEF WavesInv, WorkerInv
<1> QED BY <1>1, <1>2, <1>3 DEF Contract!Delegate

\* The steps of a worker.
LEMMA WorkerIsContract ==
    ASSUME IInv, NEW n \in Nodes, NodeStep(n)
    PROVE  UNCHANGED <<edges, status>> /\ (ChildStep(n) \/ Contract!Delegate(n))
<1>0. TypeOK /\ MarkInv
  BY DEF IInv
<1>1. UNCHANGED <<edges, status>>
  BY DEF NodeStep, Acquire, ChildCommitted, ChildRefused, ChildRegistered, NodeCancelledEarly,
     ChildReturned, ChildTimesOut, NodeCancelled, NodeCancelledAgain, Cleanup
<1>2. CASE Cleanup(n)
  <2>1. StopRefused(n) \/ FailsRow(n) \/ StopCancels(n) \/ StopWaited(n)
    BY <1>2 DEF Cleanup
  <2> QED BY <1>0, <1>1, <2>1, ChildStepIsContract
<1>3. CASE ChildCommitted(n) \/ NodeCancelledEarly(n)
  <2>1. /\ UNCHANGED due
        /\ UNCHANGED child \/ (node[n] = "starting" /\ child' = [child EXCEPT ![n] = "queued"])
    BY <1>3 DEF ChildCommitted, NodeCancelledEarly
  <2> QED BY <1>1, <2>1, BirthIsContract DEF ChildStep
<1>4. CASE \/ Acquire(n) \/ ChildRefused(n) \/ ChildRegistered(n) \/ ChildReturned(n)
           \/ ChildTimesOut(n) \/ NodeCancelled(n) \/ NodeCancelledAgain(n)
  <2>1. UNCHANGED <<child, due>>
    BY <1>4 DEF Acquire, ChildRefused, ChildRegistered, ChildReturned, ChildTimesOut, NodeCancelled,
       NodeCancelledAgain
  <2> QED BY <1>1, <2>1 DEF ChildStep
<1> QED BY <1>2, <1>3, <1>4 DEF NodeStep

\* The steps of the parent's task, and stop_run's on the parent: they leave children
\* alone, and at most end the parent.
LEMMA ParentIsContract ==
    ASSUME IInv, ParentStep \/ \E s \in Stoppers : StopParent(s) \/ StopParentEnds(s)
    PROVE  UNCHANGED <<edges, child, due>> /\ (UNCHANGED status \/ Contract!End)
<1>0. TypeOK /\ WavesInv /\ OutcomeInv /\ WorkerInv
  BY DEF IInv
<1>1. UNCHANGED <<edges, child, due>>
  BY DEF ParentStep, Schedule, WaveReturns, Drained, ParentCancelled, Unwound, Synthesis, ParentFinish,
     StopParent, StopParentEnds
<1>2. CASE ParentFinish
  <2>1. pc = "finishing" /\ (status' = verdict \/ status' = status)
    BY <1>2 DEF ParentFinish
  <2>2. status = "running" /\ verdict \in Ended
    BY <1>0, <2>1 DEF OutcomeInv, TypeOK
  <2>3. verdict = "succeeded" => \A n \in Nodes : child[n] = "succeeded"
    BY <1>0 DEF OutcomeInv, WavesInv, WorkerInv
  <2> QED BY <1>1, <2>1, <2>2, <2>3 DEF Contract!End
<1>3. CASE ParentStep /\ ~ParentFinish
  BY <1>1, <1>3 DEF ParentStep, Schedule, WaveReturns, Drained, ParentCancelled, Unwound, Synthesis
<1>4. CASE \E s \in Stoppers : StopParent(s) \/ StopParentEnds(s)
  <2>1. status' = status \/ (status = "running" /\ status' \in {"failed", "cancelled"})
    BY <1>4 DEF StopParent, StopParentEnds
  <2> QED BY <1>1, <2>1 DEF Contract!End
<1> QED BY <1>2, <1>3, <1>4

\* Every step of a team run is one of TeamContract or changes none of its variables.
LEMMA NextIsContract ==
    ASSUME IInv, [Next]_vars
    PROVE  [Contract!TNext]_(Contract!tvars)
<1> USE DEF Contract!tvars
<1>0. TypeOK /\ MarkInv
  BY DEF IInv
<1>1. ASSUME NEW n \in Nodes, UNCHANGED <<edges, status>>, ChildStep(n) \/ Contract!Delegate(n)
      PROVE  [Contract!TNext]_(Contract!tvars)
  BY <1>1 DEF ChildStep, Contract!TNext
<1>2. ASSUME NEW n \in Nodes, NodeStep(n)
      PROVE  [Contract!TNext]_(Contract!tvars)
  BY <1>1, <1>2, WorkerIsContract
<1>3. ASSUME NEW n \in Nodes, ChildReads(n) \/ ChildRuns(n) \/ ChildEnds(n) \/ ChildAborts(n)
      PROVE  [Contract!TNext]_(Contract!tvars)
  <2>1. UNCHANGED <<edges, status>>
    BY <1>3 DEF ChildReads, ChildRuns, ChildEnds, ChildAborts
  <2> QED BY <1>0, <1>1, <1>3, <2>1, ChildStepIsContract
<1>4. CASE ParentStep \/ \E s \in Stoppers : StopParent(s) \/ StopParentEnds(s)
  BY <1>4, ParentIsContract DEF Contract!TNext
<1>5. ASSUME NEW s \in Stoppers, \/ StopParentBegin(s) \/ StopChildEnds(s)
                                 \/ \E n \in Nodes : StopChildBegin(s, n) \/ StopDescend(s, n)
      PROVE  [Contract!TNext]_(Contract!tvars)
  <2>1. UNCHANGED <<edges, status>>
    BY <1>5 DEF StopParentBegin, StopChildEnds, StopChildBegin, StopDescend, StopTurnsTo
  <2>2. \/ UNCHANGED <<child, due>>
        \/ \E n \in Nodes : StopRefused(n) \/ FailsRow(n) \/ StopCancels(n) \/ StopWaited(n)
    BY <1>0, <1>5 DEF StopParentBegin, StopChildEnds, StopChildBegin, StopDescend, StopTurnsTo, TypeOK
  <2> QED BY <1>0, <1>1, <2>1, <2>2, ChildStepIsContract
<1>6. CASE UNCHANGED vars
  BY <1>6 DEF vars
<1> QED BY <1>2, <1>3, <1>4, <1>5, <1>6 DEF Next, StopStep

\* TeamRun implements TeamContract: the rows of a team run and of its children keep
\* its promises for any graph, any number of workers and callers of stop_run, with
\* timeouts and cancellation at any point.
THEOREM Refinement == Spec => ImplementsTeamContract
<1>1. Init => Contract!TInit
  BY GraphsAreEdges DEF Init, Fresh, Contract!TInit
<1>2. IInv /\ [Next]_vars => [Contract!TNext]_(Contract!tvars)
  BY NextIsContract
<1> QED BY <1>1, <1>2, Invariance, PTL DEF Spec, ImplementsTeamContract, Contract!TSpec

\* The one step of a child run that RunContract does not know: a failed run is run,
\* by a task that had read its row before.
RunsLate(n) ==
    /\ n \in due /\ child[n] = "failed"
    /\ child' = [child EXCEPT ![n] = "running"]

\* What TeamContract lets happen to child runs, RunContract lets happen to runs, but
\* for a late start.
LEMMA ChildrenStep ==
    ASSUME TypeOK, [Contract!TNext]_(Contract!tvars)
    PROVE  [Children!CNext \/ \E n \in Nodes : RunsLate(n)]_(Children!cvars)
<1> DEFINE own == [n \in Nodes |-> IF child[n] = "unborn" THEN None ELSE n]
<1>0. child \in [Nodes -> {"unborn"} \cup Active \cup Ended] /\ None \notin Nodes
  BY TeamAssumption DEF TypeOK
<1>1. CASE UNCHANGED child
  BY <1>1 DEF Children!cvars
<1>2. ASSUME NEW n \in Nodes, Contract!Run(n) \/ Contract!Succeed(n) \/ Contract!GiveUp(n),
             child' # child, ~RunsLate(n)
      PROVE  [Children!CNext]_(Children!cvars)
  <2>1. /\ child[n] # "unborn" /\ child'[n] # "unborn"
        /\ \A m \in Nodes \ {n} : child'[m] = child[m]
    BY <1>0, <1>2 DEF Contract!Run, Contract!Succeed, Contract!GiveUp, Contract!Live
  <2>2. \A m \in Nodes : child'[m] = "unborn" <=> child[m] = "unborn"
    BY <2>1
  <2>3. own' = own
    BY <2>2
  <2> HIDE DEF own
  <2>4. Children!Run(n) \/ Children!Succeed(n) \/ Children!GiveUp(n)
    BY <1>2, <2>3 DEF own, Contract!Run, Contract!Succeed, Contract!GiveUp, Contract!Live, Children!Run,
       Children!Succeed, Children!GiveUp, Children!Live, RunsLate
  <2> QED BY <2>4 DEF Children!CNext
<1>3. ASSUME NEW n \in Nodes, Contract!Delegate(n)
      PROVE  [Children!CNext]_(Children!cvars)
  <2>1. child[n] = "unborn" /\ child' = [child EXCEPT ![n] = "queued"]
    BY <1>3 DEF Contract!Delegate
  <2>2. own' = [own EXCEPT ![n] = n]
    BY <1>0, <2>1
  <2>3. \A m \in Nodes : own[m] = n => m = n
    BY <1>0
  <2> HIDE DEF own
  <2>4. Children!Queue(n, n)
    BY <2>1, <2>2, <2>3 DEF own, Children!Queue, Children!Idle, Children!Live
  <2> QED BY <2>4 DEF Children!CNext
<1>4. ASSUME Contract!Adopt \/ Contract!End \/ \E n \in Nodes : Contract!Begin(n)
      PROVE  UNCHANGED child
  BY <1>4 DEF Contract!Adopt, Contract!End, Contract!Begin
<1> QED BY <1>1, <1>2, <1>3, <1>4 DEF Contract!TNext, Contract!tvars

\* The children of a team are runs as AgentManager promises them, each worker counted
\* as an agent of its own, except that one whose row a stop failed while its task was
\* starting may run all the same: otherwise TeamRun's picture of a child is within
\* RunContract, which RunLifecycle implements.
THEOREM ChildrenKeepRunContract ==
    Spec => Children!CInit /\ [][Children!CNext \/ \E n \in Nodes : RunsLate(n)]_(Children!cvars)
<1>1. Init => Children!CInit
  <2>1. SUFFICES ASSUME Init
                 PROVE  Children!CInit
    OBVIOUS
  <2>2. child = [n \in Nodes |-> "unborn"]
    BY <2>1 DEF Init, Fresh
  <2>3. \A n \in Nodes : child[n] = "unborn"
    BY <2>2
  <2> QED BY <2>2, <2>3 DEF Children!CInit
<1>2. IInv /\ [Next]_vars => [Children!CNext \/ \E n \in Nodes : RunsLate(n)]_(Children!cvars)
  BY NextIsContract, ChildrenStep DEF IInv
<1> QED BY <1>1, <1>2, Invariance, PTL DEF Spec

-----------------------------------------------------------------------------
(* parse_team_graph: Parser!IInv is an inductive invariant of the search.  *)

\* What the lists and the stack are, position by position.
LEMMA ParserShape ==
    ASSUME Parser!TypeOK
    PROVE  /\ Len(docNodes) \in Nat /\ DOMAIN docNodes = 1 .. Len(docNodes)
           /\ Len(docEdges) \in Nat /\ DOMAIN docEdges = 1 .. Len(docEdges)
           /\ Len(path) \in Nat /\ DOMAIN path = 1 .. Len(path)
           /\ Len(at) \in Nat /\ DOMAIN at = 1 .. Len(at)
           /\ \A i \in DOMAIN docNodes : docNodes[i] \in Nodes
           /\ \A i \in DOMAIN docEdges :
                 /\ docEdges[i][1] \in Nodes /\ docEdges[i][2] \in Nodes
                 /\ docEdges[i] = <<docEdges[i][1], docEdges[i][2]>>
           /\ \A k \in DOMAIN path : path[k] \in Nodes
           /\ \A k \in DOMAIN at : at[k] \in Nat
BY LenProperties, ElementOfSeq DEF Parser!TypeOK, Parser!Edges

\* What a loop goes through: all the nodes, or the successors of its call's node.
LEMMA WantedIds ==
    ASSUME Parser!TypeOK, NEW k \in Nat \ {0}, NEW m
    PROVE  /\ k = 1 => (m \in Parser!Wanted(k) <=> m \in Parser!ToSet(docNodes))
           /\ k # 1 => (m \in Parser!Wanted(k) <=> <<path[k - 1], m>> \in Parser!ToSet(docEdges))
<1>1. CASE k = 1
  BY <1>1 DEF Parser!Wanted, Parser!Loop, Parser!Id, Parser!ToSet
<1>2. CASE k # 1
  <2>1. \A i \in DOMAIN docEdges : docEdges[i] = <<docEdges[i][1], docEdges[i][2]>>
    BY ParserShape
  <2>2. m \in Parser!Wanted(k) <=> \E i \in DOMAIN docEdges : docEdges[i][1] = path[k - 1] /\ m = docEdges[i][2]
    BY <1>2 DEF Parser!Wanted, Parser!Loop, Parser!Id
  <2>3. <<path[k - 1], m>> \in Parser!ToSet(docEdges) <=> \E i \in DOMAIN docEdges : docEdges[i] = <<path[k - 1], m>>
    BY DEF Parser!ToSet
  <2> QED BY <1>2, <2>1, <2>2, <2>3
<1> QED BY <1>1, <1>2

\* A set of ids in which every id has a predecessor cannot be scheduled.
LEMMA CycleIsNotSchedulable ==
    ASSUME Parser!TypeOK, Parser!SearchInv, parsed = "searching",
           NEW i \in Parser!Ahead(Len(at)), Parser!Id(Len(at), i) \in visiting
    PROVE  ~Parser!Schedulable
<1> DEFINE L == Len(path)
           n == Parser!Id(Len(at), i)
           S(b) == {path[k] : k \in b .. L}
<1>1. L \in Nat /\ DOMAIN path = 1 .. L
  BY ParserShape
<1>2. /\ Len(at) = L + 1 /\ Parser!ToSet(path) = visiting /\ visiting \subseteq Parser!ToSet(docNodes)
      /\ \A k \in 2 .. L : <<path[k - 1], path[k]>> \in Parser!ToSet(docEdges)
  BY DEF Parser!SearchInv, Parser!PathInv, Parser!VisitedInv
<1>3. \A k \in 1 .. L : path[k] \in Parser!ToSet(docNodes)
  BY <1>1, <1>2 DEF Parser!ToSet
<1>4. n \in Parser!Wanted(Len(at))
  BY DEF Parser!Wanted, Parser!Ahead
<1>5. n \in Parser!ToSet(path)
  BY <1>2
<1> HIDE DEF L, n
<1>6. PICK b \in 1 .. L : path[b] = n
  BY <1>1, <1>5 DEF Parser!ToSet
<1>7. <<path[L], n>> \in Parser!ToSet(docEdges)
  <2>1. Len(at) \in Nat \ {0} /\ Len(at) # 1 /\ Len(at) - 1 = L
    BY <1>1, <1>2, <1>6
  <2> QED BY <1>4, <2>1, WantedIds
<1>8. S(b) \in SUBSET Parser!ToSet(docNodes) /\ S(b) # {}
  BY <1>1, <1>3, <1>6
<1>9. ASSUME NEW k \in b .. L
      PROVE  \E p \in S(b) : <<p, path[k]>> \in Parser!ToSet(docEdges)
  <2>1. CASE k = b
    <3>1. path[L] \in S(b)
      BY <1>1, <1>6
    <3> QED BY <1>6, <1>7, <2>1, <3>1
  <2>2. CASE k # b
    <3>1. k \in 2 .. L /\ k - 1 \in b .. L
      BY <1>1, <1>6, <2>2
    <3> QED BY <1>2, <3>1
  <2> QED BY <2>1, <2>2
<1>10. \A m \in S(b) : \E p \in S(b) : <<p, m>> \in Parser!ToSet(docEdges)
  BY <1>9
<1> HIDE DEF S
<1> QED BY <1>8, <1>10 DEF Parser!Schedulable

\* The search is set aside when a verdict is given.
LEMMA ConcludeI ==
    ASSUME Parser!TypeOK, NEW v, Parser!Conclude(v), v \in {"team", "INVALID_TEAM_GRAPH"},
           v = "team" => Parser!WellFormed /\ Parser!Schedulable /\ Len(docNodes) <= MaxWorkers,
           v = "INVALID_TEAM_GRAPH" => ~(Parser!WellFormed /\ Parser!Schedulable)
    PROVE  Parser!IInv'
<1>1. /\ parsed' = v /\ Parser!NoSearch'
      /\ docNodes' = docNodes /\ docEdges' = docEdges
  BY DEF Parser!Conclude, Parser!NoSearch
<1>2. <<>> \in Seq(Nodes) /\ <<0>> \in Seq(Nat)
  OBVIOUS
<1>3. Parser!TypeOK'
  BY <1>1, <1>2 DEF Parser!TypeOK, Parser!NoSearch
<1>4. Parser!TeamsAreSchedulable'
  BY <1>1 DEF Parser!TeamsAreSchedulable, Parser!WellFormed, Parser!Schedulable
<1> QED BY <1>1, <1>3, <1>4 DEF Parser!IInv, Parser!SearchInv

\* An id that is already visited: the innermost loop goes on.
LEMMA SkipI ==
    ASSUME Parser!IInv, parsed = "searching",
           NEW i \in Parser!Ahead(Len(at)), \A j \in Parser!Ahead(Len(at)) : i <= j,
           Parser!Id(Len(at), i) \in visited,
           at' = [at EXCEPT ![Len(at)] = i],
           UNCHANGED <<docNodes, docEdges, parsed, visiting, visited, path>>
    PROVE  Parser!IInv'
<1> DEFINE M == Len(at)
<1>0. Parser!TypeOK /\ Parser!SearchInv
  BY DEF Parser!IInv
<1>1. M \in Nat \ {0} /\ DOMAIN at = 1 .. M /\ M \in DOMAIN at
  BY <1>0, ParserShape DEF Parser!SearchInv, Parser!PathInv
<1>2. i \in Nat /\ i > at[M]
  <2>1. i \in DOMAIN docNodes \/ i \in DOMAIN docEdges
    BY DEF Parser!Ahead, Parser!Loop
  <2> QED BY <1>0, <2>1, ParserShape DEF Parser!Ahead
<1>3. /\ at' \in Seq(Nat) /\ Len(at') = M /\ DOMAIN at' = 1 .. M
      /\ \A k \in 1 .. M : at'[k] = IF k = M THEN i ELSE at[k]
  BY <1>0, <1>1, <1>2, ExceptSeq, LenProperties DEF Parser!TypeOK
<1>4. \A k \in 1 .. M : /\ Parser!Loop(k)' = Parser!Loop(k) /\ Parser!Wanted(k)' = Parser!Wanted(k)
                        /\ \A j : Parser!Id(k, j)' = Parser!Id(k, j)
  BY DEF Parser!Loop, Parser!Wanted, Parser!Id
<1>5. \A k \in 1 .. M : Parser!Reached(k) \subseteq Parser!Reached(k)'
  <2> SUFFICES ASSUME NEW k \in 1 .. M, NEW m \in Parser!Reached(k)
               PROVE  m \in Parser!Reached(k)'
    OBVIOUS
  <2>1. CASE m \in visited \/ \E j \in DOMAIN path \cap {k} : m = path[j]
    BY <2>1 DEF Parser!Reached
  <2>2. ASSUME NEW j \in Parser!Ahead(k), m = Parser!Id(k, j)
        PROVE  m \in Parser!Reached(k)'
    <3>1. j \in Nat
      <4>1. j \in DOMAIN docNodes \/ j \in DOMAIN docEdges
        BY <2>2 DEF Parser!Ahead, Parser!Loop
      <4> QED BY <1>0, <4>1, ParserShape
    <3>2. CASE k = M /\ j = i
      BY <2>2, <3>2 DEF Parser!Reached
    <3>3. CASE ~(k = M /\ j = i)
      <4>0. j > at'[k]
        <5>1. k = M => i <= j
          BY <2>2
        <5>2. j > at[k]
          BY <2>2 DEF Parser!Ahead
        <5>3. k = M => j > i
          BY <1>2, <3>1, <3>3, <5>1
        <5>4. at'[k] = IF k = M THEN i ELSE at[k]
          BY <1>3
        <5> QED BY <5>2, <5>3, <5>4
      <4>1. j \in Parser!Ahead(k)'
        BY <1>4, <2>2, <4>0 DEF Parser!Ahead
      <4>2. m = Parser!Id(k, j)'
        BY <1>4, <2>2
      <4> QED BY <4>1, <4>2 DEF Parser!Reached
    <3> QED BY <3>2, <3>3
  <2> QED BY <2>1, <2>2 DEF Parser!Reached
<1>6. Parser!TypeOK'
  BY <1>0, <1>3 DEF Parser!TypeOK
<1>7. Parser!SearchInv'
  <2>1. Parser!PathInv' /\ Parser!VisitedInv' /\ Parser!WellFormed' /\ Len(docNodes') <= MaxWorkers
    BY <1>0, <1>3 DEF Parser!SearchInv, Parser!PathInv, Parser!VisitedInv, Parser!WellFormed
  <2>2. \A k \in DOMAIN at' : Parser!Wanted(k)' \subseteq Parser!Reached(k)'
    BY <1>0, <1>1, <1>3, <1>4, <1>5 DEF Parser!SearchInv
  <2> QED BY <2>1, <2>2 DEF Parser!SearchInv
<1> QED BY <1>6, <1>7 DEF Parser!IInv, Parser!TeamsAreSchedulable

\* An id that is met for the first time: one more call of visit.
LEMMA PushI ==
    ASSUME Parser!IInv, parsed = "searching",
           NEW i \in Parser!Ahead(Len(at)), \A j \in Parser!Ahead(Len(at)) : i <= j,
           NEW n, n = Parser!Id(Len(at), i), n \notin visiting \cup visited,
           visiting' = visiting \cup {n},
           path' = Append(path, n),
           at' = Append([at EXCEPT ![Len(at)] = i], 0),
           UNCHANGED <<docNodes, docEdges, parsed, visited>>
    PROVE  Parser!IInv'
<1> DEFINE M == Len(at)
           L == Len(path)
<1>0. Parser!TypeOK /\ Parser!SearchInv
  BY DEF Parser!IInv
<1>1. /\ L \in Nat /\ DOMAIN path = 1 .. L /\ M = L + 1 /\ DOMAIN at = 1 .. M
      /\ M \in Nat \ {0} /\ M \in DOMAIN at /\ path \in Seq(Nodes) /\ at \in Seq(Nat)
  BY <1>0, ParserShape DEF Parser!SearchInv, Parser!PathInv, Parser!TypeOK
<1>2. i \in Nat /\ i > at[M]
  <2>1. i \in DOMAIN docNodes \/ i \in DOMAIN docEdges
    BY DEF Parser!Ahead, Parser!Loop
  <2> QED BY <1>0, <2>1, ParserShape DEF Parser!Ahead
<1>3. n \in Parser!Wanted(M)
  BY DEF Parser!Wanted, Parser!Ahead
<1>4. n \in Nodes /\ n \in Parser!ToSet(docNodes)
  <2>1. CASE M = 1
    BY <1>0, <1>1, <1>3, <2>1, WantedIds, ParserShape DEF Parser!ToSet
  <2>2. CASE M # 1
    <3>1. <<path[M - 1], n>> \in Parser!ToSet(docEdges)
      BY <1>0, <1>1, <1>3, <2>2, WantedIds
    <3>2. PICK j \in DOMAIN docEdges : docEdges[j] = <<path[M - 1], n>>
      BY <3>1 DEF Parser!ToSet
    <3>3. docEdges[j][2] = n
      BY <3>2
    <3> QED BY <1>0, <3>3, ParserShape DEF Parser!SearchInv, Parser!WellFormed
  <2> QED BY <2>1, <2>2
<1>5. /\ path' \in Seq(Nodes) /\ Len(path') = M /\ DOMAIN path' = 1 .. M
      /\ path'[M] = n /\ \A k \in 1 .. L : path'[k] = path[k]
  BY <1>1, <1>4, AppendProperties, LenProperties
<1>6. /\ at' \in Seq(Nat) /\ Len(at') = M + 1 /\ DOMAIN at' = 1 .. M + 1
      /\ at'[M + 1] = 0 /\ at'[M] = i /\ \A k \in 1 .. L : at'[k] = at[k]
  <2> DEFINE moved == [at EXCEPT ![M] = i]
  <2>1. /\ moved \in Seq(Nat) /\ Len(moved) = M
        /\ \A k \in 1 .. M : moved[k] = IF k = M THEN i ELSE at[k]
    BY <1>1, <1>2, ExceptSeq
  <2> HIDE DEF moved
  <2>2. /\ Append(moved, 0) \in Seq(Nat) /\ Len(Append(moved, 0)) = M + 1
        /\ \A k \in 1 .. M : Append(moved, 0)[k] = moved[k]
        /\ Append(moved, 0)[M + 1] = 0
    BY <2>1, AppendProperties
  <2>3. at' = Append(moved, 0)
    BY DEF moved
  <2> QED BY <1>1, <2>1, <2>2, <2>3, LenProperties
<1> HIDE DEF M, L
<1>7. Parser!TypeOK'
  BY <1>0, <1>4, <1>5, <1>6 DEF Parser!TypeOK
<1>8. \A k \in 1 .. M : /\ Parser!Loop(k)' = Parser!Loop(k) /\ Parser!Wanted(k)' = Parser!Wanted(k)
                        /\ \A j : Parser!Id(k, j)' = Parser!Id(k, j)
  <2>1. \A k \in 1 .. M : k # 1 => path'[k - 1] = path[k - 1]
    BY <1>1, <1>5
  <2>2. \A k \in 1 .. M : Parser!Loop(k)' = Parser!Loop(k)
    BY <2>1 DEF Parser!Loop
  <2> QED BY <2>2 DEF Parser!Wanted, Parser!Id
<1>9. Parser!PathInv'
  <2>1. PICK pp : pp = path'
    OBVIOUS
  <2>2. \A j, k \in 1 .. M : pp[j] = pp[k] => j = k
    <3>1. \A j, k \in 1 .. L : path[j] = path[k] => j = k
      BY <1>0, <1>1 DEF Parser!SearchInv, Parser!PathInv, Parser!IsInjective
    <3>2. \A k \in 1 .. L : path[k] # n
      BY <1>0, <1>1 DEF Parser!SearchInv, Parser!PathInv, Parser!ToSet
    <3> QED BY <1>1, <1>5, <2>1, <3>1, <3>2
  <2>3. Parser!IsInjective(path)'
    BY <1>5, <2>1, <2>2 DEF Parser!IsInjective
  <2>4. Parser!ToSet(path)' = visiting'
    BY <1>0, <1>1, <1>5 DEF Parser!SearchInv, Parser!PathInv, Parser!ToSet
  <2>5. ASSUME NEW k \in 2 .. M
        PROVE  <<path'[k - 1], path'[k]>> \in Parser!ToSet(docEdges)
    <3>1. CASE k = M
      <4>1. <<path[M - 1], n>> \in Parser!ToSet(docEdges)
        BY <1>0, <1>1, <1>3, <3>1, WantedIds
      <4>2. M - 1 \in 1 .. L
        BY <1>1, <3>1
      <4>3. path'[M - 1] = path[M - 1] /\ path'[M] = n
        BY <1>5, <4>2
      <4> QED BY <3>1, <4>1, <4>3
    <3>2. CASE k # M
      BY <1>0, <1>1, <1>5, <3>2 DEF L, Parser!SearchInv, Parser!PathInv
    <3> QED BY <3>1, <3>2
  <2>6. \A k \in 2 .. Len(path') : <<path'[k - 1], path'[k]>> \in Parser!ToSet(docEdges')
    BY <1>5, <2>5
  <2> QED BY <1>0, <1>5, <1>6, <2>3, <2>4, <2>6 DEF Parser!SearchInv, Parser!PathInv
<1>10. Parser!VisitedInv' /\ Parser!WellFormed' /\ Len(docNodes') <= MaxWorkers
  BY <1>0, <1>4 DEF Parser!SearchInv, Parser!VisitedInv, Parser!WellFormed
<1>11. ASSUME NEW k \in 1 .. M + 1
       PROVE  Parser!Wanted(k)' \subseteq Parser!Reached(k)'
  <2>1. CASE k = M + 1
    <3>1. \A j \in Parser!Loop(k)' : j \in Nat /\ j > 0
      <4>1. Parser!Loop(k)' \subseteq DOMAIN docNodes \cup DOMAIN docEdges
        BY DEF Parser!Loop
      <4> QED BY <1>0, <4>1, ParserShape
    <3>2. Parser!Ahead(k)' = Parser!Loop(k)'
      BY <1>6, <2>1, <3>1 DEF Parser!Ahead
    <3> QED BY <3>2 DEF Parser!Wanted, Parser!Reached
  <2>2. CASE k # M + 1
    <3>0. k \in 1 .. M
      BY <1>1, <2>2
    <3>1. SUFFICES ASSUME NEW m \in Parser!Reached(k)
                   PROVE  m \in Parser!Reached(k)'
      <4>1. Parser!Wanted(k) \subseteq Parser!Reached(k)
        BY <1>0, <1>1, <3>0 DEF Parser!SearchInv
      <4> QED BY <1>8, <3>0, <4>1
    <3>2. CASE m \in visited
      BY <3>2 DEF Parser!Reached
    <3>3. ASSUME NEW j \in DOMAIN path \cap {k}, m = path[j]
          PROVE  m \in Parser!Reached(k)'
      <4>1. j \in DOMAIN path' \cap {k} /\ m = path'[j]
        BY <1>1, <1>5, <3>3
      <4> QED BY <4>1 DEF Parser!Reached
    <3>4. ASSUME NEW j \in Parser!Ahead(k), m = Parser!Id(k, j)
          PROVE  m \in Parser!Reached(k)'
      <4>1. j \in Nat
        <5>1. j \in DOMAIN docNodes \/ j \in DOMAIN docEdges
          BY <3>4 DEF Parser!Ahead, Parser!Loop
        <5> QED BY <1>0, <5>1, ParserShape
      <4>2. CASE k = M /\ j = i
        <5>1. m = path'[M] /\ M \in DOMAIN path' \cap {k}
          BY <1>1, <1>5, <3>4, <4>2 DEF M
        <5> QED BY <5>1 DEF Parser!Reached
      <4>3. CASE k = M /\ j # i
        <5>1. j \in Parser!Ahead(M)
          BY <3>4, <4>3
        <5>2. i <= j
          BY <5>1 DEF M
        <5>3. j \in Parser!Ahead(k)'
          BY <1>2, <1>6, <1>8, <3>0, <3>4, <4>1, <4>3, <5>2 DEF Parser!Ahead
        <5> QED BY <1>8, <3>0, <3>4, <5>3 DEF Parser!Reached
      <4>4. CASE k # M
        <5>1. k \in 1 .. L
          BY <1>1, <3>0, <4>4
        <5>2. j \in Parser!Ahead(k)'
          BY <1>6, <1>8, <3>0, <3>4, <5>1 DEF Parser!Ahead
        <5> QED BY <1>8, <3>0, <3>4, <5>2 DEF Parser!Reached
      <4> QED BY <4>2, <4>3, <4>4
    <3> QED BY <3>2, <3>3, <3>4 DEF Parser!Reached
  <2> QED BY <2>1, <2>2
<1>12. Parser!SearchInv'
  BY <1>6, <1>9, <1>10, <1>11 DEF Parser!SearchInv
<1> QED BY <1>7, <1>12 DEF Parser!IInv, Parser!TeamsAreSchedulable

\* A call of visit that is through with its successors: its node has been visited.
LEMMA ReturnI ==
    ASSUME Parser!IInv, Parser!Return
    PROVE  Parser!IInv'
<1> DEFINE L == Len(path)
           p == path[L]
<1>0. /\ Parser!TypeOK /\ Parser!SearchInv /\ parsed = "searching"
      /\ UNCHANGED <<docNodes, docEdges, parsed>> /\ Parser!Ahead(Len(at)) = {}
  BY DEF Parser!IInv, Parser!Return, Parser!Innermost
<1>1. /\ L \in Nat \ {0} /\ DOMAIN path = 1 .. L /\ Len(at) = L + 1 /\ DOMAIN at = 1 .. L + 1
      /\ path \in Seq(Nodes) /\ at \in Seq(Nat)
  <2>1. path \in Seq(Nodes) /\ at \in Seq(Nat) /\ path # <<>>
    BY <1>0 DEF Parser!Return, Parser!TypeOK
  <2>2. L \in Nat \ {0}
    BY <2>1, EmptySeq
  <2> QED BY <1>0, <2>1, <2>2, ParserShape DEF Parser!SearchInv, Parser!PathInv
<1>2. p \in Nodes /\ p \in visiting /\ p \notin visited
  BY <1>0, <1>1, ParserShape DEF Parser!SearchInv, Parser!PathInv, Parser!ToSet
<1>3. visiting' = visiting \ {p} /\ visited' = visited \cup {p}
  BY DEF Parser!Return, Parser!Last
<1>4. /\ path' \in Seq(Nodes) /\ Len(path') = L - 1 /\ DOMAIN path' = 1 .. L - 1
      /\ \A k \in 1 .. L - 1 : path'[k] = path[k]
  <2>1. path' = SubSeq(path, 1, L - 1)
    BY DEF Parser!Return, Parser!Front
  <2>2. \A k \in 1 .. L - 1 : path[k] \in Nodes
    BY <1>1, ElementOfSeq
  <2>3. /\ SubSeq(path, 1, L - 1) \in Seq(Nodes)
        /\ Len(SubSeq(path, 1, L - 1)) = IF 1 <= L - 1 THEN (L - 1) - 1 + 1 ELSE 0
        /\ \A k \in 1 .. (L - 1) - 1 + 1 : SubSeq(path, 1, L - 1)[k] = path[1 + k - 1]
    BY <1>1, <2>2, SubSeqProperties
  <2> QED BY <1>1, <2>1, <2>3, LenProperties
<1>5. /\ at' \in Seq(Nat) /\ Len(at') = L /\ DOMAIN at' = 1 .. L
      /\ \A k \in 1 .. L : at'[k] = at[k]
  <2>1. at' = SubSeq(at, 1, L)
    <3>1. at' = SubSeq(at, 1, Len(at) - 1) /\ Len(at) - 1 = L
      BY <1>1 DEF Parser!Return, Parser!Front
    <3> QED BY <3>1
  <2>2. \A k \in 1 .. L : at[k] \in Nat
    BY <1>1, ElementOfSeq
  <2>3. /\ SubSeq(at, 1, L) \in Seq(Nat)
        /\ Len(SubSeq(at, 1, L)) = IF 1 <= L THEN L - 1 + 1 ELSE 0
        /\ \A k \in 1 .. L - 1 + 1 : SubSeq(at, 1, L)[k] = at[1 + k - 1]
    BY <1>1, <2>2, SubSeqProperties
  <2> QED BY <1>1, <2>1, <2>3, LenProperties
<1>6. \A m : <<p, m>> \in Parser!ToSet(docEdges) => m \in visited
  <2>1. Parser!Wanted(L + 1) \subseteq Parser!Reached(L + 1)
    BY <1>0, <1>1 DEF Parser!SearchInv
  <2>2. Parser!Reached(L + 1) = visited
    BY <1>0, <1>1 DEF Parser!Reached
  <2>3. L + 1 \in Nat \ {0} /\ L + 1 # 1 /\ (L + 1) - 1 = L
    BY <1>1
  <2> QED BY <1>0, <2>1, <2>2, <2>3, WantedIds
<1> HIDE DEF p, L
<1>7. Parser!TypeOK'
  BY <1>0, <1>2, <1>3, <1>4, <1>5 DEF Parser!TypeOK
<1>8. \A k \in 1 .. L : /\ Parser!Loop(k)' = Parser!Loop(k) /\ Parser!Wanted(k)' = Parser!Wanted(k)
                        /\ \A j : Parser!Id(k, j)' = Parser!Id(k, j)
  <2>1. \A k \in 1 .. L : k # 1 => path'[k - 1] = path[k - 1]
    BY <1>1, <1>4
  <2>2. \A k \in 1 .. L : Parser!Loop(k)' = Parser!Loop(k)
    BY <1>0, <2>1 DEF Parser!Loop
  <2> QED BY <1>0, <2>2 DEF Parser!Wanted, Parser!Id
<1>9. Parser!PathInv'
  <2>0. \A j, k \in 1 .. L : path[j] = path[k] => j = k
    BY <1>0, <1>1 DEF Parser!SearchInv, Parser!PathInv, Parser!IsInjective
  <2>1. PICK pp : pp = path'
    OBVIOUS
  <2>2. \A j, k \in 1 .. L - 1 : pp[j] = pp[k] => j = k
    <3>1. \A k \in 1 .. L - 1 : k \in 1 .. L
      BY <1>1
    <3> QED BY <1>4, <2>0, <2>1, <3>1
  <2>3. Parser!IsInjective(path)'
    BY <1>4, <2>1, <2>2 DEF Parser!IsInjective
  <2>4. Parser!ToSet(path)' = visiting'
    <3>1. visiting = {path[k] : k \in 1 .. L}
      BY <1>0, <1>1 DEF Parser!SearchInv, Parser!PathInv, Parser!ToSet
    <3>2. \A k \in 1 .. L : path[k] = p <=> k = L
      BY <1>1, <2>0 DEF p
    <3>3. visiting \ {p} = {path[k] : k \in 1 .. L - 1}
      BY <1>1, <3>1, <3>2
    <3>4. Parser!ToSet(path)' = {path'[k] : k \in 1 .. L - 1}
      BY <1>4 DEF Parser!ToSet
    <3> QED BY <1>3, <1>4, <3>3, <3>4
  <2>5. \A k \in 2 .. Len(path') : <<path'[k - 1], path'[k]>> \in Parser!ToSet(docEdges')
    <3>1. \A k \in 2 .. L : <<path[k - 1], path[k]>> \in Parser!ToSet(docEdges)
      BY <1>0 DEF L, Parser!SearchInv, Parser!PathInv
    <3>2. \A k \in 2 .. L - 1 : k \in 2 .. L /\ k \in 1 .. L - 1 /\ k - 1 \in 1 .. L - 1
      BY <1>1
    <3> QED BY <1>0, <1>4, <3>1, <3>2
  <2>6. visiting' \cap visited' = {}
    BY <1>0, <1>3 DEF Parser!SearchInv, Parser!PathInv
  <2> QED BY <1>1, <1>4, <1>5, <2>3, <2>4, <2>5, <2>6 DEF Parser!PathInv
<1>10. Parser!VisitedInv'
  <2>1. /\ visiting \cup visited \subseteq Parser!ToSet(docNodes)
        /\ \A e \in Parser!ToSet(docEdges) : e[1] \in visited => e[2] \in visited
        /\ \A S \in SUBSET visited : S # {} => \E n \in S : \A m \in S : <<m, n>> \notin Parser!ToSet(docEdges)
    BY <1>0 DEF Parser!SearchInv, Parser!VisitedInv
  <2>2. visiting' \cup visited' \subseteq Parser!ToSet(docNodes')
    BY <1>0, <1>2, <1>3, <2>1
  <2>3. \A e \in Parser!ToSet(docEdges) : e = <<e[1], e[2]>>
    BY <1>0, ParserShape DEF Parser!ToSet
  <2>4. \A e \in Parser!ToSet(docEdges) : e[1] \in visited' => e[2] \in visited'
    BY <1>3, <1>6, <2>1, <2>3
  <2>5. \A m \in visited' : <<m, p>> \notin Parser!ToSet(docEdges)
    <3>1. \A m \in visited : <<m, p>> \notin Parser!ToSet(docEdges)
      <4>1. ASSUME NEW m \in visited, <<m, p>> \in Parser!ToSet(docEdges)
            PROVE  FALSE
        <5>1. <<m, p>>[1] = m /\ <<m, p>>[2] = p
          OBVIOUS
        <5> QED BY <1>2, <2>1, <4>1, <5>1
      <4> QED BY <4>1
    <3>2. <<p, p>> \notin Parser!ToSet(docEdges)
      BY <1>2, <1>6
    <3> QED BY <1>3, <3>1, <3>2
  <2>6. ASSUME NEW S \in SUBSET visited', S # {}
        PROVE  \E n \in S : \A m \in S : <<m, n>> \notin Parser!ToSet(docEdges)
    <3>1. CASE p \in S
      BY <2>5, <3>1
    <3>2. CASE p \notin S
      BY <1>3, <2>1, <2>6, <3>2
    <3> QED BY <3>1, <3>2
  <2> QED BY <1>0, <2>2, <2>4, <2>6 DEF Parser!VisitedInv
<1>11. ASSUME NEW k \in 1 .. L
       PROVE  Parser!Wanted(k)' \subseteq Parser!Reached(k)'
  <2>1. SUFFICES ASSUME NEW m \in Parser!Reached(k)
                 PROVE  m \in Parser!Reached(k)'
    <3>1. Parser!Wanted(k) \subseteq Parser!Reached(k)
      BY <1>0, <1>1 DEF Parser!SearchInv
    <3> QED BY <1>8, <3>1
  <2>2. CASE m \in visited
    BY <1>3, <2>2 DEF Parser!Reached
  <2>3. ASSUME NEW j \in DOMAIN path \cap {k}, m = path[j]
        PROVE  m \in Parser!Reached(k)'
    <3>1. CASE j = L
      BY <1>3, <2>3, <3>1 DEF Parser!Reached, p
    <3>2. CASE j # L
      <4>1. j \in DOMAIN path' \cap {k} /\ m = path'[j]
        BY <1>1, <1>4, <2>3, <3>2
      <4> QED BY <4>1 DEF Parser!Reached
    <3> QED BY <3>1, <3>2
  <2>4. ASSUME NEW j \in Parser!Ahead(k), m = Parser!Id(k, j)
        PROVE  m \in Parser!Reached(k)'
    <3>1. j \in Parser!Ahead(k)' /\ m = Parser!Id(k, j)'
      BY <1>5, <1>8, <2>4 DEF Parser!Ahead
    <3> QED BY <3>1 DEF Parser!Reached
  <2> QED BY <2>2, <2>3, <2>4 DEF Parser!Reached
<1>12. Parser!WellFormed' /\ Len(docNodes') <= MaxWorkers
  BY <1>0 DEF Parser!SearchInv, Parser!WellFormed
<1>13. Parser!SearchInv'
  BY <1>5, <1>9, <1>10, <1>11, <1>12 DEF Parser!SearchInv
<1> QED BY <1>0, <1>7, <1>13 DEF Parser!IInv, Parser!TeamsAreSchedulable

\* All nodes have been visited.
LEMMA AcceptI ==
    ASSUME Parser!IInv, Parser!Accept
    PROVE  Parser!IInv'
<1>0. /\ Parser!TypeOK /\ Parser!SearchInv /\ parsed = "searching" /\ Parser!Conclude("team")
      /\ path = <<>> /\ Parser!Ahead(Len(at)) = {}
  BY DEF Parser!IInv, Parser!Accept, Parser!Innermost
<1>1. Len(at) = 1 /\ DOMAIN at = 1 .. 1 /\ DOMAIN path = {}
  BY <1>0, ParserShape DEF Parser!SearchInv, Parser!PathInv
<1>2. Parser!Wanted(1) \subseteq Parser!Reached(1) /\ Parser!Reached(1) = visited
  BY <1>0, <1>1 DEF Parser!SearchInv, Parser!Reached
<1>3. Parser!ToSet(docNodes) \subseteq visited
  <2>1. \A m : m \in Parser!Wanted(1) <=> m \in Parser!ToSet(docNodes)
    <3>1. 1 \in Nat \ {0}
      OBVIOUS
    <3> QED BY <1>0, <3>1, WantedIds
  <2> QED BY <1>2, <2>1
<1>4. Parser!Schedulable
  BY <1>0, <1>3 DEF Parser!Schedulable, Parser!SearchInv, Parser!VisitedInv
<1> QED BY <1>0, <1>4, ConcludeI DEF Parser!SearchInv

\* Every step of parse_team_graph.
LEMMA ParseI ==
    ASSUME Parser!IInv, Parser!Parse
    PROVE  Parser!IInv'
<1>0. Parser!TypeOK
  BY DEF Parser!IInv
<1>1. CASE Parser!Read
  <2>1. parsed = "unread" /\ Parser!NoSearch /\ UNCHANGED <<docNodes, docEdges, search>>
    BY <1>1 DEF Parser!Read, Parser!IInv, Parser!search, search
  <2>2. CASE parsed' = "searching"
    <3>1. Parser!WellFormed /\ Len(docNodes) <= MaxWorkers
      BY <1>0, <1>1, <2>2, PipelineAssumption, ParserShape DEF Parser!Read
    <3>2. Parser!WellFormed' /\ Len(docNodes') <= MaxWorkers
      BY <2>1, <3>1 DEF Parser!WellFormed
    <3>3. /\ visiting' = {} /\ visited' = {} /\ path' = <<>> /\ at' = <<0>>
          /\ Len(path') = 0 /\ DOMAIN path' = {} /\ Len(at') = 1 /\ DOMAIN at' = 1 .. 1 /\ at'[1] = 0
      BY <2>1 DEF Parser!NoSearch, search
    <3>4. Parser!PathInv'
      BY <3>3 DEF Parser!PathInv, Parser!IsInjective, Parser!ToSet
    <3>5. Parser!VisitedInv'
      BY <3>3 DEF Parser!VisitedInv
    <3>6. Parser!Wanted(1)' \subseteq Parser!Reached(1)'
      <4>1. \A i \in Parser!Loop(1)' : i > 0
        BY <1>0, <2>1, ParserShape DEF Parser!Loop
      <4>2. Parser!Ahead(1)' = Parser!Loop(1)'
        BY <3>3, <4>1 DEF Parser!Ahead
      <4> QED BY <4>2 DEF Parser!Wanted, Parser!Reached
    <3>7. Parser!SearchInv'
      BY <3>2, <3>3, <3>4, <3>5, <3>6 DEF Parser!SearchInv
    <3>8. Parser!TypeOK'
      BY <1>0, <2>1, <2>2 DEF Parser!TypeOK, search
    <3> QED BY <2>2, <3>7, <3>8 DEF Parser!IInv, Parser!TeamsAreSchedulable
  <2>3. CASE parsed' # "searching"
    <3>1. /\ parsed' \in {"WORKER_LIMIT_EXCEEDED", "INVALID_TEAM_GRAPH"}
          /\ parsed' = "INVALID_TEAM_GRAPH" => ~Parser!WellFormed
      BY <1>1, <2>3 DEF Parser!Read
    <3>2. Parser!WellFormed' <=> Parser!WellFormed
      BY <2>1 DEF Parser!WellFormed
    <3>3. Parser!TypeOK' /\ Parser!NoSearch'
      BY <1>0, <2>1, <3>1 DEF Parser!TypeOK, Parser!NoSearch, search
    <3> QED BY <2>3, <3>1, <3>2, <3>3 DEF Parser!IInv, Parser!SearchInv, Parser!TeamsAreSchedulable
  <2> QED BY <2>2, <2>3
<1>2. CASE Parser!Visit
  <2>0. parsed = "searching" /\ Parser!SearchInv
    BY <1>2 DEF Parser!Visit, Parser!IInv
  <2>1. PICK i \in Parser!Ahead(Len(at)) :
           /\ \A j \in Parser!Ahead(Len(at)) : i <= j
           /\ \/ Parser!Id(Len(at), i) \in visiting /\ Parser!Conclude("INVALID_TEAM_GRAPH")
              \/ /\ Parser!Id(Len(at), i) \in visited
                 /\ at' = [at EXCEPT ![Len(at)] = i]
                 /\ UNCHANGED <<docNodes, docEdges, parsed, visiting, visited, path>>
              \/ /\ Parser!Id(Len(at), i) \notin visiting \cup visited
                 /\ visiting' = visiting \cup {Parser!Id(Len(at), i)}
                 /\ path' = Append(path, Parser!Id(Len(at), i))
                 /\ at' = Append([at EXCEPT ![Len(at)] = i], 0)
                 /\ UNCHANGED <<docNodes, docEdges, parsed, visited>>
    BY <1>2 DEF Parser!Visit, Parser!Innermost
  <2>2. CASE Parser!Id(Len(at), i) \in visiting /\ Parser!Conclude("INVALID_TEAM_GRAPH")
    BY <1>0, <2>0, <2>2, CycleIsNotSchedulable, ConcludeI
  <2>3. CASE /\ Parser!Id(Len(at), i) \in visited
             /\ at' = [at EXCEPT ![Len(at)] = i]
             /\ UNCHANGED <<docNodes, docEdges, parsed, visiting, visited, path>>
    BY <2>0, <2>1, <2>3, SkipI
  <2>4. CASE /\ Parser!Id(Len(at), i) \notin visiting \cup visited
             /\ visiting' = visiting \cup {Parser!Id(Len(at), i)}
             /\ path' = Append(path, Parser!Id(Len(at), i))
             /\ at' = Append([at EXCEPT ![Len(at)] = i], 0)
             /\ UNCHANGED <<docNodes, docEdges, parsed, visited>>
    BY <2>0, <2>1, <2>4, PushI
  <2> QED BY <2>1, <2>2, <2>3, <2>4
<1> QED BY <1>1, <1>2, ReturnI, AcceptI DEF Parser!Parse

-----------------------------------------------------------------------------
(* From the definition to the run.                                         *)

\* What the parser accepts for a team of all Nodes is a graph as TeamRun takes it.
LEMMA ParsedIsGraph ==
    ASSUME Parser!IInv, parsed = "team", ToSet(docNodes) = Nodes
    PROVE  ToSet(docEdges) \in Graphs
<1>1. Parser!TypeOK /\ Parser!WellFormed /\ Parser!Schedulable
  BY DEF Parser!IInv, Parser!TeamsAreSchedulable
<1>2. Parser!ToSet(docNodes) = Nodes /\ Parser!ToSet(docEdges) = ToSet(docEdges)
  BY DEF Parser!ToSet, ToSet
<1>3. ToSet(docEdges) \in SUBSET {e \in Nodes \X Nodes : e[1] # e[2]}
  BY <1>1, ParserShape DEF Parser!WellFormed, ToSet
<1>4. Acyclic(ToSet(docEdges))
  BY <1>1, <1>2 DEF Parser!Schedulable, Acyclic
<1> QED BY <1>3, <1>4 DEF Graphs

\* FreshI after a step.
LEMMA FreshNextI ==
    (edges \subseteq Nodes \X Nodes)' /\ Fresh' => IInv'
<1>1. edges \subseteq Nodes \X Nodes /\ Fresh => IInv
  BY FreshI
<1> QED BY <1>1, PTL

\* A definition as it comes in.
LEMMA PInitI ==
    ASSUME PInit
    PROVE  PipelineInv
<1>1. /\ docNodes \in UNION {[1 .. k -> Nodes] : k \in 0 .. MaxWorkers + 1}
      /\ docEdges \in UNION {[1 .. k -> Nodes \X Nodes] : k \in 0 .. MaxLength}
      /\ parsed = "unread" /\ Parser!NoSearch /\ edges = {} /\ Fresh
  BY DEF PInit, Parser!Init, Parser!Edges
<1>2. docNodes \in Seq(Nodes)
  <2>1. PICK k \in 0 .. MaxWorkers + 1 : docNodes \in [1 .. k -> Nodes]
    BY <1>1
  <2>2. k \in Nat
    BY PipelineAssumption
  <2> QED BY <2>1, <2>2, SeqDef
<1>3. docEdges \in Seq(Nodes \X Nodes)
  <2>1. PICK k \in 0 .. MaxLength : docEdges \in [1 .. k -> Nodes \X Nodes]
    BY <1>1
  <2>2. k \in Nat
    BY PipelineAssumption
  <2> QED BY <2>1, <2>2, SeqDef
<1>4. Parser!TypeOK
  BY <1>1, <1>2, <1>3 DEF Parser!TypeOK, Parser!NoSearch, Parser!Edges
<1>5. Parser!IInv
  BY <1>1, <1>4 DEF Parser!IInv, Parser!SearchInv, Parser!TeamsAreSchedulable
<1>6. IInv
  BY <1>1, FreshI
<1> QED BY <1>1, <1>5, <1>6 DEF PipelineInv

\* Parsing, the start, and the run.
LEMMA PNextI ==
    ASSUME PipelineInv, [PNext]_<<vars, doc>>
    PROVE  PipelineInv'
<1>1. CASE UNCHANGED <<vars, doc>>
  <2>1. /\ UNCHANGED <<docNodes, docEdges, parsed, visiting, visited, path, at>>
        /\ UNCHANGED vars
    BY <1>1 DEF doc, search
  <2>2. IInv'
    BY <2>1, NextI DEF PipelineInv
  <2>3. Parser!NoSearch' = Parser!NoSearch /\ (Parser!IInv)' = Parser!IInv
    BY <2>1 DEF Parser!NoSearch, Parser!IInv, Parser!TypeOK, Parser!SearchInv, Parser!PathInv,
       Parser!VisitedInv, Parser!WellFormed, Parser!Wanted, Parser!Reached, Parser!Ahead, Parser!Loop,
       Parser!Id, Parser!TeamsAreSchedulable, Parser!Schedulable
  <2>4. Fresh' = Fresh /\ edges' = edges
    BY <2>1 DEF vars, Fresh
  <2> QED BY <2>1, <2>2, <2>3, <2>4 DEF PipelineInv, Graphs, Acyclic
<1>2. CASE ParseDefinition
  <2>1. parsed # "started" /\ parsed' # "started"
    BY <1>2 DEF ParseDefinition, Parser!Parse, Parser!Read, Parser!Visit, Parser!Return, Parser!Accept,
       Parser!Conclude
  <2>2. Parser!IInv'
    BY <1>2, <2>1, ParseI DEF PipelineInv, ParseDefinition
  <2>3. UNCHANGED vars
    BY <1>2 DEF ParseDefinition
  <2>4. Fresh' = Fresh /\ edges' = edges
    BY <2>3 DEF vars, Fresh
  <2>5. IInv'
    BY <2>3, NextI DEF PipelineInv
  <2> QED BY <2>1, <2>2, <2>4, <2>5 DEF PipelineInv
<1>3. CASE Invoke
  <2>1. Parser!IInv /\ parsed = "team" /\ Fresh
    BY <1>3 DEF Invoke, PipelineInv
  <2>2. edges' \in Graphs
    BY <1>3, <2>1, ParsedIsGraph DEF Invoke
  <2>3. (edges \subseteq Nodes \X Nodes)'
    <3>1. edges' \in SUBSET {e \in Nodes \X Nodes : e[1] # e[2]}
      BY <2>2 DEF Graphs
    <3> QED BY <3>1, Zenon
  <2>4. Fresh'
    BY <1>3, <2>1 DEF Invoke, Fresh
  <2>5. IInv'
    BY <2>3, <2>4, FreshNextI
  <2>6. Parser!NoSearch'
    BY <1>3, <2>1 DEF Invoke, Parser!IInv, Parser!NoSearch, search
  <2> QED BY <1>3, <2>2, <2>5, <2>6 DEF Invoke, PipelineInv, Graphs, Acyclic
<1>4. CASE RunTeam
  <2>1. /\ parsed = "started" /\ Next
        /\ UNCHANGED <<docNodes, docEdges, parsed, visiting, visited, path, at>>
    BY <1>4 DEF RunTeam, doc, search
  <2>2. IInv'
    BY <2>1, NextI DEF PipelineInv
  <2>3. edges' = edges
    BY <2>1, GraphStays
  <2> QED BY <2>1, <2>2, <2>3 DEF PipelineInv, Parser!NoSearch, Graphs, Acyclic
<1> QED BY <1>1, <1>2, <1>3, <1>4 DEF PNext

\* From any definition on, whatever TeamRun's invariant says of a run holds, and a
\* run that has begun has a graph without a cycle.
THEOREM PipelineInvariance == PSpec => []PipelineInv
<1>1. PInit => PipelineInv
  BY PInitI
<1>2. PipelineInv /\ [PNext]_<<vars, doc>> => PipelineInv'
  BY PNextI
<1> QED BY <1>1, <1>2, PTL DEF PSpec

\* _ensure_dag accepts a definition exactly when its workers can be scheduled: any
\* number of nodes, any edges, in any order, repeated or not.
THEOREM ParserIsExact == PSpec => []ParsedTeamsAreSchedulable
<1>1. PipelineInv => ParsedTeamsAreSchedulable
  BY DEF PipelineInv, Parser!IInv, ParsedTeamsAreSchedulable, Parser!TeamsAreSchedulable
<1> QED BY <1>1, PipelineInvariance, PTL

\* A team that was parsed and started never comes to a round in which workers are
\* left and none can be scheduled.
THEOREM ParsedTeamsGoOn ==
    PSpec => [](parsed = "started" /\ pc = "schedule" => Pending = {} \/ Ready # {})
<1>1. PipelineInv => (parsed = "started" /\ pc = "schedule" => Pending = {} \/ Ready # {})
  BY GraphsSchedule DEF PipelineInv
<1> QED BY <1>1, PipelineInvariance, PTL

\* A team is never stuck from its definition on: the graphs that the parser lets through
\* are all that the run needs for it.
THEOREM ParsedTeamsNeverStuck == PSpec => []TeamNeverStuck
<1>1. PInit => WaitsInv
  BY FreshWaits DEF PInit
<1>2. PipelineInv /\ WaitsInv /\ [PNext]_<<vars, doc>> => WaitsInv'
  <2>1. SUFFICES ASSUME PipelineInv, WaitsInv, [PNext]_<<vars, doc>>
                 PROVE  WaitsInv'
    OBVIOUS
  <2>2. CASE [Next]_vars
    BY <2>1, <2>2, WaitsI DEF PipelineInv
  <2>3. CASE Invoke
    BY <2>1, <2>3 DEF Invoke, WaitsInv, WorkerWaits, CallerWaits
  <2> QED BY <2>1, <2>2, <2>3 DEF PNext, ParseDefinition, RunTeam
<1>3. PipelineInv /\ WaitsInv => TeamNeverStuck
  <2>1. SUFFICES ASSUME PipelineInv, WaitsInv
                 PROVE  TeamNeverStuck
    OBVIOUS
  <2>2. CASE parsed = "started"
    BY <2>1, <2>2, GraphsSchedule, InvNeverStuck DEF PipelineInv
  <2>3. CASE parsed # "started"
    <3>1. edges = {} /\ outputs = {}
      BY <2>1, <2>3 DEF PipelineInv, Fresh
    <3>2. Ready = Nodes
      BY <3>1 DEF Ready, Pending, Predecessors
    <3> QED BY <2>1, <3>2, InvNeverStuck, TeamAssumption DEF PipelineInv
  <2> QED BY <2>2, <2>3
<1> QED BY <1>1, <1>2, <1>3, PipelineInvariance, PTL DEF PSpec

\* The three promises of a team run, from its definition on.
THEOREM ParsedTeamsKeepPromises ==
    PSpec => [](SuccessIsComplete /\ DependenciesFirst /\ WorkersSettleFirst)
<1>1. IInv => SuccessIsComplete /\ DependenciesFirst /\ WorkersSettleFirst
  BY InvPromises
<1> QED BY <1>1, PipelineInvariance, PTL DEF PipelineInv

\* The whole way from a definition to the end of the run implements TeamContract: the
\* graph comes in when the run begins, before any child.
THEOREM PipelineRefinement == PSpec => ImplementsTeamContract
<1>1. PInit => Contract!TInit
  BY DEF PInit, Fresh, Contract!TInit
<1>2. PipelineInv /\ [PNext]_<<vars, doc>> => [Contract!TNext]_(Contract!tvars)
  <2>1. SUFFICES ASSUME PipelineInv, [PNext]_<<vars, doc>>
                 PROVE  [Contract!TNext]_(Contract!tvars)
    OBVIOUS
  <2>2. CASE UNCHANGED vars
    BY <2>2 DEF vars, Contract!tvars
  <2>3. CASE Invoke
    <3>1. Parser!IInv /\ Fresh /\ edges' = ToSet(docEdges) /\ parsed = "team" /\ ToSet(docNodes) = Nodes
      BY <2>1, <2>3 DEF Invoke, PipelineInv
    <3>2. edges' \in SUBSET {e \in Nodes \X Nodes : e[1] # e[2]}
      BY <3>1, ParsedIsGraph DEF Graphs
    <3>3. edges' \subseteq Nodes \X Nodes
      BY <3>2, Zenon
    <3>4. UNCHANGED <<status, child, due>>
      BY <2>3 DEF Invoke
    <3>5. status = "running" /\ \A n \in Nodes : child[n] = "unborn"
      BY <3>1 DEF Fresh
    <3> QED BY <3>3, <3>4, <3>5 DEF Contract!Adopt, Contract!TNext
  <2>4. CASE RunTeam
    BY <2>1, <2>4, NextIsContract DEF RunTeam, PipelineInv
  <2> QED BY <2>1, <2>2, <2>3, <2>4 DEF PNext, ParseDefinition
<1> QED BY <1>1, <1>2, PipelineInvariance, PTL DEF PSpec, ImplementsTeamContract, Contract!TSpec

\* A set that a list of n entries goes through is finite and has at most n members
\* (here: the nodes of a document).
LEMMA ListedSetIsSmall ==
  ASSUME NEW n \in Nat, NEW T, NEW s \in Surjection(1 .. n, T)
  PROVE  IsFiniteSet(T) /\ Cardinality(T) <= n
<1>1. IsFiniteSet(1 .. n)
  BY FS_Interval
<1>2. Cardinality(1 .. n) = IF 1 > n THEN 0 ELSE n - 1 + 1
  BY FS_Interval
<1>3. Cardinality(1 .. n) = n
  BY <1>2
<1>4. IsFiniteSet(T) /\ Cardinality(T) <= Cardinality(1 .. n)
  BY <1>1, FS_Surjection
<1> QED BY <1>3, <1>4

\* visit is never called deeper than there are workers, each node being on the stack
\* once, so a definition that is let through to the search cannot exhaust the
\* interpreter's stack.
THEOREM VisitDepth == PSpec => [](Len(path) <= MaxWorkers)
<1>1. PipelineInv => Len(path) <= MaxWorkers
  <2>1. SUFFICES ASSUME PipelineInv
                 PROVE  Len(path) <= MaxWorkers
    OBVIOUS
  <2>2. CASE Parser!NoSearch
    BY <2>2, PipelineAssumption DEF Parser!NoSearch
  <2>3. CASE ~Parser!NoSearch
    <3>1. Parser!TypeOK /\ Parser!SearchInv /\ parsed = "searching"
      BY <2>1, <2>3 DEF PipelineInv, Parser!IInv
    <3> DEFINE ids == {docNodes[i] : i \in 1 .. Len(docNodes)}
    <3>2. /\ Len(docNodes) \in Nat /\ DOMAIN docNodes = 1 .. Len(docNodes)
          /\ Len(path) \in Nat /\ DOMAIN path = 1 .. Len(path)
      BY <3>1, ParserShape
    <3>0. \A k \in Nat : IsFiniteSet(1 .. k) /\ Cardinality(1 .. k) = k
      <4>1. SUFFICES ASSUME NEW k \in Nat
                     PROVE  IsFiniteSet(1 .. k) /\ Cardinality(1 .. k) = k
        OBVIOUS
      <4>2. /\ IsFiniteSet(1 .. k)
            /\ Cardinality(1 .. k) = IF 1 > k THEN 0 ELSE k - 1 + 1
        BY FS_Interval
      <4> QED BY <4>2
    <3>3. IsFiniteSet(ids) /\ Cardinality(ids) <= Len(docNodes)
      <4>0. docNodes \in [1 .. Len(docNodes) -> ids]
        BY <3>1, LenProperties DEF Parser!TypeOK
      <4>1. docNodes \in Surjection(1 .. Len(docNodes), ids)
        BY <4>0 DEF Surjection
      <4> HIDE DEF ids
      <4> QED BY <3>2, <4>1, ListedSetIsSmall
    <3>4. IsFiniteSet(1 .. Len(path)) /\ Cardinality(1 .. Len(path)) = Len(path)
      BY <3>0, <3>2
    <3>5. Cardinality(1 .. Len(path)) <= Cardinality(ids)
      <4>1. \A k \in 1 .. Len(path) : path[k] \in ids
        BY <3>1, <3>2 DEF Parser!SearchInv, Parser!PathInv, Parser!VisitedInv, Parser!ToSet
      <4>2. path \in [1 .. Len(path) -> ids]
        BY <3>1, <4>1, LenProperties DEF Parser!TypeOK
      <4>3. path \in Injection(1 .. Len(path), ids)
        BY <3>1, <4>2 DEF Parser!SearchInv, Parser!PathInv, Parser!IsInjective, Injection, IsInjective
      <4> QED BY <3>3, <4>3, FS_Injection
    <3>6. Len(docNodes) <= MaxWorkers
      BY <3>1 DEF Parser!SearchInv
    <3>7. Cardinality(ids) \in Nat
      BY <3>3, FS_CardinalityType
    <3> QED BY <3>2, <3>3, <3>4, <3>5, <3>6, <3>7, PipelineAssumption
  <2> QED BY <2>2, <2>3
<1> QED BY <1>1, PipelineInvariance, PTL

=============================================================================
