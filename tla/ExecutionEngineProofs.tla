------------------------ MODULE ExecutionEngineProofs ------------------------
(***************************************************************************)
(* Theorems about ExecutionEngine for any number of groups, jobs and       *)
(* workers and any limits, whatever the callbacks raise: its invariants,   *)
(* and that it implements JobPool.                                         *)
(***************************************************************************)
EXTENDS ExecutionEngine, FiniteSetTheorems, FunctionTheorems, TLAPS

InPool(g) == {j \in futures : j[1] = g}

(* active_by_group is the number of futures of the group, within its limit. *)
PoolCounted ==
    call.grouped => \A g \in Groups : /\ active[g] = Cardinality(InPool(g))
                                      /\ active[g] <= Limit[g]

(* A job is in its queue, in the pool, or settled; an error that execute    *)
(* has not noted is still among the futures.                                *)
JobsPlaced ==
    \A j \in Jobs : /\ place[j] = "queued" <=> popped[j[1]] < j[2]
                    /\ place[j] \in Threaded => j \in futures
                    /\ j \in futures => place[j] # "queued"
                    /\ place[j] = "error" => error \/ j \in futures
                    /\ place[j] = "skipped" => failure

(* Every trace of a failure comes from a job that failed.                   *)
ErrorsBacked ==
    /\ error => \E j \in Jobs : place[j] = "error"
    /\ failure => \E j \in Jobs : place[j] \in {"failing", "error"}

(* What the place of the calling thread says.                               *)
MainPlaced ==
    /\ main = "submit" /\ ~call.grouped => \A j \in Jobs : place[j] = "queued"
    /\ main \in {"wait", "check", "drain"} => call.grouped
    /\ main = "drain" => failure
    /\ main = "raised" => error
    /\ main = "unwind" => error \/ \A g \in Groups : ~Queued(g)

Starting == {j \in Jobs : place[j] = "starting"}

(* Once a job has raised, the jobs past the test of the failure event are   *)
(* fewer than the workers, and no more get there.                           *)
LateBounded ==
    call.stopOnFailure =>
        IF raised THEN failure /\ late + Cardinality(Starting) < WorkerCount
        ELSE late = 0

EngineInv ==
    /\ TypeOK
    /\ PoolCounted
    /\ JobsPlaced
    /\ ErrorsBacked
    /\ MainPlaced
    /\ Cardinality(Busy) <= WorkerCount
    /\ EndsHonestly
    /\ NeverStuck

-----------------------------------------------------------------------------
(* The jobs.                                                               *)

LEMMA JobFacts ==
    /\ \A j \in Jobs : /\ j[1] \in Groups
                       /\ j[2] \in 1..JobsIn[j[1]]
                       /\ j = <<j[1], j[2]>>
    /\ \A g \in Groups, n \in Nat : <<g, n>> \in Jobs <=> n \in 1..JobsIn[g]
  <1>1. ASSUME NEW j \in Jobs
        PROVE  j[1] \in Groups /\ j[2] \in 1..JobsIn[j[1]] /\ j = <<j[1], j[2]>>
    <2>1. PICK g \in Groups : j \in {g} \X (1..JobsIn[g])
      BY <1>1 DEF Jobs
    <2> QED
      BY <2>1
  <1>2. ASSUME NEW g \in Groups, NEW n \in Nat
        PROVE  <<g, n>> \in Jobs <=> n \in 1..JobsIn[g]
    <2>1. <<g, n>> \in Jobs => n \in 1..JobsIn[g]
      BY <1>1
    <2>2. ASSUME n \in 1..JobsIn[g] PROVE <<g, n>> \in Jobs
      <3>1. <<g, n>> \in {g} \X (1..JobsIn[g])
        BY <2>2
      <3> QED
        BY <3>1 DEF Jobs
    <2> QED
      BY <2>1, <2>2
  <1> QED
    BY <1>1, <1>2

LEMMA JobsFinite == IsFiniteSet(Jobs) /\ Cardinality(Jobs) \in Nat \ {0}
  <1> DEFINE Of(g) == {g} \X (1..JobsIn[g])
             All == {Of(g) : g \in Groups}
             f == [g \in Groups |-> Of(g)]
  <1>1. IsFiniteSet(Groups)
    BY EngineAssumption, FS_Interval DEF Groups
  <1>2. IsFiniteSet(All)
    <2>1. f \in Surjection(Groups, All)
      BY Fun_IsSurj
    <2> QED
      BY <1>1, <2>1, FS_Surjection
  <1>3. \A T \in All : IsFiniteSet(T)
    <2>1. ASSUME NEW g \in Groups PROVE IsFiniteSet(Of(g))
      <3>1. IsFiniteSet(1..JobsIn[g])
        BY FS_Interval, EngineAssumption
      <3> QED
        BY <3>1, FS_Singleton, FS_Product
    <2> QED
      BY <2>1
  <1>4. IsFiniteSet(Jobs)
    BY <1>2, <1>3, FS_UNION DEF Jobs
  <1>5. Jobs # {}
    <2>1. 0 \in Groups
      BY EngineAssumption DEF Groups
    <2>2. 1 \in 1..JobsIn[0]
      BY <2>1, EngineAssumption
    <2> QED
      BY <2>1, <2>2, JobFacts
  <1> QED
    BY <1>4, <1>5, FS_CardinalityType, FS_EmptySet

LEMMA WorkerCountType == WorkerCount \in Nat \ {0}
  BY JobsFinite, EngineAssumption DEF WorkerCount

LEMMA PoolFinite ==
    ASSUME futures \subseteq Jobs
    PROVE  /\ IsFiniteSet(futures) /\ Cardinality(futures) \in Nat
           /\ \A g : IsFiniteSet(InPool(g)) /\ Cardinality(InPool(g)) \in Nat
  BY JobsFinite, FS_Subset, FS_CardinalityType DEF InPool

-----------------------------------------------------------------------------
(* The initial state.                                                      *)

LEMMA EngineInit == Init => EngineInv
  <1> SUFFICES ASSUME Init PROVE EngineInv
    OBVIOUS
  <1>1. TypeOK
    <2>1. 0 \in Groups /\ \A g \in Groups : 0 <= JobsIn[g]
      BY EngineAssumption DEF Groups
    <2>2. "queued" \in JobPlace /\ "submit" \in MainPlace
      BY DEF JobPlace, MainPlace
    <2> QED
      BY <2>1, <2>2 DEF Init, TypeOK
  <1>2. PoolCounted
    BY EngineAssumption, FS_EmptySet DEF Init, PoolCounted, InPool
  <1>3. JobsPlaced
    BY JobFacts DEF Init, JobsPlaced, Threaded
  <1>4. Cardinality(Busy) <= WorkerCount
    <2>1. Busy = {}
      BY DEF Init, Busy, Threaded
    <2> QED
      BY <2>1, FS_EmptySet, WorkerCountType
  <1> QED
    BY <1>1, <1>2, <1>3, <1>4
       DEF Init, EngineInv, ErrorsBacked, MainPlaced, EndsHonestly, NeverStuck, Over

-----------------------------------------------------------------------------
(* The threads of the pool.                                                *)

(* A thread moves its job from place to place; nobody else moves.           *)
LEMMA ThreadMoves ==
    ASSUME EngineInv, NEW j \in Jobs, NEW p \in JobPlace \ {"queued", "submitted"},
           place[j] \in Threaded, Goto(j, p),
           place[j] = "submitted" => Cardinality(Busy) < WorkerCount,
           UNCHANGED <<call, mainVars>>,
           failure' \in BOOLEAN, raised' \in BOOLEAN, late' \in Nat,
           passed' \in [Groups -> Nat],
           failure => failure',
           p = "skipped" => failure',
           place[j] = "failing" => p = "error",
           failure' => failure \/ p = "failing"
    PROVE  EngineInv'
  <1> USE DEF EngineInv, mainVars
  <1>1. place' = [place EXCEPT ![j] = p] /\ place' \in [Jobs -> JobPlace] /\ j \in futures
    BY DEF Goto, TypeOK, JobsPlaced
  <1>2. main \notin Over
    BY DEF EndsHonestly
  <1>3. TypeOK'
    BY <1>1 DEF TypeOK
  <1>4. PoolCounted'
    BY DEF PoolCounted, InPool
  <1>5. JobsPlaced'
    BY <1>1 DEF JobsPlaced, Threaded, JobPlace, Settled, TypeOK
  <1>6. ErrorsBacked'
    <2>1. error' => \E i \in Jobs : place'[i] = "error"
      BY <1>1 DEF ErrorsBacked, Threaded, TypeOK
    <2>2. failure' => \E i \in Jobs : place'[i] \in {"failing", "error"}
      BY <1>1 DEF ErrorsBacked, Threaded, TypeOK
    <2> QED
      BY <2>1, <2>2 DEF ErrorsBacked
  <1>7. MainPlaced'
    BY DEF MainPlaced, Queued, Threaded
  <1>8. Cardinality(Busy') <= WorkerCount
    <2>1. Busy' \subseteq Busy \cup {j}
      BY <1>1 DEF Busy, TypeOK
    <2>2. IsFiniteSet(Busy) /\ Cardinality(Busy) \in Nat
      BY JobsFinite, FS_Subset, FS_CardinalityType DEF Busy
    <2>3. IsFiniteSet(Busy \cup {j}) /\ Cardinality(Busy \cup {j}) <= WorkerCount
      <3>1. j \in Busy \/ Cardinality(Busy) < WorkerCount
        BY DEF Busy
      <3>2. /\ IsFiniteSet(Busy \cup {j})
            /\ Cardinality(Busy \cup {j}) =
                  IF j \in Busy THEN Cardinality(Busy) ELSE Cardinality(Busy) + 1
        BY <2>2, FS_AddElement
      <3> QED
        BY <2>2, <3>1, <3>2, WorkerCountType
    <2> QED
      BY <2>1, <2>3, <2>2, FS_Subset, FS_CardinalityType, WorkerCountType
  <1>9. EndsHonestly' /\ NeverStuck'
    BY <1>2 DEF EndsHonestly, NeverStuck, Over
  <1> QED
    BY <1>3, <1>4, <1>5, <1>6, <1>7, <1>8, <1>9 DEF WorkerCount

LEMMA ThreadStep ==
    ASSUME EngineInv, NEW j \in Jobs, Thread(j)
    PROVE  EngineInv'
  <1> USE DEF JobPlace, Threaded, Settled
  <1>t. TypeOK
    BY DEF EngineInv
  <1>1. CASE Begin(j)
    <2>1. PICK p \in {"starting", "skipped", "error"} :
             Goto(j, p) /\ (p = "skipped" => failure)
      BY <1>1 DEF Begin
    <2> QED
      BY <1>1, <1>t, <2>1, ThreadMoves DEF Begin, TypeOK, observed
  <1>2. CASE TryStart(j)
    <2>1. PICK p \in {"running", "refused", "error"} : Goto(j, p)
      BY <1>2 DEF TryStart
    <2> QED
      BY <1>2, <1>t, <2>1, ThreadMoves DEF TryStart, TypeOK
  <1>3. CASE RunReturns(j)
    BY <1>3, <1>t, ThreadMoves DEF RunReturns, TypeOK, observed
  <1>4. CASE RunRaises(j)
    BY <1>4, <1>t, ThreadMoves DEF RunRaises, TypeOK
  <1>5. CASE FailJob(j)
    BY <1>5, <1>t, ThreadMoves DEF FailJob, TypeOK, observed
  <1>6. CASE FinishJob(j)
    <2>1. PICK p \in {"finished", "error"} : Goto(j, p)
      BY <1>6 DEF FinishJob
    <2> QED
      BY <1>6, <1>t, <2>1, ThreadMoves DEF FinishJob, TypeOK, observed
  <1> QED
    BY <1>1, <1>2, <1>3, <1>4, <1>5, <1>6 DEF Thread

-----------------------------------------------------------------------------
(* The calling thread.                                                     *)

LEMMA FirstIsJob ==
    ASSUME TypeOK, NEW g \in Groups, Queued(g)
    PROVE  /\ First(g) \in Jobs
           /\ First(g)[1] = g /\ First(g)[2] = popped[g] + 1
           /\ Pop(g) => /\ popped' \in [Groups -> Nat]
                        /\ \A h \in Groups : popped'[h] <= JobsIn[h]
                        /\ \A j \in Jobs : popped'[j[1]] < j[2] <=> popped[j[1]] < j[2] /\ j # First(g)
  <1>1. popped[g] \in Nat /\ JobsIn[g] \in Nat /\ popped[g] < JobsIn[g]
    BY EngineAssumption DEF TypeOK, Queued
  <1>2. First(g) \in Jobs
    BY <1>1, JobFacts DEF First
  <1>3. ASSUME Pop(g)
        PROVE  /\ popped' \in [Groups -> Nat]
               /\ \A h \in Groups : popped'[h] <= JobsIn[h]
    BY <1>1, <1>3, EngineAssumption DEF Pop, TypeOK
  <1>4. ASSUME Pop(g), NEW j \in Jobs
        PROVE  popped'[j[1]] < j[2] <=> popped[j[1]] < j[2] /\ j # First(g)
    <2>1. j[1] \in Groups /\ j[2] \in Nat /\ j = <<j[1], j[2]>>
      BY JobFacts, EngineAssumption
    <2>2. CASE j[1] # g
      BY <1>4, <2>1, <2>2 DEF Pop, TypeOK, First
    <2>3. CASE j[1] = g
      <3>1. popped'[g] = popped[g] + 1
        BY <1>4 DEF Pop, TypeOK
      <3>2. j # First(g) <=> j[2] # popped[g] + 1
        BY <2>1, <2>3 DEF First
      <3> QED
        BY <1>1, <2>1, <2>3, <3>1, <3>2
    <2> QED
      BY <2>2, <2>3
  <1> QED
    BY <1>2, <1>3, <1>4 DEF First

LEMMA SubmitStep ==
    ASSUME EngineInv, NEW g \in Groups, Submit(g)
    PROVE  EngineInv'
  <1> USE DEF EngineInv
  <1>1. Queued(g) /\ active[g] < Limit[g]
    BY DEF Submit, Selected, Eligible
  <1>2. First(g) \in Jobs /\ First(g)[1] = g /\ place[First(g)] = "queued" /\ First(g) \notin futures
    BY <1>1, FirstIsJob DEF JobsPlaced, TypeOK
  <1>3. TypeOK'
    <2>1. /\ popped' \in [Groups -> Nat]
          /\ \A h \in Groups : popped'[h] <= JobsIn[h]
      BY <1>1, FirstIsJob DEF Submit
    <2>2. cursor' \in Groups
      BY EngineAssumption DEF Submit, Groups
    <2>3. active' \in [Groups -> Nat] /\ futures' \subseteq Jobs /\ passed' \in [Groups -> Nat]
      BY <1>2 DEF Submit, TypeOK
    <2>4. place' \in [Jobs -> JobPlace]
      BY <1>2 DEF Submit, TypeOK, JobPlace
    <2> QED
      BY <2>1, <2>2, <2>3, <2>4 DEF Submit, TypeOK
  <1>4. PoolCounted'
    <2> SUFFICES ASSUME NEW h \in Groups
                 PROVE  active'[h] = Cardinality(InPool(h)') /\ active'[h] <= Limit[h]
      BY DEF PoolCounted
    <2>1. active[h] = Cardinality(InPool(h)) /\ active[h] <= Limit[h] /\ active[h] \in Nat
      BY DEF PoolCounted, Submit, TypeOK
    <2>2. CASE h = g
      <3>1. InPool(h)' = InPool(h) \cup {First(g)} /\ First(g) \notin InPool(h)
        BY <1>2, <2>2 DEF InPool, Submit
      <3>2. Cardinality(InPool(h)') = Cardinality(InPool(h)) + 1
        BY <3>1, PoolFinite, FS_AddElement DEF TypeOK
      <3>3. active'[h] = active[h] + 1
        BY <2>2 DEF Submit, TypeOK
      <3>4. Limit[h] \in Nat /\ active[h] < Limit[h]
        BY <1>1, <2>2, EngineAssumption
      <3> QED
        BY <2>1, <3>2, <3>3, <3>4
    <2>3. CASE h # g
      <3>1. InPool(h)' = InPool(h)
        BY <1>2, <2>3 DEF InPool, Submit
      <3> QED
        BY <2>1, <2>3, <3>1 DEF Submit, TypeOK
    <2> QED
      BY <2>2, <2>3
  <1>5. JobsPlaced'
    BY <1>1, <1>2, FirstIsJob DEF Submit, JobsPlaced, TypeOK, Threaded
  <1>6. ErrorsBacked'
    BY <1>2 DEF Submit, ErrorsBacked, TypeOK
  <1>7. Busy' = Busy
    BY <1>2 DEF Submit, Busy, TypeOK, Threaded
  <1> QED
    BY <1>3, <1>4, <1>5, <1>6, <1>7
       DEF Submit, MainPlaced, EndsHonestly, NeverStuck, Over, WorkerCount

(* Nothing is submitted only when the pool is full, or nothing is queued:   *)
(* an empty pool has every limit free.                                      *)
LEMMA EndSubmitStep ==
    ASSUME EngineInv, EndSubmit
    PROVE  EngineInv'
  <1> USE DEF EngineInv
  <1>1. ASSUME futures = {} PROVE \A g \in Groups : ~Queued(g)
    <2>1. FreeSlot
      BY <1>1, FS_EmptySet, WorkerCountType DEF FreeSlot
    <2>2. \A g \in Groups : active[g] = 0
      BY <1>1, FS_EmptySet DEF EndSubmit, PoolCounted, InPool
    <2> QED
      BY <2>1, <2>2, EngineAssumption DEF EndSubmit, Eligible
  <1>2. main' \in {"wait", "unwind"}
    BY <1>1 DEF EndSubmit
  <1>3. TypeOK'
    BY <1>2 DEF EndSubmit, TypeOK, MainPlace, observed
  <1>4. PoolCounted' /\ JobsPlaced' /\ ErrorsBacked'
    BY DEF EndSubmit, PoolCounted, InPool, JobsPlaced, ErrorsBacked
  <1>5. MainPlaced'
    BY <1>1, <1>2 DEF EndSubmit, MainPlaced, Queued
  <1> QED
    BY <1>2, <1>3, <1>4, <1>5 DEF EndSubmit, EndsHonestly, NeverStuck, Over, Busy, WorkerCount

LEMMA CollectStep ==
    ASSUME EngineInv, Collect
    PROVE  EngineInv'
  <1> USE DEF EngineInv
  <1>1. ASSUME NEW g \in Groups
        PROVE  /\ active'[g] = Cardinality(InPool(g)')
               /\ active'[g] \in Nat /\ active'[g] <= Limit[g]
    <2>1. active[g] = Cardinality(InPool(g)) /\ active[g] <= Limit[g] /\ active[g] \in Nat
      BY DEF Collect, MainPlaced, PoolCounted, TypeOK
    <2>2. IsFiniteSet(InPool(g))
      BY PoolFinite DEF TypeOK
    <2>3. InPool(g)' = InPool(g) \ CollectedOf(g) /\ InPool(g) \cap CollectedOf(g) = CollectedOf(g)
      BY DEF Collect, InPool, Collected, CollectedOf
    <2>4. /\ IsFiniteSet(InPool(g)')
          /\ Cardinality(InPool(g)') = Cardinality(InPool(g)) - Cardinality(CollectedOf(g))
      BY <2>2, <2>3, FS_Difference
    <2>5. Cardinality(CollectedOf(g)) \in Nat /\ Cardinality(InPool(g)') \in Nat
      BY <2>2, <2>3, <2>4, FS_Subset, FS_CardinalityType
    <2>6. active'[g] = active[g] - Cardinality(CollectedOf(g))
      BY DEF Collect, TypeOK
    <2> QED
      BY <2>1, <2>4, <2>5, <2>6, EngineAssumption
  <1>2. TypeOK'
    <2>1. active' \in [Groups -> Nat]
      BY <1>1 DEF Collect
    <2> QED
      BY <2>1 DEF Collect, TypeOK, MainPlace, observed, Collected
  <1>3. PoolCounted'
    BY <1>1 DEF PoolCounted
  <1>4. JobsPlaced'
    BY DEF Collect, JobsPlaced, Collected, Settled, Threaded
  <1>5. ErrorsBacked'
    BY DEF Collect, ErrorsBacked, Collected, TypeOK
  <1>6. MainPlaced'
    BY DEF Collect, MainPlaced, Queued
  <1> QED
    BY <1>2, <1>3, <1>4, <1>5, <1>6
       DEF Collect, EndsHonestly, NeverStuck, Over, Busy, WorkerCount

LEMMA DrainStep ==
    ASSUME EngineInv, NEW g \in Groups, Drain(g)
    PROVE  EngineInv'
  <1> USE DEF EngineInv
  <1>1. Queued(g) /\ failure /\ main = "drain"
    BY DEF Drain, MainPlaced
  <1>2. /\ First(g) \in Jobs
        /\ place[First(g)] = "queued" /\ First(g) \notin futures
    BY <1>1, FirstIsJob DEF JobsPlaced, TypeOK
  <1>3. PICK p \in {"skipped", "error"} :
           /\ place' = [place EXCEPT ![First(g)] = p]
           /\ p = "skipped" => UNCHANGED <<main, error>>
           /\ p = "error" => error' /\ main' = "unwind"
    BY DEF Drain
  <1>4. TypeOK'
    <2>1. /\ popped' \in [Groups -> Nat]
          /\ \A h \in Groups : popped'[h] <= JobsIn[h]
      BY <1>1, FirstIsJob DEF Drain
    <2>2. place' \in [Jobs -> JobPlace] /\ error' \in BOOLEAN /\ main' \in MainPlace
      BY <1>3 DEF Drain, TypeOK, JobPlace, Settled, MainPlace
    <2> QED
      BY <2>1, <2>2 DEF Drain, TypeOK, observed
  <1>5. PoolCounted'
    BY DEF Drain, PoolCounted, InPool
  <1>6. JobsPlaced'
    <2>1. \A j \in Jobs : popped'[j[1]] < j[2] <=> popped[j[1]] < j[2] /\ j # First(g)
      BY <1>1, FirstIsJob DEF Drain
    <2> QED
      BY <1>1, <1>2, <1>3, <2>1 DEF Drain, JobsPlaced, TypeOK, Threaded
  <1>7. ErrorsBacked'
    BY <1>2, <1>3 DEF Drain, ErrorsBacked, TypeOK
  <1>8. Busy' = Busy
    BY <1>2, <1>3 DEF Drain, Busy, TypeOK, Threaded
  <1>9. MainPlaced'
    BY <1>1, <1>3 DEF Drain, MainPlaced
  <1> QED
    BY <1>1, <1>3, <1>4, <1>5, <1>6, <1>7, <1>8, <1>9
       DEF Drain, EndsHonestly, NeverStuck, Over, WorkerCount

LEMMA SubmitAllStep ==
    ASSUME EngineInv, SubmitAll
    PROVE  EngineInv'
  <1> USE DEF EngineInv
  <1>1. TypeOK'
    <2>1. popped' \in [Groups -> Nat] /\ \A g \in Groups : popped'[g] <= JobsIn[g]
      BY EngineAssumption DEF SubmitAll
    <2> QED
      BY <2>1 DEF SubmitAll, TypeOK, observed, JobPlace, MainPlace
  <1>2. PoolCounted'
    BY DEF SubmitAll, PoolCounted
  <1>3. \A j \in Jobs : ~(popped'[j[1]] < j[2])
    BY JobFacts, EngineAssumption DEF SubmitAll
  <1>4. JobsPlaced'
    BY <1>3 DEF SubmitAll, JobsPlaced, Threaded
  <1>5. ~error /\ ~failure
    BY DEF SubmitAll, MainPlaced, ErrorsBacked
  <1>6. Busy' = {}
    BY DEF SubmitAll, Busy, Threaded
  <1>7. Cardinality(Busy') <= WorkerCount'
    BY <1>6, FS_EmptySet, WorkerCountType DEF WorkerCount
  <1>8. MainPlaced'
    BY EngineAssumption DEF SubmitAll, MainPlaced, Queued
  <1>9. ErrorsBacked' /\ EndsHonestly' /\ NeverStuck'
    BY <1>5 DEF SubmitAll, ErrorsBacked, EndsHonestly, NeverStuck, Over
  <1> QED
    BY <1>1, <1>2, <1>4, <1>7, <1>8, <1>9

(* At the end every job is settled, and without an error none was skipped.  *)
LEMMA UnwindStep ==
    ASSUME EngineInv, Unwind
    PROVE  EngineInv'
  <1> USE DEF EngineInv
  <1>1. \A j \in Jobs : place[j] = "error" => error'
    BY DEF Unwind, JobsPlaced
  <1>2. error' => \E j \in Jobs : place[j] = "error"
    BY DEF Unwind, ErrorsBacked, TypeOK
  <1>3. ASSUME ~error', NEW j \in Jobs
        PROVE  place[j] \in {"finished", "refused"}
    <2>1. ~failure
      BY <1>1, <1>3 DEF Unwind, ErrorsBacked, Threaded
    <2>2. place[j] # "queued"
      <3>1. ~Queued(j[1]) /\ j[1] \in Groups
        <4>1. ~error
          BY <1>3 DEF Unwind, TypeOK
        <4> QED
          BY <4>1, JobFacts DEF Unwind, MainPlaced
      <3>2. /\ popped[j[1]] \in Nat /\ JobsIn[j[1]] \in Nat
            /\ popped[j[1]] <= JobsIn[j[1]] /\ j[2] \in 1..JobsIn[j[1]]
        BY <3>1, JobFacts, EngineAssumption DEF TypeOK
      <3>3. ~(popped[j[1]] < j[2])
        BY <3>1, <3>2 DEF Queued
      <3> QED
        BY <3>3 DEF JobsPlaced
    <2>3. place[j] \in JobPlace /\ place[j] \notin Threaded
      BY DEF Unwind, TypeOK
    <2> QED
      BY <1>1, <1>3, <2>1, <2>2, <2>3 DEF JobsPlaced, JobPlace, Threaded, Settled
  <1>4. TypeOK'
    BY DEF Unwind, TypeOK, MainPlace, observed
  <1>5. PoolCounted'
    BY DEF Unwind, PoolCounted, InPool
  <1>6. JobsPlaced' /\ ErrorsBacked'
    BY <1>2 DEF Unwind, JobsPlaced, ErrorsBacked
  <1>7. MainPlaced' /\ NeverStuck'
    BY DEF Unwind, MainPlaced, NeverStuck
  <1>8. EndsHonestly'
    BY <1>2, <1>3 DEF Unwind, EndsHonestly, Over
  <1>9. Cardinality(Busy') <= WorkerCount'
    BY DEF Unwind, Busy, WorkerCount
  <1> QED
    BY <1>4, <1>5, <1>6, <1>7, <1>8, <1>9

LEMMA MainStep ==
    ASSUME EngineInv, Main
    PROVE  EngineInv'
  <1>1. CASE CheckFailure
    BY <1>1 DEF CheckFailure, EngineInv, TypeOK, MainPlace, PoolCounted, InPool, JobsPlaced,
                ErrorsBacked, MainPlaced, EndsHonestly, NeverStuck, Over, Busy, WorkerCount,
                observed
  <1>2. CASE EndDrain
    BY <1>2 DEF EndDrain, EngineInv, TypeOK, MainPlace, PoolCounted, InPool, JobsPlaced,
                ErrorsBacked, MainPlaced, EndsHonestly, NeverStuck, Over, Busy, WorkerCount,
                observed
  <1> QED
    BY <1>1, <1>2, SubmitStep, EndSubmitStep, CollectStep, DrainStep, SubmitAllStep, UnwindStep
       DEF Main

-----------------------------------------------------------------------------
(* The theorems.                                                           *)

LEMMA EngineStutters ==
    ASSUME EngineInv, UNCHANGED vars
    PROVE  EngineInv'
  BY DEF EngineInv, vars, TypeOK, PoolCounted, InPool, JobsPlaced, ErrorsBacked, MainPlaced,
         Queued, EndsHonestly, NeverStuck, Over, Busy, WorkerCount

(* The bookkeeping of execute (queues, active_by_group, futures, the failure *)
(* event and first_error) agrees with where the jobs are at every moment.    *)
THEOREM EngineInvariant == Spec => []EngineInv
  <1>1. EngineInv /\ [Next]_vars => EngineInv'
    BY MainStep, ThreadStep, EngineStutters DEF Next
  <1> QED
    BY EngineInit, <1>1, PTL DEF Spec

(* Every value execute keeps has its type; the counts never go negative.    *)
THEOREM EngineTyped == Spec => []TypeOK
  <1>1. EngineInv => TypeOK
    BY DEF EngineInv
  <1> QED
    BY EngineInvariant, <1>1, PTL

(* Neither the pool nor a connection ever exceeds its limit.                *)
THEOREM EngineRespectsLimits == Spec => []LimitsRespected
  <1>1. EngineInv => LimitsRespected
    <2> SUFFICES ASSUME EngineInv, call.grouped, NEW g \in Groups
                 PROVE  Cardinality({j \in Jobs : j[1] = g /\ place[j] \in Threaded}) <= Limit[g]
      BY DEF EngineInv, LimitsRespected
    <2> DEFINE Mine == {j \in Jobs : j[1] = g /\ place[j] \in Threaded}
    <2>1. Mine \subseteq InPool(g)
      BY DEF EngineInv, JobsPlaced, InPool
    <2>2. IsFiniteSet(InPool(g)) /\ Cardinality(InPool(g)) \in Nat
      BY PoolFinite DEF EngineInv, TypeOK
    <2>3. Cardinality(Mine) <= Cardinality(InPool(g)) /\ Cardinality(Mine) \in Nat
      BY <2>1, <2>2, FS_Subset, FS_CardinalityType
    <2>4. Cardinality(InPool(g)) <= Limit[g]
      BY DEF EngineInv, PoolCounted
    <2> QED
      BY <2>2, <2>3, <2>4, EngineAssumption
  <1> QED
    BY EngineInvariant, <1>1, PTL

(* A normal return means every job was finished or refused; an exception is *)
(* some job's; and no thread outlives execute.                              *)
THEOREM EngineEndsHonestly == Spec => []EndsHonestly
  <1>1. EngineInv => EndsHonestly
    BY DEF EngineInv
  <1> QED
    BY EngineInvariant, <1>1, PTL

(* The RuntimeError about group limits is never raised.                     *)
THEOREM EngineNeverStuck == Spec => []NeverStuck
  <1>1. EngineInv => NeverStuck
    BY DEF EngineInv
  <1> QED
    BY EngineInvariant, <1>1, PTL

LEMMA StartingFinite ==
    /\ IsFiniteSet(Busy) /\ Cardinality(Busy) \in Nat
    /\ IsFiniteSet(Starting) /\ Cardinality(Starting) \in Nat
  BY JobsFinite, FS_Subset, FS_CardinalityType DEF Busy, Starting

(* A step that moves no job to "starting" and starts none keeps the bound.  *)
LEMMA NoneStarting ==
    ASSUME LateBounded, late \in Nat, UNCHANGED <<call, raised, late>>,
           failure => failure', Starting' \subseteq Starting
    PROVE  LateBounded'
  <1>1. Cardinality(Starting') <= Cardinality(Starting) /\ Cardinality(Starting') \in Nat
    BY StartingFinite, FS_Subset, FS_CardinalityType
  <1> QED
    BY <1>1, StartingFinite, WorkerCountType DEF LateBounded, WorkerCount

LEMMA LateStep ==
    ASSUME EngineInv, LateBounded, Next
    PROVE  LateBounded'
  <1>t. TypeOK /\ late \in Nat
    BY DEF EngineInv, TypeOK
  <1>1. ASSUME NEW g \in Groups, Submit(g) \/ Drain(g)
        PROVE  LateBounded'
    <2>1. Queued(g)
      BY <1>1 DEF Submit, Selected, Eligible, Drain
    <2>2. Starting' \subseteq Starting
      BY <1>1, <1>t, <2>1, FirstIsJob DEF Submit, Drain, Starting, TypeOK
    <2> QED
      BY <1>1, <1>t, <2>2, NoneStarting DEF Submit, Drain, observed
  <1>2. ASSUME EndSubmit \/ Collect \/ CheckFailure \/ EndDrain \/ SubmitAll \/ Unwind
        PROVE  LateBounded'
    BY <1>2, <1>t, NoneStarting
       DEF EndSubmit, Collect, CheckFailure, EndDrain, SubmitAll, Unwind, observed, Starting
  <1>3. ASSUME NEW j \in Jobs,
               RunReturns(j) \/ FailJob(j) \/ FinishJob(j)
        PROVE  LateBounded'
    <2>1. Starting' \subseteq Starting
      BY <1>3, <1>t DEF RunReturns, FailJob, FinishJob, Goto, Starting, TypeOK
    <2> QED
      BY <1>3, <1>t, <2>1, NoneStarting DEF RunReturns, FailJob, FinishJob, observed
  <1>4. ASSUME NEW j \in Jobs, Begin(j)
        PROVE  LateBounded'
    <2>1. CASE call.stopOnFailure /\ raised
      <3>1. Starting' \subseteq Starting
        BY <1>4, <1>t, <2>1 DEF LateBounded, Begin, Goto, Starting, TypeOK
      <3> QED
        BY <1>4, <1>t, <3>1, NoneStarting DEF Begin, observed
    <2>2. CASE ~(call.stopOnFailure /\ raised)
      BY <1>4, <2>2 DEF LateBounded, Begin, observed
    <2> QED
      BY <2>1, <2>2
  <1>5. ASSUME NEW j \in Jobs, TryStart(j)
        PROVE  LateBounded'
    <2>1. j \in Starting /\ Starting' = Starting \ {j}
      BY <1>5, <1>t DEF TryStart, Goto, Starting, TypeOK
    <2>2. Cardinality(Starting') = Cardinality(Starting) - 1
      BY <2>1, StartingFinite, FS_RemoveElement
    <2>3. late' \in {late, late + 1} /\ (~raised => late' = late)
      BY <1>5 DEF TryStart
    <2> QED
      BY <1>5, <1>t, <2>2, <2>3, StartingFinite, WorkerCountType
         DEF TryStart, LateBounded, WorkerCount
  <1>6. ASSUME NEW j \in Jobs, RunRaises(j)
        PROVE  LateBounded'
    <2>1. Starting' = Starting /\ Starting \subseteq Busy \ {j} /\ j \in Busy
      BY <1>6, <1>t DEF RunRaises, Goto, Starting, Busy, Threaded, TypeOK
    <2>2. IsFiniteSet(Busy \ {j}) /\ Cardinality(Busy \ {j}) = Cardinality(Busy) - 1
      BY <2>1, StartingFinite, FS_RemoveElement
    <2>3. Cardinality(Starting) <= Cardinality(Busy) - 1
      BY <2>1, <2>2, FS_Subset
    <2>4. Cardinality(Busy) <= WorkerCount
      BY DEF EngineInv
    <2> QED
      BY <1>6, <1>t, <2>1, <2>3, <2>4, StartingFinite, WorkerCountType
         DEF RunRaises, LateBounded, WorkerCount, TypeOK
  <1> QED
    BY <1>1, <1>2, <1>3, <1>4, <1>5, <1>6 DEF Next, Main, Thread

(* Under stop_on_failure fewer jobs than there are workers start after a    *)
(* job has raised.                                                          *)
THEOREM EngineStartsFewLate == Spec => []FewLateStarts
  <1>1. Init => LateBounded
    BY DEF Init, LateBounded
  <1>2. EngineInv /\ LateBounded /\ [Next]_vars => LateBounded'
    <2>1. EngineInv /\ LateBounded /\ UNCHANGED vars => LateBounded'
      BY DEF vars, LateBounded, Starting, WorkerCount
    <2> QED
      BY <2>1, LateStep
  <1>3. EngineInv /\ LateBounded => FewLateStarts
    BY StartingFinite, WorkerCountType DEF EngineInv, TypeOK, LateBounded, FewLateStarts
  <1> QED
    BY EngineInvariant, <1>1, <1>2, <1>3, PTL DEF Spec

-----------------------------------------------------------------------------
(* Round robin.  Each time a group is passed over, the cursor moves past    *)
(* the group that was preferred to it and so comes nearer: how often it was *)
(* passed over and how far the cursor is from it together stay below the    *)
(* number of groups.                                                       *)
RoundRobin == \A g \in Groups : passed[g] + Offset(g) < GroupCount

LEMMA Wrap ==
    ASSUME NEW n \in Nat \ {0}, NEW k \in Int
    PROVE  /\ 0 <= k /\ k < n => k % n = k
           /\ -n <= k /\ k < 0 => k % n = k + n
           /\ n % n = 0
  OBVIOUS

LEMMA Distance ==
    ASSUME NEW g \in Groups, NEW c \in Groups
    PROVE  /\ (g - c) % GroupCount = IF c <= g THEN g - c ELSE g - c + GroupCount
           /\ (g - c) % GroupCount \in 0..GroupCount - 1
  <1>1. GroupCount \in Nat \ {0} /\ g \in 0..GroupCount - 1 /\ c \in 0..GroupCount - 1
    BY EngineAssumption DEF Groups
  <1>2. g - c \in Int /\ -GroupCount <= g - c /\ g - c < GroupCount
    BY <1>1
  <1>3. /\ 0 <= g - c => (g - c) % GroupCount = g - c
        /\ g - c < 0 => (g - c) % GroupCount = g - c + GroupCount
    BY <1>1, <1>2, Wrap
  <1> QED
    BY <1>1, <1>3

LEMMA SubmitRoundRobin ==
    ASSUME TypeOK, TypeOK', RoundRobin, NEW s \in Groups, Submit(s)
    PROVE  RoundRobin'
  <1>1. GroupCount \in Nat \ {0} /\ s \in 0..GroupCount - 1 /\ cursor \in 0..GroupCount - 1
    BY EngineAssumption DEF Groups, TypeOK
  <1>2. cursor' = IF s + 1 = GroupCount THEN 0 ELSE s + 1
    <2>1. s + 1 < GroupCount => (s + 1) % GroupCount = s + 1
      BY <1>1, Wrap
    <2>2. GroupCount % GroupCount = 0
      BY <1>1, Wrap
    <2> QED
      BY <1>1, <2>1, <2>2 DEF Submit
  <1> SUFFICES ASSUME NEW g \in Groups
               PROVE  (passed[g] + Offset(g) < GroupCount)'
    BY DEF RoundRobin
  <1>3. /\ Offset(g)' = IF cursor' <= g THEN g - cursor' ELSE g - cursor' + GroupCount
        /\ Offset(g)' \in 0..GroupCount - 1
    <2>1. cursor' \in Groups
      BY DEF TypeOK
    <2> QED
      BY <2>1, Distance DEF Offset
  <1>4. CASE g # s /\ Eligible(g)
    <2>1. passed'[g] = passed[g] + 1
      BY <1>4 DEF Submit
    <2>2. Offset(s) <= Offset(g)
      BY <1>4 DEF Submit, Selected
    <2>3. Offset(g)' = Offset(g) - Offset(s) - 1
      <3>1. g \in 0..GroupCount - 1
        BY DEF Groups
      <3>2. /\ Offset(g) = IF cursor <= g THEN g - cursor ELSE g - cursor + GroupCount
            /\ Offset(s) = IF cursor <= s THEN s - cursor ELSE s - cursor + GroupCount
        BY Distance DEF Offset, TypeOK
      <3> QED
        BY <1>1, <1>2, <1>3, <1>4, <2>2, <3>1, <3>2
    <2>4. passed[g] \in Nat /\ Offset(g) \in Int /\ Offset(s) \in Nat
      BY <1>1, Distance DEF Offset, TypeOK
    <2>5. passed[g] + Offset(g) < GroupCount
      BY DEF RoundRobin
    <2> QED
      BY <1>1, <2>1, <2>3, <2>4, <2>5
  <1>5. CASE ~(g # s /\ Eligible(g))
    <2>1. passed'[g] = 0
      BY <1>5 DEF Submit
    <2> QED
      BY <1>1, <1>3, <2>1
  <1> QED
    BY <1>4, <1>5

(* However many connections there are and whatever their limits: one that   *)
(* could be served is passed over at most once for each other.             *)
THEOREM EngineServesAll == Spec => []NoGroupStarves
  <1>1. Init => RoundRobin
    <2> SUFFICES ASSUME Init, NEW g \in Groups
                 PROVE  passed[g] + Offset(g) < GroupCount
      BY DEF RoundRobin
    <2>1. cursor = 0 /\ cursor \in Groups /\ passed[g] = 0 /\ GroupCount \in Nat
      BY EngineAssumption DEF Init, Groups
    <2> QED
      BY <2>1, Distance DEF Offset
  <1>2. TypeOK /\ TypeOK' /\ RoundRobin /\ [Next]_vars => RoundRobin'
    <2> SUFFICES ASSUME TypeOK, TypeOK', RoundRobin, [Next]_vars
                 PROVE  RoundRobin'
      OBVIOUS
    <2>1. CASE UNCHANGED <<cursor, passed>>
      BY <2>1 DEF RoundRobin, Offset
    <2>2. ASSUME NEW g \in Groups, Submit(g)
          PROVE  RoundRobin'
      BY <2>2, SubmitRoundRobin
    <2>3. ASSUME NEW j \in Jobs, Thread(j)
          PROVE  UNCHANGED <<cursor, passed>>
      BY <2>3 DEF Thread, Begin, TryStart, RunReturns, RunRaises, FailJob, FinishJob, mainVars,
         observed
    <2>4. CASE Main /\ ~\E g \in Groups : Submit(g)
      BY <2>1, <2>4 DEF Main, Drain, EndSubmit, Collect, CheckFailure, EndDrain, SubmitAll,
         Unwind, observed
    <2> QED
      BY <2>1, <2>2, <2>3, <2>4 DEF Next, vars
  <1>3. TypeOK /\ RoundRobin => NoGroupStarves
    <2> SUFFICES ASSUME TypeOK, RoundRobin, NEW g \in Groups
                 PROVE  passed[g] < GroupCount
      BY DEF NoGroupStarves
    <2>1. Offset(g) \in Nat /\ passed[g] \in Nat /\ GroupCount \in Nat
      BY Distance, EngineAssumption DEF Offset, TypeOK
    <2> QED
      BY <2>1 DEF RoundRobin
  <1> QED
    BY EngineTyped, <1>1, <1>2, <1>3, PTL DEF Spec

-----------------------------------------------------------------------------
(* The abstract pool.                                                       *)

States == [j \in Jobs |-> StateOf(j)]

PoolResult == IF main \in Over THEN main ELSE "none"

(* The instance of JobPool counts as this module does. *)
LEMMA SameCount == \A S : Pool!Cardinality(S) = Cardinality(S)
  BY DEF Pool!Cardinality, Cardinality, Pool!IsFiniteSet, IsFiniteSet

(* A step by which no job changes its state and the call does not end.      *)
LEMMA SamePool ==
    ASSUME UNCHANGED call, PoolResult' = PoolResult,
           \A j \in Jobs : StateOf(j)' = StateOf(j)
    PROVE  UNCHANGED Pool!vars
  BY DEF Pool!vars, PoolResult

(* A step by which one job changes its state. *)
LEMMA OneBecomes ==
    ASSUME EngineInv, NEW j \in Jobs, NEW p \in JobPlace, Goto(j, p),
           UNCHANGED call, PoolResult = "none", PoolResult' = "none"
    PROVE  States' = [States EXCEPT ![j] = StateOf(j)'] /\ place'[j] = p
  <1>1. place' = [place EXCEPT ![j] = p] /\ place \in [Jobs -> JobPlace]
    BY DEF EngineInv, TypeOK, Goto
  <1>2. \A i \in Jobs : i # j => StateOf(i)' = StateOf(i)
    BY <1>1 DEF StateOf
  <1> QED
    BY <1>1, <1>2 DEF States

LEMMA PoolMoves ==
    ASSUME EngineInv, NEW j \in Jobs, NEW p \in JobPlace, Goto(j, p),
           UNCHANGED call, PoolResult = "none", PoolResult' = "none",
           NEW s, s = StateOf(j)'
    PROVE  Pool!Become(j, s)
  BY OneBecomes DEF Pool!Become, PoolResult, States

(* The jobs that run are among those in the pool, and leave room for one    *)
(* that is about to start.                                                  *)
LEMMA RoomToStart ==
    ASSUME EngineInv, LimitsRespected, NEW j \in Jobs, place[j] = "starting"
    PROVE  /\ Cardinality(Pool!Running) < WorkerCount
           /\ call.grouped => Cardinality(Pool!RunningOf(j[1])) < Limit[j[1]]
  <1> DEFINE Mine == {i \in Jobs : i[1] = j[1] /\ place[i] \in Threaded}
  <1>1. \A i \in Pool!Running : i \in Jobs /\ place[i] \in {"running", "failing", "finishing"}
    <2> SUFFICES ASSUME NEW i \in Jobs, StateOf(i) = "running"
                 PROVE  place[i] \in {"running", "failing", "finishing"}
      BY DEF Pool!Running
    <2>1. place[i] \in JobPlace
      BY DEF EngineInv, TypeOK
    <2> QED
      BY <2>1 DEF StateOf, JobPlace, Settled
  <1>2. /\ Pool!Running \subseteq Busy \ {j} /\ j \in Busy
        /\ Pool!RunningOf(j[1]) \subseteq Mine \ {j} /\ j \in Mine
    BY <1>1 DEF Busy, Threaded, Pool!RunningOf
  <1>3. ASSUME NEW S, NEW T, T \subseteq Jobs, j \in T, S \subseteq T \ {j}
        PROVE  Cardinality(S) < Cardinality(T) /\ Cardinality(S) \in Nat /\ Cardinality(T) \in Nat
    <2>1. IsFiniteSet(T) /\ IsFiniteSet(T \ {j})
      BY <1>3, JobsFinite, FS_Subset
    <2>2. Cardinality(T \ {j}) = Cardinality(T) - 1
      BY <1>3, <2>1, FS_RemoveElement
    <2>3. Cardinality(S) <= Cardinality(T \ {j})
      BY <1>3, <2>1, FS_Subset
    <2>4. IsFiniteSet(S) /\ Cardinality(S) \in Nat /\ Cardinality(T) \in Nat
      BY <1>3, <2>1, FS_Subset, FS_CardinalityType
    <2> QED
      BY <2>2, <2>3, <2>4
  <1>4. Cardinality(Pool!Running) < WorkerCount
    <2>1. Cardinality(Pool!Running) < Cardinality(Busy) /\ Cardinality(Pool!Running) \in Nat
          /\ Cardinality(Busy) \in Nat
      BY <1>2, <1>3 DEF Busy
    <2> QED
      BY <2>1, WorkerCountType DEF LimitsRespected
  <1>5. ASSUME call.grouped PROVE Cardinality(Pool!RunningOf(j[1])) < Limit[j[1]]
    <2>1. Cardinality(Pool!RunningOf(j[1])) < Cardinality(Mine)
          /\ Cardinality(Pool!RunningOf(j[1])) \in Nat /\ Cardinality(Mine) \in Nat
      BY <1>2, <1>3
    <2>2. Cardinality(Mine) <= Limit[j[1]] /\ Limit[j[1]] \in Nat
      BY <1>5, JobFacts, EngineAssumption DEF LimitsRespected
    <2> QED
      BY <2>1, <2>2
  <1> QED
    BY <1>4, <1>5

(* A step of a thread starts, finishes or drops its job, or shows nothing.  *)
LEMMA PoolThreadStep ==
    ASSUME EngineInv, LimitsRespected, NEW j \in Jobs, Thread(j)
    PROVE  Pool!Start(j) \/ Pool!Finish(j) \/ Pool!Drop(j) \/ UNCHANGED Pool!vars
  <1>1. place[j] \in Threaded /\ UNCHANGED <<call, main>> /\ place \in [Jobs -> JobPlace]
    BY DEF Thread, Begin, TryStart, RunReturns, RunRaises, FailJob, FinishJob, Threaded, mainVars,
           EngineInv, TypeOK
  <1>2. PoolResult = "none" /\ PoolResult' = "none"
    BY <1>1 DEF PoolResult, EngineInv, EndsHonestly
  <1>3. ASSUME NEW p \in JobPlace, Goto(j, p) PROVE Pool!Become(j, StateOf(j)') /\ place'[j] = p
    BY <1>1, <1>2, <1>3, PoolMoves, OneBecomes
  <1>4. ASSUME NEW p \in JobPlace, Goto(j, p), StateOf(j)' = StateOf(j) PROVE UNCHANGED Pool!vars
    <2>1. \A i \in Jobs : StateOf(i)' = StateOf(i)
      BY <1>1, <1>4 DEF Goto, StateOf
    <2> QED
      BY <1>1, <1>2, <2>1, SamePool
  <1>5. States[j] = StateOf(j)
    BY DEF States
  <1> USE DEF JobPlace, Settled
  <1>6. CASE Begin(j)
    <2>1. PICK p \in {"starting", "skipped", "error"} : Goto(j, p)
      BY <1>6 DEF Begin
    <2>2. StateOf(j) = "waiting" /\ place'[j] = p
      BY <1>3, <1>6, <2>1 DEF Begin, StateOf
    <2>3. CASE p = "starting"
      BY <1>4, <2>1, <2>2, <2>3 DEF StateOf
    <2>4. CASE p \in {"skipped", "error"}
      <3>1. StateOf(j)' \in {"skipped", "failed"}
        BY <2>2, <2>4 DEF StateOf
      <3> QED
        BY <1>3, <1>5, <2>1, <2>2, <3>1 DEF Pool!Drop, States
    <2> QED
      BY <2>1, <2>3, <2>4
  <1>7. CASE TryStart(j)
    <2>1. PICK p \in {"running", "refused", "error"} : Goto(j, p)
      BY <1>7 DEF TryStart
    <2>2. StateOf(j) = "waiting" /\ place'[j] = p /\ place[j] = "starting"
      BY <1>3, <1>7, <2>1 DEF TryStart, StateOf
    <2>3. CASE p = "running"
      <3>1. StateOf(j)' = "running"
        BY <2>2, <2>3 DEF StateOf
      <3>2. /\ Cardinality(Pool!Running) < WorkerCount
            /\ call.grouped => Cardinality(Pool!RunningOf(j[1])) < Limit[j[1]]
        BY <2>2, RoomToStart
      <3>3. Pool!Become(j, "running")
        BY <1>3, <2>1, <3>1
      <3> QED
        BY <1>5, <2>2, <3>2, <3>3, SameCount DEF Pool!Start, States
    <2>4. CASE p \in {"refused", "error"}
      <3>1. StateOf(j)' \in {"refused", "failed"}
        BY <2>2, <2>4 DEF StateOf
      <3> QED
        BY <1>3, <1>5, <2>1, <2>2, <3>1 DEF Pool!Drop, States
    <2> QED
      BY <2>1, <2>3, <2>4
  <1>8. ASSUME NEW p \in {"finishing", "failing"}, place[j] = "running", Goto(j, p)
        PROVE  UNCHANGED Pool!vars
    <2>1. place'[j] = p
      BY <1>3, <1>8
    <2> QED
      BY <1>4, <1>8, <2>1 DEF StateOf
  <1>9. ASSUME NEW p \in {"finished", "error"}, place[j] \in {"finishing", "failing"}, Goto(j, p)
        PROVE  Pool!Finish(j)
    <2>1. place'[j] = p
      BY <1>3, <1>9
    <2>2. StateOf(j) = "running" /\ StateOf(j)' \in {"finished", "failed"}
      BY <1>9, <2>1 DEF StateOf
    <2> QED
      BY <1>3, <1>5, <1>9, <2>2 DEF Pool!Finish, States
  <1>10. CASE RunReturns(j) \/ RunRaises(j)
    BY <1>8, <1>10 DEF RunReturns, RunRaises
  <1>11. CASE FailJob(j) \/ FinishJob(j)
    BY <1>9, <1>11 DEF FailJob, FinishJob
  <1> QED
    BY <1>6, <1>7, <1>10, <1>11 DEF Thread

(* A step of the calling thread drops a job, ends the call, or shows nothing. *)
LEMMA PoolMainStep ==
    ASSUME EngineInv, EngineInv', Main
    PROVE  \/ \E j \in Jobs : Pool!Drop(j)
           \/ Pool!Return \/ Pool!Raise \/ UNCHANGED Pool!vars
  <1>1. TypeOK /\ UNCHANGED call
    BY DEF EngineInv, Main, Submit, Drain, EndSubmit, Collect, CheckFailure, EndDrain, SubmitAll,
       Unwind
  <1>2. main \notin Over
    BY DEF Main, Submit, Drain, EndSubmit, Collect, CheckFailure, EndDrain, SubmitAll, Unwind, Over
  <1>3. ASSUME NEW g \in Groups, Submit(g) PROVE UNCHANGED Pool!vars
    <2>1. First(g) \in Jobs /\ place[First(g)] = "queued"
      BY <1>1, <1>3, FirstIsJob DEF Submit, Selected, Eligible, EngineInv, JobsPlaced, TypeOK
    <2>2. \A i \in Jobs : StateOf(i)' = StateOf(i)
      BY <1>1, <1>3, <2>1 DEF Submit, StateOf, TypeOK
    <2>3. PoolResult' = PoolResult
      BY <1>3 DEF Submit, PoolResult
    <2> QED
      BY <1>1, <2>2, <2>3, SamePool
  <1>4. ASSUME NEW g \in Groups, Drain(g) PROVE \E j \in Jobs : Pool!Drop(j)
    <2>1. PICK j \in Jobs : j = First(g) /\ place[j] = "queued"
      BY <1>1, <1>4, FirstIsJob DEF Drain, EngineInv, JobsPlaced, TypeOK
    <2>2. PICK p \in {"skipped", "error"} : Goto(j, p)
      BY <1>4, <2>1 DEF Drain, Goto
    <2>3. PoolResult = "none" /\ PoolResult' = "none"
      BY <1>4 DEF Drain, PoolResult, Over
    <2>4. States[j] = "waiting"
      BY <2>1 DEF StateOf, States
    <2>5. place'[j] = p /\ Pool!Become(j, StateOf(j)')
      BY <1>1, <2>2, <2>3, OneBecomes, PoolMoves DEF JobPlace, Settled
    <2>6. StateOf(j)' \in {"skipped", "failed"}
      BY <2>5 DEF StateOf
    <2> QED
      BY <2>4, <2>5, <2>6 DEF Pool!Drop, States
  <1>5. CASE EndSubmit \/ Collect \/ CheckFailure \/ EndDrain
    <2>1. UNCHANGED place
      BY <1>5 DEF EndSubmit, Collect, CheckFailure, EndDrain
    <2>2. main' \notin Over
      BY <1>5 DEF EndSubmit, Collect, CheckFailure, EndDrain, Over, EngineInv, NeverStuck
    <2> QED
      BY <1>1, <1>2, <2>1, <2>2, SamePool DEF StateOf, PoolResult
  <1>6. CASE SubmitAll
    <2>1. \A j \in Jobs : place[j] = "queued" /\ place'[j] = "submitted"
      BY <1>6 DEF SubmitAll, EngineInv, MainPlaced
    <2>2. main' \notin Over
      BY <1>6 DEF SubmitAll, Over
    <2> QED
      BY <1>1, <1>2, <2>1, <2>2, SamePool DEF StateOf, PoolResult
  <1>7. CASE Unwind
    <2>1. UNCHANGED place /\ main' \in {"returned", "raised"}
      BY <1>7 DEF Unwind
    <2>2. States' = States
      BY <2>1 DEF States, StateOf
    <2>3. PoolResult = "none" /\ PoolResult' = main'
      BY <1>2, <2>1 DEF PoolResult, Over
    <2>4. main' = "returned" => \A j \in Jobs : States[j] \in {"finished", "refused"}
      BY <2>1 DEF EngineInv, EndsHonestly, States, StateOf
    <2>5. main' = "raised" => \E j \in Jobs : States[j] = "failed"
      BY <2>1 DEF EngineInv, EndsHonestly, States, StateOf
    <2>6. \A j \in Jobs : States[j] # "running"
      BY <1>7, <1>1 DEF Unwind, States, StateOf, Threaded, TypeOK, JobPlace, Settled
    <2> QED
      BY <1>1, <2>1, <2>2, <2>3, <2>4, <2>5, <2>6
      DEF Pool!Return, Pool!Raise, Pool!Running, States, PoolResult
  <1> QED
    BY <1>3, <1>4, <1>5, <1>6, <1>7 DEF Main

(* The engine keeps the promise of the pool to its caller, whatever the     *)
(* callbacks raise and however the threads interleave.                      *)
THEOREM EngineKeepsPool == Spec => KeepsPool
  <1>1. Init => Pool!Init
    BY DEF Init, Pool!Init, StateOf, Over
  <1>2. EngineInv /\ EngineInv' /\ LimitsRespected /\ [Next]_vars => [Pool!Next]_(Pool!vars)
    <2> SUFFICES ASSUME EngineInv, EngineInv', LimitsRespected, [Next]_vars
                 PROVE  Pool!Next \/ UNCHANGED Pool!vars
      OBVIOUS
    <2>1. CASE UNCHANGED vars
      BY <2>1, SamePool DEF vars, StateOf, PoolResult
    <2>2. CASE Main
      BY <2>2, PoolMainStep DEF Pool!Next
    <2>3. ASSUME NEW j \in Jobs, Thread(j) PROVE Pool!Next \/ UNCHANGED Pool!vars
      BY <2>3, PoolThreadStep DEF Pool!Next
    <2> QED
      BY <2>1, <2>2, <2>3 DEF Next
  <1> QED
    BY <1>1, <1>2, EngineInvariant, EngineRespectsLimits, PTL DEF Spec, KeepsPool, Pool!Spec
=============================================================================
