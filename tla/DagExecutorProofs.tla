--------------------------- MODULE DagExecutorProofs ---------------------------
(***************************************************************************)
(* What DagExecutor guarantees for every set of workflows, every bound on  *)
(* failing writes and every choice of interrupts.                          *)
(***************************************************************************)
EXTENDS DagExecutorInv, FiniteSetTheorems, WellFoundedInduction, TLAPS

--------------------------------------------------------------------------------
(***************************************************************************)
(* Facts about the graph.                                                  *)
(***************************************************************************)
LEMMA OutLinksType ==
    ASSUME NEW g, IsWorkflow(g), NEW s \in StepsOf(g)
    PROVE  /\ IsFiniteSet(OutLinks(g, s))
           /\ OutLinks(g, s) \subseteq Int
           /\ \A p \in OutLinks(g, s) : Target(g, s, p) \in StepsOf(g)
  <1> DEFINE edges == g.normal[s]
  <1>0. edges \in Seq(Edge(g))
    BY DEF IsWorkflow
  <1>1. /\ Len(edges) \in Nat
        /\ Explicit(g, s) = 1 .. Len(edges)
        /\ \A p \in 1 .. Len(edges) : edges[p].tgt \in StepsOf(g)
    <2>1. \A p \in 1 .. Len(edges) : edges[p] \in Edge(g)
      BY <1>0
    <2> QED
      BY <1>0, <2>1 DEF Explicit, Edge
  <1>2. /\ g.n \in Nat
        /\ ImplicitDownstream(g, s) \subseteq 1 .. g.n
    BY DEF IsWorkflow, ImplicitDownstream, StepsOf
  <1>3. OutLinks(g, s) \subseteq 1 .. (Len(edges) + g.n)
    BY <1>1, <1>2 DEF OutLinks
  <1>4. IsFiniteSet(1 .. (Len(edges) + g.n))
    <2>1. Len(edges) + g.n \in Int
      BY <1>1, <1>2
    <2> QED
      BY <2>1, FS_Interval
  <1>5. \A p \in OutLinks(g, s) : Target(g, s, p) \in StepsOf(g)
    BY <1>1, <1>2 DEF OutLinks, Target, StepsOf
  <1> QED
    BY <1>1, <1>2, <1>3, <1>4, <1>5, FS_Subset

\* A workflow has finitely many links.
LEMMA LinksFinite ==
    ASSUME NEW g, IsWorkflow(g)
    PROVE  IsFiniteSet(Links(g))
  <1> DEFINE f == [s \in StepsOf(g) |-> {s} \X OutLinks(g, s)]
             T == {{s} \X OutLinks(g, s) : s \in StepsOf(g)}
  <1>1. IsFiniteSet(StepsOf(g))
    BY FS_Interval DEF StepsOf, IsWorkflow
  <1>2. f \in Surjection(StepsOf(g), T)
    BY DEF Surjection
  <1>3. IsFiniteSet(T)
    BY <1>1, <1>2, FS_Surjection
  <1>4. ASSUME NEW s \in StepsOf(g)
        PROVE  IsFiniteSet({s} \X OutLinks(g, s))
    BY OutLinksType, FS_Singleton, FS_Product
  <1>5. \A U \in T : IsFiniteSet(U)
    BY <1>4
  <1> QED
    BY <1>3, <1>5, FS_UNION DEF Links

\* A link is a step and one of the step's outgoing links.
LEMMA LinkShape ==
    ASSUME NEW g, IsWorkflow(g)
    PROVE  \A l : l \in Links(g) <=> \E s \in StepsOf(g) : \E p \in OutLinks(g, s) :
                                        l = <<s, p>>
  BY DEF Links

--------------------------------------------------------------------------------
(***************************************************************************)
(* Types.                                                                  *)
(***************************************************************************)
LEMMA InitType == Init => TypeOK
  <1> SUFFICES ASSUME Init PROVE TypeOK
    OBVIOUS
  <1>1. IsWorkflow(wf)
    BY WorkflowsAssumption DEF Init
  <1>2. owed \in [Steps -> SUBSET Int]
    BY <1>1, OutLinksType DEF Init, Steps
  <1>3. \A t \in Steps : InitialInDegree(wf, t) \in Int
    <2> TAKE t \in Steps
    <2>1. IsFiniteSet(InLinks(wf, t))
      BY <1>1, LinksFinite, FS_Subset DEF InLinks
    <2> QED
      BY <2>1, FS_CardinalityType DEF InitialInDegree
  <1> QED
    BY <1>1, <1>2, <1>3, MaxLostAssumption DEF Init, TypeOK, Steps, TerminalStatus

RowStatus == {"pending", "running", "completed", "failed", "skipped"}

\* A write to a step's record keeps the types, whether it succeeds or not.
LEMMA SaveStepType ==
    ASSUME TypeOK, NEW s \in Steps, NEW st \in RowStatus, SaveStep(s, st)
    PROVE  row' \in [Steps -> RowStatus] /\ lost' \in 0 .. MaxLost
  <1>1. row \in [Steps -> RowStatus] /\ lost \in 0 .. MaxLost
    BY DEF TypeOK, RowStatus
  <1>2. row' \in [Steps -> RowStatus]
    BY <1>1 DEF SaveStep
  <1>3. lost' \in 0 .. MaxLost
    BY <1>1, MaxLostAssumption DEF SaveStep, WriteFails
  <1> QED
    BY <1>2, <1>3

\* A write to the execution's record keeps the types, whether it succeeds or not.
LEMMA SaveExecutionType ==
    ASSUME TypeOK, NEW st \in TerminalStatus, SaveExecution(st)
    PROVE  execRow' \in {"running"} \cup TerminalStatus /\ lost' \in 0 .. MaxLost
  BY MaxLostAssumption DEF TypeOK, SaveExecution, WriteFails

\* Every step of the executor keeps the types.
LEMMA NextType == TypeOK /\ [Next]_vars => TypeOK'
  <1> SUFFICES ASSUME TypeOK, [Next]_vars PROVE TypeOK'
    OBVIOUS
  <1> USE DEF engineVars, threadVars, dbVars, outcomeVars, resultVars, queueVars,
              otherVars, Steps, RowStatus, TerminalStatus
  <1>1. ASSUME NEW s \in Steps, BeginStep(s) PROVE TypeOK'
    <2>1. row' \in [Steps -> RowStatus] /\ lost' \in 0 .. MaxLost /\ wf' = wf
      BY <1>1, SaveStepType DEF BeginStep
    <2>2. th' \in [Steps -> {"idle", "spawned", "running", "completing", "failing",
                              "returned"}]
      BY <1>1 DEF BeginStep, Goto, TypeOK
    <2>3. result' \in [Steps -> {"none", "ok", "nil", "true", "false", "err"}]
      BY <1>1 DEF BeginStep, Goto, TypeOK
    <2> QED
      BY <1>1, <2>1, <2>2, <2>3 DEF BeginStep, TypeOK
  <1>2. ASSUME NEW s \in Steps, RunAttempt(s) PROVE TypeOK'
    <2>1. th' \in [Steps -> {"idle", "spawned", "running", "completing", "failing",
                              "returned"}]
      BY <1>2 DEF RunAttempt, Goto, TypeOK
    <2>2. result' \in [Steps -> {"none", "ok", "nil", "true", "false", "err"}]
      BY <1>2 DEF RunAttempt, Goto, RunnerOutputs, TypeOK
    <2>3. attempt' \in [Steps -> Nat]
      BY <1>2 DEF RunAttempt, Goto, TypeOK
    <2> QED
      BY <1>2, <2>1, <2>2, <2>3 DEF RunAttempt, TypeOK
  <1>3. ASSUME NEW s \in Steps, CompleteStep(s) PROVE TypeOK'
    <2>1. row' \in [Steps -> RowStatus] /\ lost' \in 0 .. MaxLost /\ wf' = wf
      BY <1>3, SaveStepType DEF CompleteStep
    <2>2. th' \in [Steps -> {"idle", "spawned", "running", "completing", "failing",
                              "returned"}]
      BY <1>3 DEF CompleteStep, TypeOK
    <2> QED
      BY <1>3, <2>1, <2>2 DEF CompleteStep, TypeOK
  <1>4. ASSUME NEW s \in Steps, FailStep(s) PROVE TypeOK'
    <2>1. row' \in [Steps -> RowStatus] /\ lost' \in 0 .. MaxLost /\ wf' = wf
      BY <1>4, SaveStepType DEF FailStep
    <2>2. th' \in [Steps -> {"idle", "spawned", "running", "completing", "failing",
                              "returned"}]
      BY <1>4 DEF FailStep, TypeOK
    <2> QED
      BY <1>4, <2>1, <2>2 DEF FailStep, TypeOK
  <1>5. CASE StartWave
    BY <1>5 DEF StartWave, Ready, TypeOK
  <1>6. CASE NothingReady
    BY <1>6 DEF NothingReady, TypeOK
  <1>7. CASE AwaitWave
    BY <1>7 DEF AwaitWave, TypeOK
  <1>8. ASSUME NEW s \in Steps, ProcessError(s) PROVE TypeOK'
    BY <1>8 DEF ProcessError, NextResult, ErrorAfter, TypeOK
  <1>9. ASSUME NEW s \in Steps, ProcessOutput(s) PROVE TypeOK'
    BY <1>9 DEF ProcessOutput, NextResult, TypeOK
  <1>10. ASSUME NEW s \in Steps, NEW p \in OutLinks(wf, s), Deliver(s, p) PROVE TypeOK'
    <2>1. Target(wf, s, p) \in Steps
      BY OutLinksType DEF TypeOK
    <2>2. CASE DeliverTaken(s, p)
      BY <2>1, <2>2 DEF DeliverTaken, Delivering, Lowered, TypeOK
    <2>3. CASE SkipIgnored(s, p)
      BY <2>1, <2>3 DEF SkipIgnored, Delivering, TypeOK
    <2>4. CASE SkipDecrement(s, p)
      BY <2>1, <2>4 DEF SkipDecrement, Delivering, Lowered, TypeOK
    <2>5. CASE SkipTarget(s, p)
      <3>1. row' \in [Steps -> RowStatus] /\ lost' \in 0 .. MaxLost /\ wf' = wf
        BY <2>1, <2>5, SaveStepType DEF SkipTarget
      <3>2. stack' \in Seq(Steps)
        BY <2>1, <2>5 DEF SkipTarget, Propagate, TypeOK
      <3>3. owed' \in [Steps -> SUBSET Int]
        BY <2>5 DEF SkipTarget, Delivering, TypeOK
      <3>4. inDegree' \in [Steps -> Int]
        BY <2>1, <2>5 DEF SkipTarget, Lowered, TypeOK
      <3>5. done' \subseteq Steps /\ skipped' \subseteq Steps
        BY <2>1, <2>5 DEF SkipTarget, TypeOK
      <3>6. /\ UNCHANGED <<wf, pc, wave, resultVars, outcomeVars, threadVars, ctx, execRow>>
            /\ pc = "process"
        BY <2>5 DEF SkipTarget, Delivering
      <3> QED
        BY <3>1, <3>2, <3>3, <3>4, <3>5, <3>6 DEF TypeOK
    <2> QED
      BY <1>10, <2>2, <2>3, <2>4, <2>5 DEF Deliver
  <1>11. CASE Delivered
    BY <1>11 DEF Delivered, TypeOK
  <1>12. CASE CheckContext
    BY <1>12 DEF CheckContext, TypeOK
  <1>13. CASE Final
    BY <1>13 DEF Final, Decide, TypeOK
  <1>14. CASE DecideStatus
    BY <1>14 DEF DecideStatus, Decide, TypeOK
  <1>15. CASE DecideReason
    BY <1>15 DEF DecideReason, Decide, TypeOK
  <1>16. CASE SaveOutcome
    <2>1. status \in TerminalStatus
      BY <1>16 DEF SaveOutcome, TypeOK
    <2> QED
      BY <1>16, <2>1, SaveExecutionType DEF SaveOutcome, TypeOK
  <1>17. CASE PublishOutcome
    BY <1>17 DEF PublishOutcome, TypeOK
  <1>18. ASSUME NEW why \in Interrupts, Interrupt(why) PROVE TypeOK'
    BY <1>18, InterruptsAssumption DEF Interrupt, TypeOK
  <1>19. CASE Terminated \/ UNCHANGED vars
    BY <1>19 DEF Terminated, vars, TypeOK
  <1> QED
    BY <1>1, <1>2, <1>3, <1>4, <1>5, <1>6, <1>7, <1>8, <1>9, <1>10, <1>11, <1>12,
       <1>13, <1>14, <1>15, <1>16, <1>17, <1>18, <1>19
    DEF Next, Coordinator, Run

\* Every variable keeps its type, in particular an in-degree is an integer for
\* each step and only steps are on the stack of skipBranch, whatever the graph.
THEOREM TypeCorrect == Spec => []TypeOK
  <1>1. Init => TypeOK
    BY InitType
  <1>2. TypeOK /\ [Next]_vars => TypeOK'
    BY NextType
  <1> QED
    BY <1>1, <1>2, PTL DEF Spec

--------------------------------------------------------------------------------
(***************************************************************************)
(* The goroutines.                                                         *)
(***************************************************************************)
LEMMA ThreadStep == TypeOK /\ ThreadInv /\ [Next]_vars => ThreadInv'
  <1> SUFFICES ASSUME TypeOK, ThreadInv, [Next]_vars PROVE ThreadInv'
    OBVIOUS
  <1>0. /\ th \in [Steps -> {"idle", "spawned", "running", "completing", "failing",
                              "returned"}]
        /\ result \in [Steps -> {"none", "ok", "nil", "true", "false", "err"}]
        /\ wave \subseteq Steps /\ done \subseteq Steps /\ skipped \subseteq Steps
        /\ IsWorkflow(wf)
    BY DEF TypeOK
  <1> USE DEF engineVars, threadVars, dbVars, outcomeVars, resultVars, queueVars,
              otherVars, Steps
  <1>1. ASSUME NEW s \in Steps, BeginStep(s) PROVE ThreadInv'
    BY <1>0, <1>1 DEF BeginStep, Goto, ThreadInv
  <1>2. ASSUME NEW s \in Steps, RunAttempt(s) PROVE ThreadInv'
    BY <1>0, <1>2 DEF RunAttempt, Goto, RunnerOutputs, ThreadInv
  <1>3. ASSUME NEW s \in Steps, CompleteStep(s) PROVE ThreadInv'
    BY <1>0, <1>3 DEF CompleteStep, ThreadInv
  <1>4. ASSUME NEW s \in Steps, FailStep(s) PROVE ThreadInv'
    BY <1>0, <1>4 DEF FailStep, ThreadInv
  <1>5. CASE StartWave
    BY <1>0, <1>5 DEF StartWave, Ready, ThreadInv
  <1>6. CASE NothingReady
    BY <1>0, <1>6 DEF NothingReady, ThreadInv
  <1>7. CASE AwaitWave
    BY <1>0, <1>7 DEF AwaitWave, WaveReturned, ThreadInv
  <1>8. ASSUME NEW s \in Steps, ProcessError(s) PROVE ThreadInv'
    BY <1>0, <1>8 DEF ProcessError, NextResult, ThreadInv
  <1>9. ASSUME NEW s \in Steps, ProcessOutput(s) PROVE ThreadInv'
    BY <1>0, <1>9 DEF ProcessOutput, NextResult, ThreadInv
  <1>10. ASSUME NEW s \in Steps, NEW p \in OutLinks(wf, s), Deliver(s, p)
         PROVE  ThreadInv'
    <2>1. CASE DeliverTaken(s, p)
      BY <1>0, <2>1 DEF DeliverTaken, Delivering, Lowered, ThreadInv
    <2>2. CASE SkipIgnored(s, p)
      BY <1>0, <2>2 DEF SkipIgnored, ThreadInv
    <2>3. CASE SkipDecrement(s, p)
      BY <1>0, <2>3 DEF SkipDecrement, ThreadInv
    <2>4. CASE SkipTarget(s, p)
      <3>1. Target(wf, s, p) \in Steps \ done
        BY <1>0, <2>4, OutLinksType DEF SkipTarget, Delivering, Lowered, Propagate
      <3> QED
        BY <1>0, <2>4, <3>1 DEF SkipTarget, Delivering, Lowered, Propagate, ThreadInv
    <2> QED
      BY <1>10, <2>1, <2>2, <2>3, <2>4 DEF Deliver
  <1>11. CASE Delivered
    BY <1>0, <1>11 DEF Delivered, ThreadInv
  <1>12. CASE CheckContext
    BY <1>0, <1>12 DEF CheckContext, ThreadInv
  <1>13. CASE Final \/ DecideStatus \/ DecideReason
    BY <1>0, <1>13 DEF Final, DecideStatus, DecideReason, Decide, ThreadInv
  <1>14. CASE SaveOutcome \/ PublishOutcome
    BY <1>0, <1>14 DEF SaveOutcome, PublishOutcome, ThreadInv
  <1>15. ASSUME NEW why \in Interrupts, Interrupt(why) PROVE ThreadInv'
    BY <1>0, <1>15 DEF Interrupt, ThreadInv
  <1>16. CASE Terminated \/ UNCHANGED vars
    BY <1>0, <1>16 DEF Terminated, vars, ThreadInv
  <1> QED
    BY <1>1, <1>2, <1>3, <1>4, <1>5, <1>6, <1>7, <1>8, <1>9, <1>10, <1>11, <1>12,
       <1>13, <1>14, <1>15, <1>16
    DEF Next, Coordinator, Run

\* Whatever the graph, the runners, the failing writes and the interrupts: no
\* goroutine of a step is at work while results are processed or after the end.
THEOREM NoStray == Spec => []NoStrayGoroutines
  <1>1. Init => ThreadInv
    BY DEF Init, ThreadInv, Steps
  <1>2. ThreadInv => NoStrayGoroutines
    BY DEF ThreadInv, NoStrayGoroutines
  <1> QED
    BY <1>1, <1>2, TypeCorrect, ThreadStep, PTL DEF Spec

--------------------------------------------------------------------------------
(***************************************************************************)
(* The rows of the steps.                                                  *)
(***************************************************************************)
LEMMA RowStep ==
    TypeOK /\ ThreadInv /\ RowInv /\ [Next]_vars => RowInv'
  <1> SUFFICES ASSUME TypeOK, ThreadInv, RowInv, [Next]_vars PROVE RowInv'
    OBVIOUS
  <1>0. /\ th \in [Steps -> {"idle", "spawned", "running", "completing", "failing",
                              "returned"}]
        /\ row \in [Steps -> RowStatus]
        /\ wave \subseteq Steps /\ done \subseteq Steps /\ skipped \subseteq Steps
        /\ IsWorkflow(wf)
    BY DEF TypeOK, RowStatus
  <1> USE DEF engineVars, threadVars, dbVars, outcomeVars, resultVars, queueVars,
              otherVars, Steps, RowStatus
  <1>1. ASSUME NEW s \in Steps, BeginStep(s) PROVE RowInv'
    <2>1. row' = row \/ row' = [row EXCEPT ![s] = "running"]
      BY <1>1 DEF BeginStep, SaveStep
    <2>2. /\ th[s] = "spawned"
          /\ \E place \in {"failing", "running", "completing"} :
               th' = [th EXCEPT ![s] = place]
          /\ UNCHANGED <<wf, skipped>>
      BY <1>1 DEF BeginStep, Goto
    <2> QED
      BY <1>0, <2>1, <2>2 DEF RowInv
  <1>2. ASSUME NEW s \in Steps, RunAttempt(s) PROVE RowInv'
    BY <1>0, <1>2 DEF RunAttempt, Goto, RowInv
  <1>3. ASSUME NEW s \in Steps, CompleteStep(s) \/ FailStep(s)
        PROVE  RowInv'
    <2>1. /\ row' = row \/ row' = [row EXCEPT ![s] = "completed"]
                        \/ row' = [row EXCEPT ![s] = "failed"]
          /\ th[s] \in {"completing", "failing"}
          /\ th' = [th EXCEPT ![s] = "returned"]
          /\ UNCHANGED <<wf, skipped>>
      BY <1>3 DEF CompleteStep, FailStep, SaveStep
    <2>2. s \notin skipped
      BY <2>1 DEF ThreadInv
    <2> QED
      BY <1>0, <2>1, <2>2 DEF RowInv
  <1>4. CASE StartWave
    <2>1. \A s \in Ready : s \in Steps /\ s \notin skipped /\ th[s] = "idle"
      BY DEF Ready, ThreadInv
    <2>2. \A s \in Ready : row[s] = "pending"
      BY <1>0, <2>1 DEF RowInv
    <2> QED
      BY <1>0, <1>4, <2>1, <2>2 DEF StartWave, RowInv
  <1>5. CASE NothingReady \/ AwaitWave \/ Delivered \/ CheckContext
    BY <1>5 DEF NothingReady, AwaitWave, Delivered, CheckContext, RowInv
  <1>6. ASSUME NEW s \in Steps, ProcessError(s) \/ ProcessOutput(s)
        PROVE  RowInv'
    BY <1>6 DEF ProcessError, ProcessOutput, RowInv
  <1>7. ASSUME NEW s \in Steps, NEW p \in OutLinks(wf, s), Deliver(s, p)
        PROVE  RowInv'
    <2>1. CASE DeliverTaken(s, p) \/ SkipIgnored(s, p) \/ SkipDecrement(s, p)
      BY <2>1 DEF DeliverTaken, Delivering, Lowered, SkipIgnored, SkipDecrement,
                  RowInv
    <2>2. CASE SkipTarget(s, p)
      <3> DEFINE t == Target(wf, s, p)
      <3>1. t \in Steps \ done
        BY <1>0, <2>2, OutLinksType DEF SkipTarget, Delivering, Lowered, Propagate
      <3>2. row[t] = "pending"
        BY <1>0, <3>1 DEF ThreadInv, RowInv
      <3>3. /\ row' = row \/ row' = [row EXCEPT ![t] = "skipped"]
            /\ skipped' = skipped \cup {t}
            /\ UNCHANGED <<wf, th>>
        BY <2>2 DEF SkipTarget, Delivering, Lowered, Propagate, SaveStep
      <3>4. th[t] = "idle"
        BY <3>1 DEF ThreadInv
      <3> HIDE DEF t
      <3> QED
        BY <1>0, <3>1, <3>2, <3>3, <3>4 DEF RowInv
    <2> QED
      BY <1>7, <2>1, <2>2 DEF Deliver
  <1>8. CASE Final \/ DecideStatus \/ DecideReason
    BY <1>8 DEF Final, DecideStatus, DecideReason, Decide, RowInv
  <1>9. CASE SaveOutcome \/ PublishOutcome
    BY <1>9 DEF SaveOutcome, PublishOutcome, RowInv
  <1>10. ASSUME NEW why \in Interrupts, Interrupt(why) PROVE RowInv'
    BY <1>10 DEF Interrupt, RowInv
  <1>11. CASE Terminated \/ UNCHANGED vars
    BY <1>11 DEF Terminated, vars, RowInv
  <1> QED
    BY <1>1, <1>2, <1>3, <1>4, <1>5, <1>6, <1>7, <1>8, <1>9, <1>10, <1>11
    DEF Next, Coordinator, Run

--------------------------------------------------------------------------------
(***************************************************************************)
(* The failures processed so far: only ProcessError adds one.              *)
(***************************************************************************)
LEMMA FailedGrows ==
    ASSUME TypeOK, ThreadInv, NEW s \in Steps, ProcessError(s)
    PROVE  Failed' = Failed \cup {s} /\ wf' = wf
  BY DEF ProcessError, NextResult, Failed, ThreadInv, otherVars, threadVars

\* No step of the executor but ProcessError changes which failures were processed.
LEMMA FailedKept ==
    ASSUME TypeOK, ThreadInv, FlowInv, [Next]_vars
    PROVE  (Failed' = Failed /\ wf' = wf) \/ \E s \in Steps : ProcessError(s)
  <1> USE DEF engineVars, threadVars, dbVars, outcomeVars, resultVars, queueVars,
              otherVars
  <1>0. /\ result \in [Steps -> {"none", "ok", "nil", "true", "false", "err"}]
        /\ wave \subseteq Steps /\ done \subseteq Steps
        /\ IsWorkflow(wf)
    BY DEF TypeOK
  <1>1. ASSUME NEW s \in Steps, BeginStep(s) \/ RunAttempt(s)
        PROVE  Failed' = Failed /\ wf' = wf
    <2>1. /\ s \in wave
          /\ \/ result' = result
             \/ \E r \in {"none", "ok", "nil", "true", "false", "err"} :
                  result' = [result EXCEPT ![s] = r]
          /\ UNCHANGED <<wf, done, wave>>
      BY <1>1 DEF BeginStep, RunAttempt, Goto, RunnerOutputs, ThreadInv
    <2> QED
      BY <1>0, <2>1 DEF Failed
  <1>2. ASSUME NEW s \in Steps, CompleteStep(s) \/ FailStep(s)
        PROVE  Failed' = Failed /\ wf' = wf
    BY <1>2 DEF CompleteStep, FailStep, Failed
  <1>3. StartWave => Failed' = Failed /\ wf' = wf
    BY DEF StartWave, Ready, Failed, FlowInv
  <1>4. NothingReady \/ AwaitWave \/ Delivered \/ CheckContext
          => Failed' = Failed /\ wf' = wf
    BY DEF NothingReady, AwaitWave, Delivered, CheckContext, Failed
  <1>5. ASSUME NEW s \in Steps, ProcessOutput(s) PROVE Failed' = Failed /\ wf' = wf
    BY <1>5 DEF ProcessOutput, NextResult, Failed
  <1>6. ASSUME NEW s \in Steps, NEW p \in OutLinks(wf, s), Deliver(s, p)
        PROVE  Failed' = Failed /\ wf' = wf
    <2>1. CASE DeliverTaken(s, p) \/ SkipIgnored(s, p) \/ SkipDecrement(s, p)
      BY <2>1 DEF DeliverTaken, Delivering, Lowered, SkipIgnored, SkipDecrement, Failed
    <2>2. CASE SkipTarget(s, p)
      <3> DEFINE t == Target(wf, s, p)
      <3>1. t \in Steps \ done
        BY <1>0, <2>2, OutLinksType DEF SkipTarget, Delivering, Lowered, Propagate,
                                        Steps
      <3>2. result[t] = "none"
        BY <3>1 DEF ThreadInv
      <3>3. done' = done \cup {t} /\ UNCHANGED <<wf, wave, result>>
        BY <2>2 DEF SkipTarget, Delivering, Lowered, Propagate
      <3> HIDE DEF t
      <3> QED
        BY <3>2, <3>3 DEF Failed
    <2> QED
      BY <1>6, <2>1, <2>2 DEF Deliver
  <1>7. Final \/ DecideStatus \/ DecideReason => Failed' = Failed /\ wf' = wf
    BY DEF Final, DecideStatus, DecideReason, Decide, Failed
  <1>8. SaveOutcome \/ PublishOutcome => Failed' = Failed /\ wf' = wf
    BY DEF SaveOutcome, PublishOutcome, Failed
  <1>9. ASSUME NEW why \in Interrupts, Interrupt(why) PROVE Failed' = Failed /\ wf' = wf
    BY <1>9 DEF Interrupt, Failed
  <1>10. Terminated \/ UNCHANGED vars => Failed' = Failed /\ wf' = wf
    BY DEF Terminated, vars, Failed
  <1> QED
    BY <1>1, <1>2, <1>3, <1>4, <1>5, <1>6, <1>7, <1>8, <1>9, <1>10
    DEF Next, Coordinator, Run

--------------------------------------------------------------------------------
(***************************************************************************)
(* The delivery of outcomes.                                               *)
(***************************************************************************)
LEMMA FlowStep == TypeOK /\ ThreadInv /\ FlowInv /\ [Next]_vars => FlowInv'
  <1> SUFFICES ASSUME TypeOK, ThreadInv, FlowInv, [Next]_vars PROVE FlowInv'
    OBVIOUS
  <1> USE DEF engineVars, threadVars, dbVars, outcomeVars, resultVars, queueVars,
              otherVars
  <1>0. /\ result \in [Steps -> {"none", "ok", "nil", "true", "false", "err"}]
        /\ wave \subseteq Steps /\ done \subseteq Steps /\ skipped \subseteq Steps
        /\ stepOutputs \subseteq Steps
        /\ stack \in Seq(Steps)
        /\ owed \in [Steps -> SUBSET Int]
        /\ IsWorkflow(wf)
    BY DEF TypeOK
  <1>1. ASSUME NEW s \in Steps, BeginStep(s) \/ RunAttempt(s) PROVE FlowInv'
    <2>1. /\ s \in wave /\ pc = "wave"
          /\ \/ result' = result
             \/ \E r \in {"none", "ok", "nil", "true", "false", "err"} :
                  result' = [result EXCEPT ![s] = r]
          /\ UNCHANGED <<wf, engineVars>>
      BY <1>1 DEF BeginStep, RunAttempt, Goto, RunnerOutputs, ThreadInv
    <2>2. \A r \in done \ wave : result'[r] = result[r]
      BY <1>0, <2>1
    <2> QED
      BY <1>0, <2>1, <2>2 DEF FlowInv, Failed, Settled
  <1>2. ASSUME NEW s \in Steps, CompleteStep(s) \/ FailStep(s) PROVE FlowInv'
    BY <1>2 DEF CompleteStep, FailStep, FlowInv, Failed, Settled
  <1>3. CASE StartWave
    BY <1>0, <1>3 DEF StartWave, Ready, ThreadInv, FlowInv, Failed, Settled
  <1>4. CASE NothingReady \/ AwaitWave \/ CheckContext
    BY <1>4 DEF NothingReady, AwaitWave, CheckContext, FlowInv, Failed, Settled
  <1>5. ASSUME NEW s \in Steps, ProcessError(s) PROVE FlowInv'
    BY <1>0, <1>5 DEF ProcessError, NextResult, ThreadInv, FlowInv, Failed, Settled
  <1>6. ASSUME NEW s \in Steps, ProcessOutput(s) PROVE FlowInv'
    <2>1. /\ stack = <<>> /\ stack' = <<s>> /\ s \in wave /\ pc = "process"
          /\ result[s] # "err"
          /\ wave' = wave \ {s}
          /\ stepOutputs' = stepOutputs \cup {s}
          /\ UNCHANGED <<wf, pc, done, skipped, result, owed>>
      BY <1>6 DEF ProcessOutput, NextResult
    <2>2. Len(stack') = 1 /\ stack'[1] = s
      BY <2>1
    <2>3. \A r \in Settled : owed[r] = {}
      BY <2>1 DEF FlowInv
    <2> QED
      BY <1>0, <2>1, <2>2, <2>3 DEF ThreadInv, FlowInv, Failed, Settled
  <1>7. ASSUME NEW s \in Steps, NEW p \in OutLinks(wf, s), Deliver(s, p) PROVE FlowInv'
    <2>1. CASE DeliverTaken(s, p) \/ SkipIgnored(s, p) \/ SkipDecrement(s, p)
      <3>1. /\ pc = "process" /\ owed' = [owed EXCEPT ![s] = @ \ {p}]
            /\ UNCHANGED <<wf, pc, wave, stack, done, skipped, stepOutputs, result>>
        BY <2>1 DEF DeliverTaken, Delivering, Lowered, SkipIgnored, SkipDecrement
      <3>2. \A r \in Steps : owed'[r] \subseteq owed[r]
        BY <1>0, <3>1
      <3> QED
        BY <1>0, <3>1, <3>2 DEF FlowInv, Failed, Settled
    <2>2. CASE SkipTarget(s, p)
      <3> DEFINE t == Target(wf, s, p)
      <3>1. t \in Steps \ done
        BY <1>0, <2>2, OutLinksType DEF SkipTarget, Delivering, Lowered, Propagate,
                                        Steps
      <3>2. t \notin wave
        BY <3>1 DEF ThreadInv
      <3>3. /\ pc = "process" /\ owed' = [owed EXCEPT ![s] = @ \ {p}]
            /\ skipped' = skipped \cup {t}
            /\ done' = done \cup {t}
            /\ stack' = <<t>> \o stack
            /\ UNCHANGED <<wf, pc, wave, stepOutputs, result>>
        BY <2>2 DEF SkipTarget, Delivering, Propagate
      <3> HIDE DEF t
      <3>4. \A r \in Steps : owed'[r] \subseteq owed[r]
        BY <1>0, <3>3
      <3>5. /\ Len(stack') = Len(stack) + 1
            /\ stack'[1] = t
            /\ \A i \in 1 .. Len(stack) : stack'[i + 1] = stack[i]
            /\ \A i \in 2 .. Len(stack') : stack'[i] = stack[i - 1]
        BY <1>0, <3>1, <3>3
      <3>6. \A i \in 1 .. Len(stack') : stack'[i] \in Settled'
        <4>1. \A i \in 1 .. Len(stack') : i = 1 \/ i - 1 \in 1 .. Len(stack)
          BY <1>0, <3>5
        <4> QED
          BY <1>0, <3>3, <3>5, <4>1 DEF FlowInv, Settled
      <3>7. \A r \in Settled' : owed'[r] # {} => \E i \in 1 .. Len(stack') : stack'[i] = r
        <4> SUFFICES ASSUME NEW r \in Settled', owed'[r] # {}
                     PROVE  \E i \in 1 .. Len(stack') : stack'[i] = r
          OBVIOUS
        <4>1. CASE r = t
          BY <1>0, <3>5, <4>1
        <4>2. CASE r # t
          <5>1. r \in Settled /\ owed[r] # {}
            BY <1>0, <3>3, <3>4, <4>2 DEF Settled
          <5>2. PICK i \in 1 .. Len(stack) : stack[i] = r
            BY <5>1 DEF FlowInv
          <5>3. i + 1 \in 1 .. Len(stack') /\ stack'[i + 1] = r
            BY <1>0, <3>5, <5>2
          <5> QED
            BY <5>3
        <4> QED
          BY <4>1, <4>2
      <3> QED
        BY <1>0, <3>1, <3>2, <3>3, <3>6, <3>7 DEF FlowInv, Failed, Settled
    <2> QED
      BY <1>7, <2>1, <2>2 DEF Deliver
  <1>8. CASE Delivered
    <2>1. /\ pc = "process" /\ stack # <<>> /\ owed[Head(stack)] = {}
          /\ stack' = Tail(stack)
          /\ UNCHANGED <<wf, pc, wave, owed, done, skipped, stepOutputs, result>>
      BY <1>8 DEF Delivered
    <2>2. /\ Head(stack) = stack[1]
          /\ Len(stack') = Len(stack) - 1
          /\ \A i \in 1 .. Len(stack') : i + 1 \in 1 .. Len(stack) /\ stack'[i] = stack[i + 1]
          /\ \A i \in 1 .. Len(stack) : i # 1 => /\ i - 1 \in 1 .. Len(stack')
                                                /\ stack'[i - 1] = stack[i]
      BY <1>0, <2>1
    <2>3. \A i \in 1 .. Len(stack') : stack'[i] \in Settled
      BY <2>2 DEF FlowInv
    <2>4. \A r \in Settled : owed[r] # {} => \E i \in 1 .. Len(stack') : stack'[i] = r
      <3> SUFFICES ASSUME NEW r \in Settled, owed[r] # {}
                   PROVE  \E i \in 1 .. Len(stack') : stack'[i] = r
        OBVIOUS
      <3>1. PICK i \in 1 .. Len(stack) : stack[i] = r
        BY DEF FlowInv
      <3>2. i # 1
        BY <2>1, <2>2, <3>1
      <3> QED
        BY <2>2, <3>1, <3>2
    <2> QED
      BY <2>1, <2>3, <2>4 DEF FlowInv, Failed, Settled
  <1>9. CASE Final \/ DecideStatus \/ DecideReason
    BY <1>9 DEF Final, DecideStatus, DecideReason, Decide, FlowInv, Failed, Settled
  <1>10. CASE SaveOutcome \/ PublishOutcome
    BY <1>10 DEF SaveOutcome, PublishOutcome, FlowInv, Failed, Settled
  <1>11. ASSUME NEW why \in Interrupts, Interrupt(why) PROVE FlowInv'
    BY <1>11 DEF Interrupt, FlowInv, Failed, Settled
  <1>12. CASE Terminated \/ UNCHANGED vars
    BY <1>12 DEF Terminated, vars, FlowInv, Failed, Settled
  <1> QED
    BY <1>1, <1>2, <1>3, <1>4, <1>5, <1>6, <1>7, <1>8, <1>9, <1>10, <1>11, <1>12
    DEF Next, Coordinator, Run

--------------------------------------------------------------------------------
(***************************************************************************)
(* The in-degrees count the links still owed.                              *)
(***************************************************************************)
LEMMA OwingFinite ==
    ASSUME IsWorkflow(wf), NEW t
    PROVE  IsFiniteSet(Owing(t))
  BY LinksFinite, FS_Subset DEF Owing, InLinks

\* Delivering along a link takes it from what its target is owed, and from
\* nothing else.
LEMMA OwingDelivered ==
    ASSUME TypeOK, NEW s \in Steps, NEW p \in OutLinks(wf, s), p \in owed[s],
           owed' = [owed EXCEPT ![s] = @ \ {p}], wf' = wf,
           NEW t \in Steps, t = Target(wf, s, p)
    PROVE  /\ Owing(t)' = Owing(t) \ {<<s, p>>}
           /\ <<s, p>> \in Owing(t)
           /\ \A u \in Steps : u # t => Owing(u)' = Owing(u)
           /\ \A u \in Steps : Owing(u)' \subseteq Owing(u)
  <1>0. owed \in [Steps -> SUBSET Int] /\ IsWorkflow(wf)
    BY DEF TypeOK
  <1>1. \A l \in Links(wf) : l = <<l[1], l[2]>> /\ l[1] \in Steps
    BY <1>0, LinkShape DEF Steps
  <1>2. <<s, p>> \in Links(wf)
    BY <1>0, LinkShape DEF Steps
  <1>3. \A l \in Links(wf) : l[2] \in owed'[l[1]] <=> l[2] \in owed[l[1]] /\ l # <<s, p>>
    BY <1>0, <1>1
  <1>4. \A u : Owing(u) = {l \in Links(wf) : /\ Target(wf, l[1], l[2]) = u
                                          /\ l[2] \in owed[l[1]]}
    BY DEF Owing, InLinks
  <1>5. \A u : Owing(u)' = {l \in Links(wf) : /\ Target(wf, l[1], l[2]) = u
                                           /\ l[2] \in owed'[l[1]]}
    BY DEF Owing, InLinks
  <1>6. \A u : Owing(u)' = Owing(u) \ {<<s, p>>}
    BY <1>3, <1>4, <1>5
  <1>7. \A u : <<s, p>> \in Owing(u) <=> u = t
    BY <1>2, <1>4
  <1> QED
    BY <1>6, <1>7

\* Every step of the executor keeps each in-degree equal to the links still owed.
LEMMA CountStep == TypeOK /\ ThreadInv /\ FlowInv /\ CountInv /\ [Next]_vars => CountInv'
  <1> SUFFICES ASSUME TypeOK, ThreadInv, FlowInv, CountInv, [Next]_vars PROVE CountInv'
    OBVIOUS
  <1> USE DEF engineVars, threadVars, dbVars, outcomeVars, resultVars, queueVars,
              otherVars
  <1>0. /\ wave \subseteq Steps /\ done \subseteq Steps /\ skipped \subseteq Steps
        /\ stepOutputs \subseteq Steps
        /\ owed \in [Steps -> SUBSET Int]
        /\ inDegree \in [Steps -> Int]
        /\ th \in [Steps -> {"idle", "spawned", "running", "completing", "failing",
                              "returned"}]
        /\ IsWorkflow(wf)
    BY DEF TypeOK
  \* Whatever changes neither owed, done, inDegree nor Settled, and starts nothing.
  <1>1. ASSUME UNCHANGED <<wf, owed, done, inDegree, stepOutputs, skipped>>,
               Failed' = Failed,
               \A s \in Steps : th'[s] # "idle" => th[s] # "idle"
        PROVE  CountInv'
    BY <1>1 DEF CountInv, Owing, Settled, Forced, Steps
  <1>2. ASSUME NEW s \in Steps, ProcessError(s) PROVE CountInv'
    <2>1. Failed' = Failed \cup {s} /\ wf' = wf
      BY <1>2, FailedGrows
    <2>2. /\ inDegree' = [t \in Steps |-> IF t \in wf.error[s] THEN 0 ELSE inDegree[t]]
          /\ UNCHANGED <<owed, done, skipped, stepOutputs, th>>
      BY <1>2 DEF ProcessError
    <2>3. Forced' = Forced \cup wf.error[s]
      BY <2>1 DEF Forced
    <2> QED
      BY <1>0, <2>1, <2>2, <2>3 DEF CountInv, Owing, Settled, Steps
  <1>3. CASE \E s \in Steps : ProcessError(s)
    BY <1>2, <1>3
  <1>4. CASE ~\E s \in Steps : ProcessError(s)
    <2>0. Failed' = Failed /\ wf' = wf /\ Forced' = Forced
      BY <1>4, FailedKept DEF Forced
    <2>1. ASSUME NEW s \in Steps, Run(s) PROVE CountInv'
      <3>1. /\ UNCHANGED <<owed, done, inDegree, stepOutputs, skipped>>
            /\ th[s] # "idle"
            /\ \E place \in {"running", "completing", "failing", "returned"} :
                 th' = th \/ th' = [th EXCEPT ![s] = place]
        BY <2>1 DEF Run, BeginStep, RunAttempt, CompleteStep, FailStep, Goto
      <3> QED
        BY <1>0, <1>1, <2>0, <3>1
    <2>2. CASE StartWave
      <3>1. /\ done' = done \cup Ready
            /\ th' = [s \in Steps |-> IF s \in Ready THEN "spawned" ELSE th[s]]
            /\ UNCHANGED <<owed, inDegree, stepOutputs, skipped>>
        BY <2>2 DEF StartWave
      <3>2. ASSUME NEW t \in Ready, t \notin Forced PROVE Owing(t) = {}
        <4>1. t \in Steps \ done /\ inDegree[t] <= 0
          BY DEF Ready
        <4>2. inDegree[t] = Cardinality(Owing(t))
          BY <3>2, <4>1 DEF CountInv
        <4>3. Cardinality(Owing(t)) \in Nat
          BY <1>0, OwingFinite, FS_CardinalityType
        <4> QED
          BY <1>0, <4>1, <4>2, <4>3, OwingFinite, FS_EmptySet
      <3>3. \A t \in Steps : Owing(t)' = Owing(t)
        BY <2>0, <3>1 DEF Owing
      <3>4. \A t \in Steps : th'[t] # "idle" => th[t] # "idle" \/ t \in Ready
        BY <1>0, <3>1
      <3> QED
        BY <2>0, <3>1, <3>2, <3>3, <3>4 DEF CountInv, Settled, Steps
    <2>3. ASSUME NEW s \in Steps, ProcessOutput(s) PROVE CountInv'
      <3>1. /\ stepOutputs' = stepOutputs \cup {s}
            /\ UNCHANGED <<owed, done, inDegree, skipped, th>>
        BY <2>3 DEF ProcessOutput
      <3> QED
        BY <2>0, <3>1 DEF CountInv, Owing, Settled, Steps
    <2>4. ASSUME NEW s \in Steps, NEW p \in OutLinks(wf, s), Deliver(s, p)
          PROVE  CountInv'
      <3>0. PICK t \in Steps : t = Target(wf, s, p)
        BY <1>0, OutLinksType DEF Steps
      <3>1. /\ p \in owed[s]
            /\ owed' = [owed EXCEPT ![s] = @ \ {p}]
            /\ stack # <<>> /\ s = Head(stack)
            /\ UNCHANGED <<th, stepOutputs>>
        BY <2>4 DEF Deliver, DeliverTaken, Delivering, Lowered, SkipIgnored,
                    SkipDecrement, SkipTarget
      <3>2. s \in Settled
        <4>1. stack \in Seq(Steps)
          BY DEF TypeOK
        <4> QED
          BY <3>1, <4>1 DEF FlowInv
      <3>4. /\ Owing(t)' = Owing(t) \ {<<s, p>>}
            /\ <<s, p>> \in Owing(t)
            /\ \A u \in Steps : u # t => Owing(u)' = Owing(u)
            /\ \A u \in Steps : Owing(u)' \subseteq Owing(u)
        BY <2>0, <3>0, <3>1, OwingDelivered
      <3>5. /\ Cardinality(Owing(t)) \in Nat
            /\ Cardinality(Owing(t)') = Cardinality(Owing(t)) - 1
        <4>1. IsFiniteSet(Owing(t))
          BY <1>0, OwingFinite
        <4>2. Cardinality(Owing(t) \ {<<s, p>>}) = Cardinality(Owing(t)) - 1
          BY <3>4, <4>1, FS_RemoveElement
        <4> QED
          BY <3>4, <4>1, <4>2, FS_CardinalityType
      <3>6. /\ \A u \in Steps : owed'[u] \subseteq owed[u]
            /\ \A u \in Steps : u # s => owed'[u] = owed[u]
        BY <1>0, <3>1
      <3>7. /\ \A u \in Steps : owed'[u] \subseteq OutLinks(wf, u)
            /\ \A u \in Steps \ Settled : owed'[u] = OutLinks(wf, u)
            /\ \A u \in Steps : th[u] # "idle" /\ u \notin Forced => Owing(u)' = {}
        BY <3>2, <3>4, <3>6 DEF CountInv
      <3>8. CASE DeliverTaken(s, p) \/ SkipDecrement(s, p)
        <4>1. /\ inDegree' = [inDegree EXCEPT ![t] = @ - 1]
              /\ UNCHANGED <<done, skipped>>
          BY <3>0, <3>8 DEF DeliverTaken, Delivering, Lowered, SkipDecrement
        <4>2. \A u \in Steps \ done : IF u \in Forced THEN inDegree'[u] <= 0
                                     ELSE inDegree'[u] = Cardinality(Owing(u)')
          <5> SUFFICES ASSUME NEW u \in Steps \ done
                       PROVE  IF u \in Forced THEN inDegree'[u] <= 0
                              ELSE inDegree'[u] = Cardinality(Owing(u)')
            OBVIOUS
          <5>1. /\ inDegree[u] \in Int
                /\ u = t => inDegree'[u] = inDegree[u] - 1
                /\ u # t => inDegree'[u] = inDegree[u]
            BY <1>0, <4>1
          <5>2. IF u \in Forced THEN inDegree[u] <= 0
                ELSE inDegree[u] = Cardinality(Owing(u))
            BY DEF CountInv
          <5>3. CASE u = t
            BY <3>5, <5>1, <5>2, <5>3
          <5>4. CASE u # t
            <6>1. Owing(u)' = Owing(u)
              BY <3>4, <5>4
            <6> QED
              BY <5>1, <5>2, <5>4, <6>1
          <5> QED
            BY <5>3, <5>4
        <4> QED
          BY <2>0, <3>1, <3>7, <4>1, <4>2 DEF CountInv, Settled, Steps
      <3>9. CASE SkipIgnored(s, p)
        <4>1. t \in done /\ UNCHANGED <<inDegree, done, skipped>>
          BY <3>0, <3>9 DEF SkipIgnored
        <4>2. \A u \in Steps \ done : IF u \in Forced THEN inDegree'[u] <= 0
                                     ELSE inDegree'[u] = Cardinality(Owing(u)')
          BY <3>4, <4>1 DEF CountInv
        <4> QED
          BY <2>0, <3>1, <3>7, <4>1, <4>2 DEF CountInv, Settled, Steps
      <3>10. CASE SkipTarget(s, p)
        <4>1. /\ inDegree' = [inDegree EXCEPT ![t] = @ - 1]
              /\ skipped' = skipped \cup {t}
              /\ done' = done \cup {t}
          BY <3>0, <3>10 DEF SkipTarget, Delivering, Lowered, Propagate
        <4>2. \A u \in Steps \ done' : IF u \in Forced THEN inDegree'[u] <= 0
                                      ELSE inDegree'[u] = Cardinality(Owing(u)')
          BY <1>0, <3>4, <4>1 DEF CountInv
        <4> QED
          BY <2>0, <3>1, <3>7, <4>1, <4>2 DEF CountInv, Settled, Steps
      <3> QED
        BY <2>4, <3>8, <3>9, <3>10 DEF Deliver
    <2>5. CASE NothingReady \/ AwaitWave \/ Delivered \/ CheckContext
      BY <1>1, <2>0, <2>5 DEF NothingReady, AwaitWave, Delivered, CheckContext
    <2>6. CASE Final \/ DecideStatus \/ DecideReason
      BY <1>1, <2>0, <2>6 DEF Final, DecideStatus, DecideReason, Decide
    <2>7. CASE SaveOutcome \/ PublishOutcome
      BY <1>1, <2>0, <2>7 DEF SaveOutcome, PublishOutcome
    <2>8. ASSUME NEW why \in Interrupts, Interrupt(why) PROVE CountInv'
      BY <1>1, <2>0, <2>8 DEF Interrupt
    <2>9. CASE Terminated \/ UNCHANGED vars
      BY <1>1, <2>0, <2>9 DEF Terminated, vars
    <2> QED
      BY <1>4, <2>1, <2>2, <2>3, <2>4, <2>5, <2>6, <2>7, <2>8, <2>9
      DEF Next, Coordinator
  <1> QED
    BY <1>3, <1>4

--------------------------------------------------------------------------------
(***************************************************************************)
(* What the waves guarantee.                                               *)
(***************************************************************************)
LEMMA InitInv == Init => ThreadInv /\ FlowInv /\ CountInv
  <1> SUFFICES ASSUME Init PROVE ThreadInv /\ FlowInv /\ CountInv
    OBVIOUS
  <1>1. ThreadInv
    BY DEF Init, ThreadInv, Steps
  <1>2. FlowInv
    BY DEF Init, FlowInv, Settled, Failed
  <1>3. IsWorkflow(wf)
    BY WorkflowsAssumption DEF Init
  <1>4. \A t \in Steps : Owing(t) = InLinks(wf, t)
    <2>1. \A l \in Links(wf) : l[1] \in Steps /\ l[2] \in OutLinks(wf, l[1])
      BY <1>3, LinkShape DEF Steps
    <2> QED
      BY <2>1 DEF Init, Owing, InLinks
  <1>5. CountInv
    BY <1>4 DEF Init, CountInv, InitialInDegree, Failed, Forced, Steps
  <1> QED
    BY <1>1, <1>2, <1>5

\* The four parts of the invariant hold in every reachable state.
LEMMA Invariants == Spec => [](TypeOK /\ ThreadInv /\ FlowInv /\ CountInv)
  BY InitInv, TypeCorrect, ThreadStep, FlowStep, CountStep, PTL DEF Spec

\* A step that is owed nothing depends on settled steps only.
LEMMA CountedSettled ==
    ASSUME TypeOK, CountInv, NEW t \in Steps, Owing(t) = {}
    PROVE  /\ DependsOn(wf, t) \subseteq Settled
           /\ \A l \in InLinks(wf, t) : l[2] \notin owed[l[1]]
  <1>1. \A l \in InLinks(wf, t) : l[2] \notin owed[l[1]]
    BY DEF Owing
  <1>2. \A l \in InLinks(wf, t) : l[1] \in Steps /\ l[2] \in OutLinks(wf, l[1])
    BY LinkShape DEF TypeOK, InLinks, Steps
  <1>3. \A l \in InLinks(wf, t) : l[1] \in Settled
    BY <1>1, <1>2 DEF CountInv
  <1> QED
    BY <1>1, <1>3 DEF DependsOn

\* In every workflow, whatever branches are taken and whatever fails: a step
\* starts only after all it depends on, or because a failure called for it.
THEOREM Dependencies == Spec => []DependenciesSettled
  <1>1. TypeOK /\ CountInv => DependenciesSettled
    BY CountedSettled DEF CountInv, DependenciesSettled
  <1> QED
    BY <1>1, Invariants, PTL

--------------------------------------------------------------------------------
(***************************************************************************)
(* How an execution ends.                                                  *)
(***************************************************************************)
LEMMA ReadyStep ==
    TypeOK /\ ThreadInv /\ ReadyInv /\ [Next]_vars => ReadyInv'
  <1> SUFFICES ASSUME TypeOK, ThreadInv, ReadyInv, [Next]_vars PROVE ReadyInv'
    OBVIOUS
  <1> USE DEF engineVars, threadVars, dbVars, outcomeVars, resultVars, queueVars,
              otherVars
  <1>1. ASSUME NEW s \in Steps, Run(s) PROVE ReadyInv'
    BY <1>1 DEF Run, BeginStep, RunAttempt, CompleteStep, FailStep, ReadyInv, Ready,
                Steps
  <1>2. CASE StartWave \/ AwaitWave \/ Delivered
    BY <1>2 DEF StartWave, AwaitWave, Delivered, ReadyInv
  <1>3. CASE NothingReady
    BY <1>3 DEF NothingReady, ReadyInv, Ready, Steps
  <1>4. ASSUME NEW s \in Steps, ProcessError(s) \/ ProcessOutput(s) PROVE ReadyInv'
    BY <1>4 DEF ProcessError, ProcessOutput, NextResult, ErrorAfter, ReadyInv
  <1>5. ASSUME NEW s \in Steps, NEW p \in OutLinks(wf, s), Deliver(s, p) PROVE ReadyInv'
    BY <1>5 DEF Deliver, DeliverTaken, Delivering, Lowered, SkipIgnored,
                SkipDecrement, SkipTarget, ReadyInv
  <1>6. CASE CheckContext
    BY <1>6 DEF CheckContext, ReadyInv, TypeOK
  <1>7. CASE Final \/ DecideStatus \/ DecideReason
    BY <1>7 DEF Final, DecideStatus, DecideReason, Decide, ReadyInv, Ready, Steps
  <1>8. CASE SaveOutcome \/ PublishOutcome
    BY <1>8 DEF SaveOutcome, PublishOutcome, ReadyInv, Ready, Steps
  <1>9. ASSUME NEW why \in Interrupts, Interrupt(why) PROVE ReadyInv'
    BY <1>9, InterruptsAssumption DEF Interrupt, ReadyInv, Ready, Steps
  <1>10. CASE Terminated \/ UNCHANGED vars
    BY <1>10 DEF Terminated, vars, ReadyInv, Ready, Steps
  <1> QED
    BY <1>1, <1>2, <1>3, <1>4, <1>5, <1>6, <1>7, <1>8, <1>9, <1>10
    DEF Next, Coordinator

\* At the end, a step with a link still owed waits for a failure or another such step.
LEMMA StuckIsExplained ==
    TypeOK /\ ThreadInv /\ FlowInv /\ CountInv /\ ReadyInv => StuckExplained
  <1> SUFFICES ASSUME TypeOK, ThreadInv, FlowInv, CountInv, ReadyInv,
                      pc = "exited", executionErr \notin {"cancelled", "deadline"},
                      NEW t \in Steps \ done
               PROVE  \E d \in DependsOn(wf, t) : d \in Failed \/ d \notin done
    BY DEF StuckExplained
  <1>1. inDegree[t] \in Int /\ inDegree[t] > 0
    BY DEF ReadyInv, Ready, TypeOK
  <1>2. t \notin Forced /\ inDegree[t] = Cardinality(Owing(t))
    BY <1>1 DEF CountInv
  <1>3. Owing(t) # {}
    BY <1>1, <1>2, FS_EmptySet
  <1>4. PICK l \in InLinks(wf, t) : l[2] \in owed[l[1]]
    BY <1>3 DEF Owing
  <1>5. l[1] \in DependsOn(wf, t)
    BY DEF DependsOn
  <1>6. l[1] \notin Settled
    <2>1. stack = <<>>
      BY DEF FlowInv
    <2> QED
      BY <1>4, <2>1 DEF FlowInv
  <1>7. wave = {}
    BY DEF FlowInv
  <1>8. l[1] \in done => l[1] \in Failed
    BY <1>6, <1>7 DEF FlowInv
  <1> QED
    BY <1>5, <1>8

\* In every workflow: a step left behind when the waves end by themselves waits
\* for one that failed or was left behind too; no count is ever lost.
THEOREM Stuck == Spec => []StuckExplained
  <1>1. Init => ReadyInv
    BY DEF Init, ReadyInv
  <1> QED
    BY <1>1, Invariants, ReadyStep, StuckIsExplained, PTL DEF Spec

\* Every step of the executor keeps the outcome explained by what happened.
LEMMA OutcomeStep ==
    TypeOK /\ ThreadInv /\ FlowInv /\ ReadyInv /\ OutcomeInv /\ [Next]_vars => OutcomeInv'
  <1> SUFFICES ASSUME TypeOK, ThreadInv, FlowInv, ReadyInv, OutcomeInv, [Next]_vars
               PROVE  OutcomeInv'
    OBVIOUS
  <1> USE DEF engineVars, threadVars, dbVars, outcomeVars, resultVars, queueVars,
              otherVars
  <1>1. ASSUME NEW s \in Steps, ProcessError(s) PROVE OutcomeInv'
    <2>1. Failed' = Failed \cup {s} /\ wf' = wf
      BY <1>1, FailedGrows
    <2>2. /\ pc = "process"
          /\ executionErr' = IF wf.error[s] = {} THEN "step" ELSE executionErr
          /\ UNCHANGED <<pc, outcomeVars, ctx>>
      BY <1>1 DEF ProcessError, NextResult, ErrorAfter
    <2>3. executionErr \in {"nil", "step"}
      BY <2>2 DEF ReadyInv, TypeOK
    <2> QED
      BY <2>1, <2>2, <2>3 DEF OutcomeInv
  <1>2. CASE \E s \in Steps : ProcessError(s)
    BY <1>1, <1>2
  <1>3. CASE ~\E s \in Steps : ProcessError(s)
    <2>0. Failed' = Failed /\ wf' = wf
      BY <1>3, FailedKept
    <2>1. ASSUME NEW s \in Steps, Run(s) PROVE OutcomeInv'
      BY <2>0, <2>1 DEF Run, BeginStep, RunAttempt, CompleteStep, FailStep, OutcomeInv
    <2>2. CASE StartWave \/ NothingReady \/ AwaitWave \/ Delivered
      BY <2>0, <2>2 DEF StartWave, NothingReady, AwaitWave, Delivered, OutcomeInv
    <2>3. ASSUME NEW s \in Steps, ProcessOutput(s) PROVE OutcomeInv'
      BY <2>0, <2>3 DEF ProcessOutput, OutcomeInv
    <2>4. ASSUME NEW s \in Steps, NEW p \in OutLinks(wf, s), Deliver(s, p)
          PROVE  OutcomeInv'
      <3>1. UNCHANGED <<wf, pc, executionErr, ctx, outcomeVars>>
        BY <2>4 DEF Deliver, DeliverTaken, Delivering, Lowered, SkipIgnored,
                    SkipDecrement, SkipTarget
      <3> QED
        BY <2>0, <3>1 DEF OutcomeInv
    <2>5. CASE CheckContext
      BY <2>0, <2>5 DEF CheckContext, OutcomeInv, TypeOK
    <2>6. CASE Final
      BY <2>0, <2>6 DEF Final, Decide, OutcomeInv
    <2>7. CASE DecideStatus
      BY <2>0, <2>7 DEF DecideStatus, Decide, OutcomeInv, ReadyInv, TypeOK
    <2>8. CASE DecideReason
      BY <2>0, <2>8 DEF DecideReason, Decide, OutcomeInv, TypeOK
    <2>9. CASE SaveOutcome \/ PublishOutcome
      BY <2>0, <2>9 DEF SaveOutcome, PublishOutcome, OutcomeInv, TypeOK
    <2>10. ASSUME NEW why \in Interrupts, Interrupt(why) PROVE OutcomeInv'
      BY <2>0, <2>10, InterruptsAssumption DEF Interrupt, OutcomeInv, TypeOK
    <2>11. CASE Terminated \/ UNCHANGED vars
      BY <2>0, <2>11 DEF Terminated, vars, OutcomeInv
    <2> QED
      BY <1>3, <2>1, <2>2, <2>3, <2>4, <2>5, <2>6, <2>7, <2>8, <2>9, <2>10, <2>11
      DEF Next, Coordinator
  <1> QED
    BY <1>2, <1>3

\* Whatever races with the three reads of the context at the end, the published
\* outcome is one that what happened justifies.
THEOREM Outcome == Spec => []OutcomeExplained
  <1>1. Init => ReadyInv /\ OutcomeInv
    BY DEF Init, ReadyInv, OutcomeInv, Failed
  <1>2. OutcomeInv => OutcomeExplained
    BY DEF OutcomeInv, OutcomeExplained
  <1> QED
    BY <1>1, <1>2, Invariants, ReadyStep, OutcomeStep, PTL DEF Spec

--------------------------------------------------------------------------------
(***************************************************************************)
(* The refinement of ExecutionRecord.                                      *)
(***************************************************************************)
\* A write to the record of a step is a step of ExecutionRecord or nothing.
LEMMA SaveAdvances ==
    ASSUME TypeOK, execRow = "running", event = "none", UNCHANGED <<execRow, event>>,
           NEW s \in Steps, NEW st \in {"running", "skipped", "completed", "failed"},
           <<row[s], st>> \in Recorded!Advances, SaveStep(s, st)
    PROVE  [Recorded!Next]_<<row, execRow, event>>
  <1>1. row' = row \/ row' = [row EXCEPT ![s] = st]
    BY DEF SaveStep
  <1>2. s \in DOMAIN row
    BY DEF TypeOK
  <1> QED
    BY <1>1, <1>2 DEF Recorded!Next, Recorded!Advance

\* Every step of the executor is a step of ExecutionRecord, or changes no record.
LEMMA RecordStep ==
    /\ TypeOK /\ ThreadInv /\ RowInv /\ RecordInv /\ [Next]_vars
    => RecordInv' /\ [Recorded!Next]_<<row, execRow, event>>
  <1> DEFINE Goal == RecordInv' /\ [Recorded!Next]_<<row, execRow, event>>
  <1> SUFFICES ASSUME TypeOK, ThreadInv, RowInv, RecordInv, [Next]_vars
               PROVE  Goal
    OBVIOUS
  <1> USE DEF engineVars, threadVars, dbVars, outcomeVars, resultVars, queueVars,
              otherVars
  <1>0. /\ th \in [Steps -> {"idle", "spawned", "running", "completing", "failing",
                              "returned"}]
        /\ row \in [Steps -> RowStatus]
        /\ IsWorkflow(wf)
    BY DEF TypeOK, RowStatus
  <1>1. ASSUME UNCHANGED <<pc, status, row, execRow, event>> PROVE Goal
    BY <1>1 DEF RecordInv
  <1>2. ASSUME UNCHANGED <<row, execRow, event>>, UNCHANGED status,
               {pc, pc'} \cap {"publish", "exited"} = {}
        PROVE  Goal
    BY <1>2 DEF RecordInv
  <1>3. ASSUME NEW s \in Steps, Run(s) PROVE Goal
    <2>1. CASE RunAttempt(s)
      BY <1>1, <2>1 DEF RunAttempt
    <2>2. CASE ~RunAttempt(s)
      <3>1. /\ \/ BeginStep(s) /\ th[s] = "spawned" /\ SaveStep(s, "running")
               \/ CompleteStep(s) /\ th[s] = "completing" /\ SaveStep(s, "completed")
               \/ FailStep(s) /\ th[s] = "failing" /\ SaveStep(s, "failed")
            /\ UNCHANGED <<pc, status, execRow, event>>
        BY <1>3, <2>2 DEF Run, BeginStep, CompleteStep, FailStep
      <3>2. pc = "wave" /\ execRow = "running" /\ event = "none"
        BY <3>1 DEF ThreadInv, RecordInv
      <3>3. s \notin skipped
        BY <3>1 DEF ThreadInv
      <3>4. CASE th[s] = "spawned"
        <4>1. row[s] = "pending"
          BY <3>4 DEF RowInv
        <4> QED
          BY <3>1, <3>2, <3>4, <4>1, SaveAdvances DEF RecordInv, Recorded!Advances
      <3>5. CASE th[s] \in {"completing", "failing"}
        <4>1. row[s] \in {"pending", "running"}
          BY <1>0, <3>3, <3>5 DEF RowInv, RowStatus
        <4> QED
          BY <3>1, <3>2, <3>5, <4>1, SaveAdvances DEF RecordInv, Recorded!Advances
      <3> QED
        BY <3>1, <3>4, <3>5
    <2> QED
      BY <2>1, <2>2
  <1>4. CASE StartWave \/ NothingReady \/ AwaitWave \/ Delivered \/ CheckContext
    BY <1>2, <1>4 DEF StartWave, NothingReady, AwaitWave, Delivered, CheckContext
  <1>5. ASSUME NEW s \in Steps, ProcessError(s) \/ ProcessOutput(s) PROVE Goal
    BY <1>1, <1>5 DEF ProcessError, ProcessOutput
  <1>6. ASSUME NEW s \in Steps, NEW p \in OutLinks(wf, s), Deliver(s, p) PROVE Goal
    <2>1. CASE DeliverTaken(s, p) \/ SkipIgnored(s, p) \/ SkipDecrement(s, p)
      BY <1>1, <2>1 DEF DeliverTaken, SkipIgnored, SkipDecrement
    <2>2. CASE SkipTarget(s, p)
      <3> DEFINE t == Target(wf, s, p)
      <3>1. t \in Steps \ done
        BY <1>0, <2>2, OutLinksType DEF SkipTarget, Steps
      <3>2. th[t] = "idle" /\ t \notin skipped
        BY <3>1 DEF ThreadInv
      <3>3. row[t] = "pending"
        BY <1>0, <3>1, <3>2 DEF RowInv, RowStatus
      <3>4. /\ pc = "process" /\ SaveStep(t, "skipped")
            /\ UNCHANGED <<pc, status, execRow, event>>
        BY <2>2 DEF SkipTarget, Delivering
      <3> HIDE DEF t
      <3>5. execRow = "running" /\ event = "none"
        BY <3>4 DEF RecordInv
      <3> QED
        BY <3>1, <3>3, <3>4, <3>5, SaveAdvances DEF RecordInv, Recorded!Advances
    <2> QED
      BY <1>6, <2>1, <2>2 DEF Deliver
  <1>7. CASE Final \/ DecideStatus \/ DecideReason
    <2>1. /\ pc \notin {"publish", "exited"} /\ pc' \notin {"publish", "exited"}
          /\ UNCHANGED <<row, execRow, event>>
      BY <1>7 DEF Final, DecideStatus, DecideReason, Decide
    <2> QED
      BY <2>1 DEF RecordInv
  <1>8. CASE SaveOutcome
    <2>1. /\ pc = "save" /\ pc' = "publish" /\ execRow = "running" /\ event = "none"
          /\ status \in TerminalStatus
          /\ execRow' \in {"running", status}
          /\ UNCHANGED <<status, event, row>>
      BY <1>8 DEF SaveOutcome, SaveExecution, RecordInv, TypeOK
    <2> QED
      BY <2>1 DEF RecordInv, Recorded!Next, Recorded!Record, Recorded!Outcomes,
                  TerminalStatus
  <1>9. CASE PublishOutcome
    <2>1. /\ pc = "publish" /\ pc' = "exited" /\ execRow \in {"running", status}
          /\ event = "none" /\ event' = status /\ status \in TerminalStatus
          /\ UNCHANGED <<row, execRow, status>>
      BY <1>9 DEF PublishOutcome, RecordInv
    <2> QED
      BY <2>1 DEF RecordInv, Recorded!Next, Recorded!Announce, Recorded!Outcomes,
                  TerminalStatus
  <1>10. ASSUME NEW why \in Interrupts, Interrupt(why) PROVE Goal
    BY <1>1, <1>10 DEF Interrupt
  <1>11. CASE Terminated \/ UNCHANGED vars
    BY <1>1, <1>11 DEF Terminated, vars
  <1> QED
    BY <1>3, <1>4, <1>5, <1>6, <1>7, <1>8, <1>9, <1>10, <1>11 DEF Next, Coordinator

\* Every execution of every workflow implements ExecutionRecord.
THEOREM Records == Spec => KeepsRecords
  <1>1. Init => RecordInv /\ RowInv /\ Recorded!Init
    BY DEF Init, RecordInv, RowInv, Recorded!Init, Steps
  <1>2. TypeOK /\ ThreadInv /\ RowInv /\ [Next]_vars => RowInv'
    BY RowStep
  <1> QED
    BY <1>1, <1>2, Invariants, RecordStep, PTL
    DEF Spec, KeepsRecords, Recorded!Spec, Recorded!recordVars

--------------------------------------------------------------------------------
(***************************************************************************)
(* What is left behind.                                                    *)
(***************************************************************************)
\* Every set of natural numbers with an element has a least one.
LEMMA LeastNumber ==
    ASSUME NEW T, T \subseteq Nat, T # {}
    PROVE  \E m \in T : \A k \in T : m <= k
  <1> DEFINE R == {ss \in Nat \X Nat : ss[1] < ss[2]}
  <1>1. IsWellFoundedOn(R, Nat)
    BY NatLessThanWellFounded DEF OpToRel
  <1>2. \A k, m \in Nat : k < m => <<k, m>> \in R
    OBVIOUS
  <1> HIDE DEF R
  <1>3. PICK m \in T : \A k \in T : <<k, m>> \notin R
    BY <1>1, WFMin
  <1>4. ASSUME NEW k \in T PROVE m <= k
    <2>1. ~ (k < m) /\ k \in Nat /\ m \in Nat
      BY <1>2, <1>3
    <2> QED
      BY <2>1
  <1> QED
    BY <1>4

\* In a graph without cycles a step that nothing failed for has a reason that is lower
\* than itself in the order of the graph, so there is no lowest one.
LEMMA NoneLeftBehind ==
    TypeOK /\ ReadyInv /\ StuckExplained => NothingLeftBehind
  <1> SUFFICES ASSUME TypeOK, ReadyInv, StuckExplained,
                      pc = "exited", ctx = "live", Failed = {}, Acyclic(wf),
                      Steps \ done # {}
               PROVE  FALSE
    BY DEF NothingLeftBehind, TypeOK
  <1>0. Steps \subseteq Nat
    <2>1. wf.n \in Nat
      BY DEF TypeOK, IsWorkflow
    <2> QED
      BY <2>1 DEF Steps, StepsOf
  <1>1. PICK rank \in [Steps -> Steps] :
           \A l \in Links(wf) : rank[l[1]] < rank[Target(wf, l[1], l[2])]
    BY DEF Acyclic, Steps
  <1> DEFINE Ranks == {rank[t] : t \in Steps \ done}
  <1>2. Ranks # {} /\ Ranks \subseteq Nat
    <2>1. \A t \in Steps : rank[t] \in Nat
      BY <1>1, <1>0
    <2> QED
      BY <2>1
  <1>3. PICK m \in Ranks : \A k \in Ranks : m <= k
    BY <1>2, LeastNumber
  <1>4. PICK t \in Steps \ done : \A r \in Steps \ done : rank[t] <= rank[r]
    BY <1>3
  <1>5. PICK d \in DependsOn(wf, t) : d \notin done
    BY DEF StuckExplained, ReadyInv
  <1>6. PICK l \in InLinks(wf, t) : d = l[1]
    BY DEF DependsOn
  <1>7. d \in Steps /\ rank[d] < rank[t]
    BY <1>1, <1>6, LinkShape DEF InLinks, Steps, TypeOK
  <1>8. rank[d] \in Nat /\ rank[t] \in Nat
    BY <1>0, <1>1, <1>7
  <1> QED
    BY <1>4, <1>5, <1>7, <1>8

\* In every graph without cycles, of any size: an execution that ended by itself and in
\* which nothing failed has run or skipped every step; skipBranch and the waves
\* together forget none.
THEOREM LeavesNothingBehind == Spec => []NothingLeftBehind
  <1>1. Init => ReadyInv
    BY DEF Init, ReadyInv
  <1>2. Spec => []ReadyInv
    BY <1>1, Invariants, ReadyStep, PTL DEF Spec
  <1> QED
    BY <1>2, Invariants, Stuck, NoneLeftBehind, PTL

--------------------------------------------------------------------------------
(***************************************************************************)
(* Memory and database.                                                    *)
(***************************************************************************)
\* While nothing was lost, none is; a write then does what it is to do.
LEMMA NothingLost ==
    ASSUME TypeOK, [Next]_vars, ctx' = "live", lost' = 0
    PROVE  ctx = "live" /\ lost = 0
  <1> USE DEF engineVars, threadVars, dbVars, outcomeVars, resultVars, queueVars,
              otherVars
  <1>1. lost \in Nat
    BY DEF TypeOK
  <1>2. ASSUME NEW s \in Steps, Run(s) PROVE ctx' = ctx /\ lost' \in {lost, lost + 1}
    BY <1>2 DEF Run, BeginStep, RunAttempt, CompleteStep, FailStep, SaveStep, WriteFails
  <1>3. Coordinator => ctx' = ctx /\ lost' \in {lost, lost + 1}
    BY DEF Coordinator, StartWave, NothingReady, AwaitWave, ProcessError, ProcessOutput,
           Deliver, DeliverTaken, SkipIgnored, SkipDecrement, SkipTarget, SaveStep,
           Delivered, CheckContext, Final, DecideStatus, DecideReason, Decide,
           SaveOutcome, SaveExecution, WriteFails, PublishOutcome
  <1>4. ASSUME NEW why \in Interrupts, Interrupt(why) PROVE ctx' = why
    BY <1>4 DEF Interrupt
  <1>5. Terminated \/ UNCHANGED vars => ctx' = ctx /\ lost' = lost
    BY DEF Terminated, vars
  <1> QED
    BY <1>1, <1>2, <1>3, <1>4, <1>5, InterruptsAssumption DEF Next

\* Every step of the executor keeps the rows where its memory is.
LEMMA AgreeStep ==
    TypeOK /\ ThreadInv /\ AgreeInv /\ [Next]_vars => AgreeInv'
  <1> SUFFICES ASSUME TypeOK, ThreadInv, AgreeInv, [Next]_vars PROVE AgreeInv'
    OBVIOUS
  <1>0. /\ th \in [Steps -> {"idle", "spawned", "running", "completing", "failing",
                              "returned"}]
        /\ result \in [Steps -> {"none", "ok", "nil", "true", "false", "err"}]
        /\ row \in [Steps -> RowStatus]
        /\ wave \subseteq Steps /\ done \subseteq Steps /\ skipped \subseteq Steps
        /\ stepOutputs \subseteq Steps
        /\ IsWorkflow(wf) /\ lost \in Nat
        /\ ctx' = "live" /\ lost' = 0 => ctx = "live" /\ lost = 0
    BY NothingLost DEF TypeOK, RowStatus
  <1> USE DEF engineVars, threadVars, dbVars, outcomeVars, resultVars, queueVars,
              otherVars, Steps
  <1>1. ASSUME NEW s \in Steps, NEW st, SaveStep(s, st), ctx' = ctx,
               ctx' = "live", lost' = 0
        PROVE  row' = [row EXCEPT ![s] = st]
    BY <1>0, <1>1 DEF SaveStep, WriteFails
  <1>2. ASSUME NEW s \in Steps, BeginStep(s) PROVE AgreeInv'
    <2>1. /\ th[s] = "spawned"
          /\ \E place \in {"failing", "running", "completing"} :
               th' = [th EXCEPT ![s] = place]
          /\ \E r \in {"none", "nil", "err"} : result' = [result EXCEPT ![s] = r]
          /\ SaveStep(s, "running")
          /\ UNCHANGED <<wf, skipped, stepOutputs, pc, status, execRow, ctx>>
      BY <1>2 DEF BeginStep, Goto
    <2>2. s \notin skipped /\ s \notin stepOutputs
      BY <2>1 DEF ThreadInv, AgreeInv
    <2>3. ctx' = "live" /\ lost' = 0 => row' = [row EXCEPT ![s] = "running"]
      BY <1>1, <2>1
    <2> QED
      BY <1>0, <2>1, <2>2, <2>3 DEF AgreeInv
  <1>3. ASSUME NEW s \in Steps, RunAttempt(s) PROVE AgreeInv'
    <2>1. /\ th[s] = "running"
          /\ \E place \in {"failing", "running", "completing"} :
               th' = [th EXCEPT ![s] = place]
          /\ \A r \in Steps : r # s => result'[r] = result[r]
          /\ UNCHANGED <<wf, skipped, stepOutputs, pc, status, execRow, row>>
      BY <1>0, <1>3 DEF RunAttempt, Goto
    <2> QED
      BY <1>0, <2>1 DEF AgreeInv
  <1>4. ASSUME NEW s \in Steps, NEW st,
               \/ CompleteStep(s) /\ st = "completed"
               \/ FailStep(s) /\ st = "failed"
        PROVE  AgreeInv'
    <2>1. /\ th[s] = IF st = "failed" THEN "failing" ELSE "completing"
          /\ th' = [th EXCEPT ![s] = "returned"]
          /\ SaveStep(s, st)
          /\ UNCHANGED <<wf, skipped, stepOutputs, pc, status, execRow, result, ctx>>
      BY <1>4 DEF CompleteStep, FailStep
    <2>2. s \notin skipped /\ st = (IF result[s] = "err" THEN "failed" ELSE "completed")
      BY <1>4, <2>1 DEF ThreadInv
    <2>3. ctx' = "live" /\ lost' = 0 => row' = [row EXCEPT ![s] = st]
      BY <1>1, <2>1
    <2> QED
      BY <1>0, <2>1, <2>2, <2>3 DEF AgreeInv
  <1>5. CASE StartWave
    <2>1. \A s \in Ready : s \notin skipped /\ s \notin stepOutputs
      BY DEF Ready, ThreadInv, AgreeInv
    <2> QED
      BY <1>0, <1>5, <2>1 DEF StartWave, AgreeInv
  <1>6. CASE NothingReady \/ AwaitWave \/ Delivered \/ CheckContext
    BY <1>0, <1>6 DEF NothingReady, AwaitWave, Delivered, CheckContext, AgreeInv
  <1>7. ASSUME NEW s \in Steps, ProcessError(s) \/ ProcessOutput(s) PROVE AgreeInv'
    <2>1. th[s] = "returned"
      BY <1>0, <1>7 DEF ProcessError, ProcessOutput, NextResult, ThreadInv
    <2> QED
      BY <1>0, <1>7, <2>1 DEF ProcessError, ProcessOutput, AgreeInv
  <1>8. ASSUME NEW s \in Steps, NEW p \in OutLinks(wf, s), Deliver(s, p) PROVE AgreeInv'
    <2>1. CASE DeliverTaken(s, p) \/ SkipIgnored(s, p) \/ SkipDecrement(s, p)
      BY <1>0, <2>1 DEF DeliverTaken, SkipIgnored, SkipDecrement, AgreeInv
    <2>2. CASE SkipTarget(s, p)
      <3> DEFINE t == Target(wf, s, p)
      <3>1. t \in Steps \ done
        BY <1>0, <2>2, OutLinksType DEF SkipTarget
      <3>2. /\ skipped' = skipped \cup {t} /\ SaveStep(t, "skipped")
            /\ UNCHANGED <<wf, pc, stepOutputs, status, execRow, th, result, ctx>>
        BY <2>2 DEF SkipTarget, Delivering
      <3> HIDE DEF t
      <3>3. th[t] = "idle"
        BY <3>1 DEF ThreadInv
      <3>4. ctx' = "live" /\ lost' = 0 => row' = [row EXCEPT ![t] = "skipped"]
        BY <1>1, <3>1, <3>2
      <3> QED
        BY <1>0, <3>1, <3>2, <3>3, <3>4 DEF AgreeInv
    <2> QED
      BY <1>8, <2>1, <2>2 DEF Deliver
  <1>9. CASE Final \/ DecideStatus \/ DecideReason
    BY <1>0, <1>9 DEF Final, DecideStatus, DecideReason, Decide, AgreeInv
  <1>10. CASE SaveOutcome
    BY <1>0, <1>10 DEF SaveOutcome, SaveExecution, WriteFails, AgreeInv
  <1>11. CASE PublishOutcome
    BY <1>0, <1>11 DEF PublishOutcome, AgreeInv
  <1>12. ASSUME NEW why \in Interrupts, Interrupt(why) PROVE AgreeInv'
    BY <1>0, <1>12 DEF Interrupt, AgreeInv
  <1>13. CASE Terminated \/ UNCHANGED vars
    BY <1>13 DEF Terminated, vars, AgreeInv
  <1> QED
    BY <1>2, <1>3, <1>4, <1>5, <1>6, <1>7, <1>8, <1>9, <1>10, <1>11, <1>12, <1>13
    DEF Next, Coordinator, Run

\* At the end every step that was started has returned and its result was processed.
LEMMA AgreedAtTheEnd ==
    TypeOK /\ ThreadInv /\ FlowInv /\ OutcomeInv /\ RecordInv /\ AgreeInv => RowsAgree
  <1> SUFFICES ASSUME TypeOK, ThreadInv, FlowInv, OutcomeInv, RecordInv, AgreeInv,
                      event # "none", ctx = "live", lost = 0
               PROVE  /\ execRow = event
                      /\ \A s \in Steps :
                            row[s] = CASE s \in stepOutputs -> "completed"
                                       [] s \in skipped -> "skipped"
                                       [] s \in Failed -> "failed"
                                       [] OTHER -> "pending"
    BY DEF RowsAgree
  <1>1. pc = "exited" /\ wave = {} /\ event = status
    BY DEF RecordInv, FlowInv, OutcomeInv
  <1>2. execRow = event
    BY <1>1 DEF AgreeInv
  <1>3. ASSUME NEW s \in Steps
        PROVE  row[s] = CASE s \in stepOutputs -> "completed"
                          [] s \in skipped -> "skipped"
                          [] s \in Failed -> "failed"
                          [] OTHER -> "pending"
    <2>1. th[s] \in {"idle", "returned"} /\ (th[s] = "returned" <=> s \in done \ skipped)
      BY <1>1 DEF ThreadInv, TypeOK
    <2>2. CASE s \in stepOutputs
      <3>1. s \notin skipped /\ s \notin Failed /\ row[s] = "completed"
        BY <2>1, <2>2 DEF AgreeInv, FlowInv, Failed
      <3> QED
        BY <2>2, <3>1
    <2>3. CASE s \in skipped
      <3>1. s \notin stepOutputs /\ s \notin Failed /\ row[s] = "skipped"
        BY <2>1, <2>3 DEF AgreeInv, ThreadInv, Failed
      <3> QED
        BY <2>3, <3>1
    <2>4. CASE s \in Failed
      <3>1. s \notin stepOutputs /\ s \notin skipped /\ row[s] = "failed"
        BY <2>1, <2>4 DEF AgreeInv, ThreadInv, FlowInv, Failed
      <3> QED
        BY <2>4, <3>1
    <2>5. CASE s \notin stepOutputs /\ s \notin skipped /\ s \notin Failed
      <3>1. s \notin done
        BY <1>1, <2>5 DEF FlowInv, Settled
      <3>2. row[s] = "pending"
        BY <2>1, <2>5, <3>1 DEF AgreeInv
      <3> QED
        BY <2>5, <3>2
    <2> QED
      BY <2>2, <2>3, <2>4, <2>5
  <1> QED
    BY <1>2, <1>3

\* In every workflow, if no write was lost: what the database says of the execution and
\* of each of its steps when the outcome is published is what the outcome was computed from.
THEOREM RowsAgreeAtTheEnd == Spec => []RowsAgree
  <1>1. Init => ReadyInv /\ OutcomeInv /\ AgreeInv /\ RecordInv /\ RowInv
    BY DEF Init, ReadyInv, OutcomeInv, AgreeInv, RecordInv, RowInv, Failed, Steps
  <1>2. Spec => [](ReadyInv /\ OutcomeInv /\ AgreeInv)
    BY <1>1, Invariants, ReadyStep, OutcomeStep, AgreeStep, PTL DEF Spec
  <1>3. Spec => [](RowInv /\ RecordInv)
    BY <1>1, Invariants, RowStep, RecordStep, PTL DEF Spec
  <1> QED
    BY <1>2, <1>3, Invariants, AgreedAtTheEnd, PTL

================================================================================
