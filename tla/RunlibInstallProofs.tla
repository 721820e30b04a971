------------------------ MODULE RunlibInstallProofs ------------------------
(***************************************************************************)
(* Proofs about the installer, for every set of versions, every number of   *)
(* runs and every sequence of mishaps.                                      *)
(***************************************************************************)
EXTENDS RunlibInstall, TLAPS

\* Every step keeps the types.
LEMMA TypeStep ==
  ASSUME TypeOK, Next
  PROVE  TypeOK'
<1> USE RunlibAssumption DEF TypeOK, Early, Armed, Checks, home, history, counters, Idle,
     None, NothingStaged
<1>1. CASE RemoveByHand
  BY <1>1 DEF RemoveByHand, AllIdle, Mishap
<1>2. ASSUME NEW p \in Installers, Run(p)
      PROVE  TypeOK'
  <2>1. CASE Start(p)
    BY <2>1 DEF Start, AllIdle
  <2>2. CASE FastPathDeclines(p)
    BY <2>2 DEF FastPathDeclines, Goto
  <2>3. CASE LookAtBin(p)
    BY <2>3 DEF LookAtBin, Goto, Current
  <2>4. CASE LookAtLib(p)
    BY <2>4 DEF LookAtLib, Goto, LibMissing, Current
  <2>5. CASE AlreadyInstalled(p)
    BY <2>5 DEF AlreadyInstalled, End, LibMissing, Current
  <2>6. CASE FindToolchain(p)
    BY <2>6 DEF FindToolchain, Goto
  <2>7. CASE Build(p)
    BY <2>7 DEF Build, Goto
  <2>8. CASE BuildNeedsNewerRust(p)
    BY <2>8 DEF BuildNeedsNewerRust, Goto, Mishap
  <2>9. CASE StageBin(p)
    BY <2>9 DEF StageBin, Goto
  <2>10. CASE StageLib(p)
    BY <2>10 DEF StageLib, Goto
  <2>11. CASE NothingToStage(p)
    BY <2>11 DEF NothingToStage, End
  <2>12. CASE BackUp(p)
    BY <2>12 DEF BackUp, Goto
  <2>13. CASE CommitBin(p)
    <3>1. staged[p].bin \in Nat /\ bin' = staged[p].bin
      BY <2>13 DEF CommitBin
    <3>2. staged' \in [Installers -> [bin : Nat, lib : Nat]]
      BY <2>13 DEF CommitBin
    <3>3. /\ pc' \in [Installers -> {"idle"} \cup Early \cup Armed]
           /\ \A q \in Installers : ~ Idle(q)' => ~ Idle(q)
      BY <2>13 DEF CommitBin, Goto
    <3>4. QED
      BY <2>13, <3>1, <3>2, <3>3 DEF CommitBin, Goto
  <2>14. CASE NoBinToCommit(p)
    BY <2>14 DEF NoBinToCommit, End
  <2>15. CASE CommitLib(p)
    <3>1. staged[p].lib \in Nat /\ lib' = staged[p].lib
      BY <2>15 DEF CommitLib
    <3>2. staged' \in [Installers -> [bin : Nat, lib : Nat]]
      BY <2>15 DEF CommitLib
    <3>3. /\ pc' \in [Installers -> {"idle"} \cup Early \cup Armed]
           /\ \A q \in Installers : ~ Idle(q)' => ~ Idle(q)
      BY <2>15 DEF CommitLib, Goto
    <3>4. QED
      BY <2>15, <3>1, <3>2, <3>3 DEF CommitLib, Goto
  <2>16. CASE NoLibToCommit(p)
    BY <2>16 DEF NoLibToCommit, Goto
  <2>17. CASE CommitLibFails(p)
    BY <2>17 DEF CommitLibFails, Goto, Mishap
  <2>18. CASE Restore(p)
    BY <2>18 DEF Restore, End
  <2>19. CASE RestoreFails(p)
    BY <2>19 DEF RestoreFails, End, Mishap
  <2>20. CASE Reap(p)
    BY <2>20 DEF Reap, Goto
  <2>21. CASE StampBin(p)
    <3>1. version[p] \in Nat
      BY <2>21 DEF StampBin
    <3>2. QED
      BY <2>21, <3>1 DEF StampBin, Goto
  <2>22. CASE StampLib(p)
    <3>1. version[p] \in Nat
      BY <2>22 DEF StampLib
    <3>2. QED
      BY <2>22, <3>1 DEF StampLib, Goto
  <2>23. CASE StampFails(p)
    BY <2>23 DEF StampFails, End, Mishap
  <2>24. CASE RemoveTarget(p)
    BY <2>24 DEF RemoveTarget, End
  <2>25. CASE GiveUp(p)
    BY <2>25 DEF GiveUp, End, Mishap
  <2>26. CASE Interrupt(p)
    BY <2>26 DEF Interrupt, Mishap
  <2>27. CASE Kill(p)
    BY <2>27 DEF Kill, End, Mishap
  <2>28. QED
    BY <1>2, <2>1, <2>2, <2>3, <2>4, <2>5, <2>6, <2>7, <2>8, <2>9, <2>10, <2>11, <2>12, <2>13,
       <2>14, <2>15, <2>16, <2>17, <2>18, <2>19, <2>20, <2>21, <2>22, <2>23, <2>24, <2>25, <2>26,
       <2>27 DEF Run
<1>3. QED
  BY <1>1, <1>2 DEF Next

\* Every variable keeps its type, whatever overlaps or goes back.
THEOREM TypeCorrect == Spec => []TypeOK
<1>1. Init => TypeOK
  BY RunlibAssumption DEF Init, TypeOK, Idle, None, NothingStaged
<1>2. TypeOK /\ [Next]_vars => TypeOK'
  <2>1. TypeOK /\ UNCHANGED vars => TypeOK'
    BY DEF TypeOK, Idle, vars, home, history, counters
  <2>2. QED
    BY <2>1, TypeStep
<1>3. QED
  BY <1>1, <1>2, PTL DEF Spec

-----------------------------------------------------------------------------
(* Runs that neither overlap nor go back. *)

\* One run at a time, of the newest version.
LEMMA NewestStep ==
  ASSUME ~ Overlap, ~ Rollback, TypeOK, Newest, Next
  PROVE  Newest'
<1> USE RunlibAssumption DEF TypeOK, Newest, Early, Armed, Checks, home, history, counters,
     Idle, None, NothingStaged
<1>1. CASE RemoveByHand
  BY <1>1 DEF RemoveByHand, AllIdle, Mishap
<1>2. ASSUME NEW p \in Installers, Run(p)
      PROVE  Newest'
  <2>1. CASE Start(p)
    BY <2>1 DEF Start, AllIdle
  <2>2. CASE FastPathDeclines(p)
    BY <2>2 DEF FastPathDeclines, Goto
  <2>3. CASE LookAtBin(p)
    BY <2>3 DEF LookAtBin, Goto, Current
  <2>4. CASE LookAtLib(p)
    BY <2>4 DEF LookAtLib, Goto, LibMissing, Current
  <2>5. CASE AlreadyInstalled(p)
    BY <2>5 DEF AlreadyInstalled, End, LibMissing, Current
  <2>6. CASE FindToolchain(p)
    BY <2>6 DEF FindToolchain, Goto
  <2>7. CASE Build(p)
    BY <2>7 DEF Build, Goto
  <2>8. CASE BuildNeedsNewerRust(p)
    BY <2>8 DEF BuildNeedsNewerRust, Goto, Mishap
  <2>9. CASE StageBin(p)
    BY <2>9 DEF StageBin, Goto
  <2>10. CASE StageLib(p)
    BY <2>10 DEF StageLib, Goto
  <2>11. CASE NothingToStage(p)
    BY <2>11 DEF NothingToStage, End
  <2>12. CASE BackUp(p)
    BY <2>12 DEF BackUp, Goto
  <2>13. CASE CommitBin(p)
    BY <2>13 DEF CommitBin, Goto
  <2>14. CASE NoBinToCommit(p)
    BY <2>14 DEF NoBinToCommit, End
  <2>15. CASE CommitLib(p)
    BY <2>15 DEF CommitLib, Goto
  <2>16. CASE NoLibToCommit(p)
    BY <2>16 DEF NoLibToCommit, Goto
  <2>17. CASE CommitLibFails(p)
    BY <2>17 DEF CommitLibFails, Goto, Mishap
  <2>18. CASE Restore(p)
    BY <2>18 DEF Restore, End
  <2>19. CASE RestoreFails(p)
    BY <2>19 DEF RestoreFails, End, Mishap
  <2>20. CASE Reap(p)
    BY <2>20 DEF Reap, Goto
  <2>21. CASE StampBin(p)
    BY <2>21 DEF StampBin, Goto
  <2>22. CASE StampLib(p)
    BY <2>22 DEF StampLib, Goto
  <2>23. CASE StampFails(p)
    BY <2>23 DEF StampFails, End, Mishap
  <2>24. CASE RemoveTarget(p)
    BY <2>24 DEF RemoveTarget, End
  <2>25. CASE GiveUp(p)
    BY <2>25 DEF GiveUp, End, Mishap
  <2>26. CASE Interrupt(p)
    BY <2>26 DEF Interrupt, Mishap
  <2>27. CASE Kill(p)
    BY <2>27 DEF Kill, End, Mishap
  <2>28. QED
    BY <1>2, <2>1, <2>2, <2>3, <2>4, <2>5, <2>6, <2>7, <2>8, <2>9, <2>10, <2>11, <2>12, <2>13,
       <2>14, <2>15, <2>16, <2>17, <2>18, <2>19, <2>20, <2>21, <2>22, <2>23, <2>24, <2>25, <2>26,
       <2>27 DEF Run
<1>3. QED
  BY <1>1, <1>2 DEF Next

\* A stamp never gets ahead of its artefact.
LEMMA StampsFollowStep ==
  ASSUME ~ Overlap, ~ Rollback, TypeOK, Newest, StampsFollow, Progress, Next
  PROVE  StampsFollow'
<1> USE RunlibAssumption DEF TypeOK, Newest, StampsFollow, Progress, Early, Armed, Checks,
     home, history, counters, Idle, None, NothingStaged
<1>1. CASE RemoveByHand
  BY <1>1 DEF RemoveByHand, AllIdle, Mishap
<1>2. ASSUME NEW p \in Installers, Run(p)
      PROVE  StampsFollow'
  <2>1. CASE Start(p)
    <3>1. PICK v \in Versions : v >= latest /\ latest' = IF v > latest THEN v ELSE latest
      BY <2>1 DEF Start
    <3>2. latest \in Nat /\ v \in Nat /\ latest' \in Nat /\ latest' >= latest
      BY <3>1
    <3>3. 0 .. latest \subseteq 0 .. latest'
      BY <3>2
    <3>4. UNCHANGED home
      BY <2>1 DEF Start
    <3>5. QED
      BY <3>3, <3>4
  <2>2. CASE FastPathDeclines(p)
    BY <2>2 DEF FastPathDeclines, Goto
  <2>3. CASE LookAtBin(p)
    BY <2>3 DEF LookAtBin, Goto, Current
  <2>4. CASE LookAtLib(p)
    BY <2>4 DEF LookAtLib, Goto, LibMissing, Current
  <2>5. CASE AlreadyInstalled(p)
    BY <2>5 DEF AlreadyInstalled, End, LibMissing, Current
  <2>6. CASE FindToolchain(p)
    BY <2>6 DEF FindToolchain, Goto
  <2>7. CASE Build(p)
    BY <2>7 DEF Build, Goto
  <2>8. CASE BuildNeedsNewerRust(p)
    BY <2>8 DEF BuildNeedsNewerRust, Goto, Mishap
  <2>9. CASE StageBin(p)
    BY <2>9 DEF StageBin, Goto
  <2>10. CASE StageLib(p)
    BY <2>10 DEF StageLib, Goto
  <2>11. CASE NothingToStage(p)
    BY <2>11 DEF NothingToStage, End
  <2>12. CASE BackUp(p)
    BY <2>12 DEF BackUp, Goto
  <2>13. CASE CommitBin(p)
    BY <2>13 DEF CommitBin, Goto
  <2>14. CASE NoBinToCommit(p)
    BY <2>14 DEF NoBinToCommit, End
  <2>15. CASE CommitLib(p)
    BY <2>15 DEF CommitLib, Goto
  <2>16. CASE NoLibToCommit(p)
    BY <2>16 DEF NoLibToCommit, Goto
  <2>17. CASE CommitLibFails(p)
    BY <2>17 DEF CommitLibFails, Goto, Mishap
  <2>18. CASE Restore(p)
    BY <2>18 DEF Restore, End
  <2>19. CASE RestoreFails(p)
    BY <2>19 DEF RestoreFails, End, Mishap
  <2>20. CASE Reap(p)
    BY <2>20 DEF Reap, Goto
  <2>21. CASE StampBin(p)
    <3>1. version[p] = latest /\ bin = latest /\ latest \in Nat
      BY <2>21 DEF StampBin
    <3>2. binStamp' = latest /\ UNCHANGED <<bin, lib, libStamp, latest>>
      BY <2>21, <3>1 DEF StampBin, Goto
    <3>3. QED
      BY <3>1, <3>2
  <2>22. CASE StampLib(p)
    BY <2>22 DEF StampLib, Goto
  <2>23. CASE StampFails(p)
    BY <2>23 DEF StampFails, End, Mishap
  <2>24. CASE RemoveTarget(p)
    BY <2>24 DEF RemoveTarget, End
  <2>25. CASE GiveUp(p)
    BY <2>25 DEF GiveUp, End, Mishap
  <2>26. CASE Interrupt(p)
    BY <2>26 DEF Interrupt, Mishap
  <2>27. CASE Kill(p)
    BY <2>27 DEF Kill, End, Mishap
  <2>28. QED
    BY <1>2, <2>1, <2>2, <2>3, <2>4, <2>5, <2>6, <2>7, <2>8, <2>9, <2>10, <2>11, <2>12, <2>13,
       <2>14, <2>15, <2>16, <2>17, <2>18, <2>19, <2>20, <2>21, <2>22, <2>23, <2>24, <2>25, <2>26,
       <2>27 DEF Run
<1>3. QED
  BY <1>1, <1>2 DEF Next

\* Each step establishes what the next one relies on.
LEMMA ProgressStep ==
  ASSUME ~ Overlap, ~ Rollback, TypeOK, Newest, StampsFollow, Progress, Next
  PROVE  Progress'
<1> USE RunlibAssumption DEF TypeOK, Newest, StampsFollow, Progress, Early, Armed, Checks,
     home, history, counters, Idle, None, NothingStaged
<1>1. CASE RemoveByHand
  BY <1>1 DEF RemoveByHand, AllIdle, Mishap
<1>2. ASSUME NEW p \in Installers, Run(p)
      PROVE  Progress'
  <2>1. CASE Start(p)
    BY <2>1 DEF Start, AllIdle
  <2>2. CASE FastPathDeclines(p)
    BY <2>2 DEF FastPathDeclines, Goto
  <2>3. CASE LookAtBin(p)
    BY <2>3 DEF LookAtBin, Goto, Current
  <2>4. CASE LookAtLib(p)
    BY <2>4 DEF LookAtLib, Goto, LibMissing, Current
  <2>5. CASE AlreadyInstalled(p)
    BY <2>5 DEF AlreadyInstalled, End, LibMissing, Current
  <2>6. CASE FindToolchain(p)
    BY <2>6 DEF FindToolchain, Goto
  <2>7. CASE Build(p)
    BY <2>7 DEF Build, Goto
  <2>8. CASE BuildNeedsNewerRust(p)
    BY <2>8 DEF BuildNeedsNewerRust, Goto, Mishap
  <2>9. CASE StageBin(p)
    BY <2>9 DEF StageBin, Goto
  <2>10. CASE StageLib(p)
    BY <2>10 DEF StageLib, Goto
  <2>11. CASE NothingToStage(p)
    BY <2>11 DEF NothingToStage, End
  <2>12. CASE BackUp(p)
    BY <2>12 DEF BackUp, Goto
  <2>13. CASE CommitBin(p)
    BY <2>13 DEF CommitBin, Goto
  <2>14. CASE NoBinToCommit(p)
    BY <2>14 DEF NoBinToCommit, End
  <2>15. CASE CommitLib(p)
    BY <2>15 DEF CommitLib, Goto
  <2>16. CASE NoLibToCommit(p)
    BY <2>16 DEF NoLibToCommit, Goto
  <2>17. CASE CommitLibFails(p)
    BY <2>17 DEF CommitLibFails, Goto, Mishap
  <2>18. CASE Restore(p)
    BY <2>18 DEF Restore, End
  <2>19. CASE RestoreFails(p)
    BY <2>19 DEF RestoreFails, End, Mishap
  <2>20. CASE Reap(p)
    BY <2>20 DEF Reap, Goto
  <2>21. CASE StampBin(p)
    BY <2>21 DEF StampBin, Goto
  <2>22. CASE StampLib(p)
    BY <2>22 DEF StampLib, Goto
  <2>23. CASE StampFails(p)
    BY <2>23 DEF StampFails, End, Mishap
  <2>24. CASE RemoveTarget(p)
    BY <2>24 DEF RemoveTarget, End
  <2>25. CASE GiveUp(p)
    BY <2>25 DEF GiveUp, End, Mishap
  <2>26. CASE Interrupt(p)
    BY <2>26 DEF Interrupt, Mishap
  <2>27. CASE Kill(p)
    BY <2>27 DEF Kill, End, Mishap
  <2>28. QED
    BY <1>2, <2>1, <2>2, <2>3, <2>4, <2>5, <2>6, <2>7, <2>8, <2>9, <2>10, <2>11, <2>12, <2>13,
       <2>14, <2>15, <2>16, <2>17, <2>18, <2>19, <2>20, <2>21, <2>22, <2>23, <2>24, <2>25, <2>26,
       <2>27 DEF Run
<1>3. QED
  BY <1>1, <1>2 DEF Next

\* What was found stays, or stays recoverable, up to the library's commit.
LEMMA UndoableStep ==
  ASSUME ~ Overlap, ~ Rollback, TypeOK, Newest, Progress, Undoable, Next
  PROVE  Undoable'
<1> USE RunlibAssumption DEF TypeOK, Newest, Progress, Undoable, Early, Armed, Checks, home,
     history, counters, Idle, None, NothingStaged
<1>1. CASE RemoveByHand
  BY <1>1 DEF RemoveByHand, AllIdle, Mishap
<1>2. ASSUME NEW p \in Installers, Run(p)
      PROVE  Undoable'
  <2>1. CASE Start(p)
    BY <2>1 DEF Start, AllIdle
  <2>2. CASE FastPathDeclines(p)
    BY <2>2 DEF FastPathDeclines, Goto
  <2>3. CASE LookAtBin(p)
    BY <2>3 DEF LookAtBin, Goto, Current
  <2>4. CASE LookAtLib(p)
    BY <2>4 DEF LookAtLib, Goto, LibMissing, Current
  <2>5. CASE AlreadyInstalled(p)
    BY <2>5 DEF AlreadyInstalled, End, LibMissing, Current
  <2>6. CASE FindToolchain(p)
    BY <2>6 DEF FindToolchain, Goto
  <2>7. CASE Build(p)
    BY <2>7 DEF Build, Goto
  <2>8. CASE BuildNeedsNewerRust(p)
    BY <2>8 DEF BuildNeedsNewerRust, Goto, Mishap
  <2>9. CASE StageBin(p)
    BY <2>9 DEF StageBin, Goto
  <2>10. CASE StageLib(p)
    BY <2>10 DEF StageLib, Goto
  <2>11. CASE NothingToStage(p)
    BY <2>11 DEF NothingToStage, End
  <2>12. CASE BackUp(p)
    BY <2>12 DEF BackUp, Goto
  <2>13. CASE CommitBin(p)
    BY <2>13 DEF CommitBin, Goto
  <2>14. CASE NoBinToCommit(p)
    BY <2>14 DEF NoBinToCommit, End
  <2>15. CASE CommitLib(p)
    BY <2>15 DEF CommitLib, Goto
  <2>16. CASE NoLibToCommit(p)
    BY <2>16 DEF NoLibToCommit, Goto
  <2>17. CASE CommitLibFails(p)
    BY <2>17 DEF CommitLibFails, Goto, Mishap
  <2>18. CASE Restore(p)
    BY <2>18 DEF Restore, End
  <2>19. CASE RestoreFails(p)
    BY <2>19 DEF RestoreFails, End, Mishap
  <2>20. CASE Reap(p)
    BY <2>20 DEF Reap, Goto
  <2>21. CASE StampBin(p)
    BY <2>21 DEF StampBin, Goto
  <2>22. CASE StampLib(p)
    BY <2>22 DEF StampLib, Goto
  <2>23. CASE StampFails(p)
    BY <2>23 DEF StampFails, End, Mishap
  <2>24. CASE RemoveTarget(p)
    BY <2>24 DEF RemoveTarget, End
  <2>25. CASE GiveUp(p)
    BY <2>25 DEF GiveUp, End, Mishap
  <2>26. CASE Interrupt(p)
    BY <2>26 DEF Interrupt, Mishap
  <2>27. CASE Kill(p)
    BY <2>27 DEF Kill, End, Mishap
  <2>28. QED
    BY <1>2, <2>1, <2>2, <2>3, <2>4, <2>5, <2>6, <2>7, <2>8, <2>9, <2>10, <2>11, <2>12, <2>13,
       <2>14, <2>15, <2>16, <2>17, <2>18, <2>19, <2>20, <2>21, <2>22, <2>23, <2>24, <2>25, <2>26,
       <2>27 DEF Run
<1>3. QED
  BY <1>1, <1>2 DEF Next

\* The inductive invariant holds in every execution.
THEOREM Invariance == ASSUME ~ Overlap, ~ Rollback PROVE Spec => []IInv
<1>1. Init => IInv
  BY RunlibAssumption DEF Init, IInv, TypeOK, Newest, StampsFollow, Progress, Undoable, Idle,
     None, NothingStaged, home, Early, Armed, Checks
<1>2. IInv /\ [Next]_vars => IInv'
  <2>1. IInv /\ UNCHANGED vars => IInv'
    BY DEF IInv, TypeOK, Newest, StampsFollow, Progress, Undoable, Idle, vars, home, history,
       counters
  <2>2. IInv /\ Next => IInv'
    BY TypeStep, NewestStep, StampsFollowStep, ProgressStep, UndoableStep DEF IInv
  <2>3. QED
    BY <2>1, <2>2
<1>3. QED
  BY <1>1, <1>2, PTL DEF Spec

\* Which action ends a run, and how.
LEMMA WhoEnds ==
  ASSUME TypeOK, NEW p \in Installers, pc[p] # "idle", pc'[p] = "idle", Next
  PROVE  \/ answer'[p] = "skipped" /\ AlreadyInstalled(p)
         \/ answer'[p] = "installed" /\ RemoveTarget(p)
         \/ answer'[p] = "killed"
         \/ answer'[p] = "failed" /\ ~ Idle(p) /\
              (NothingToStage(p) \/ NoBinToCommit(p) \/ Restore(p) \/ RestoreFails(p)
                 \/ StampFails(p) \/ GiveUp(p))
<1> USE DEF TypeOK, Idle
<1>1. CASE RemoveByHand
  BY <1>1 DEF RemoveByHand
<1>2. ASSUME NEW q \in Installers, Run(q), q # p PROVE FALSE
  <2>1. CASE Start(q)
    BY <1>2, <2>1 DEF Start, AllIdle
  <2>2. CASE FastPathDeclines(q)
    BY <1>2, <2>2 DEF FastPathDeclines, Goto
  <2>3. CASE LookAtBin(q)
    BY <1>2, <2>3 DEF LookAtBin, Goto, Current
  <2>4. CASE LookAtLib(q)
    BY <1>2, <2>4 DEF LookAtLib, Goto, LibMissing, Current
  <2>5. CASE AlreadyInstalled(q)
    BY <1>2, <2>5 DEF AlreadyInstalled, End, LibMissing, Current
  <2>6. CASE FindToolchain(q)
    BY <1>2, <2>6 DEF FindToolchain, Goto
  <2>7. CASE Build(q)
    BY <1>2, <2>7 DEF Build, Goto
  <2>8. CASE BuildNeedsNewerRust(q)
    BY <1>2, <2>8 DEF BuildNeedsNewerRust, Goto, Mishap
  <2>9. CASE StageBin(q)
    BY <1>2, <2>9 DEF StageBin, Goto
  <2>10. CASE StageLib(q)
    BY <1>2, <2>10 DEF StageLib, Goto
  <2>11. CASE NothingToStage(q)
    BY <1>2, <2>11 DEF NothingToStage, End
  <2>12. CASE BackUp(q)
    BY <1>2, <2>12 DEF BackUp, Goto
  <2>13. CASE CommitBin(q)
    BY <1>2, <2>13 DEF CommitBin, Goto
  <2>14. CASE NoBinToCommit(q)
    BY <1>2, <2>14 DEF NoBinToCommit, End
  <2>15. CASE CommitLib(q)
    BY <1>2, <2>15 DEF CommitLib, Goto
  <2>16. CASE NoLibToCommit(q)
    BY <1>2, <2>16 DEF NoLibToCommit, Goto
  <2>17. CASE CommitLibFails(q)
    BY <1>2, <2>17 DEF CommitLibFails, Goto, Mishap
  <2>18. CASE Restore(q)
    BY <1>2, <2>18 DEF Restore, End
  <2>19. CASE RestoreFails(q)
    BY <1>2, <2>19 DEF RestoreFails, End, Mishap
  <2>20. CASE Reap(q)
    BY <1>2, <2>20 DEF Reap, Goto
  <2>21. CASE StampBin(q)
    BY <1>2, <2>21 DEF StampBin, Goto
  <2>22. CASE StampLib(q)
    BY <1>2, <2>22 DEF StampLib, Goto
  <2>23. CASE StampFails(q)
    BY <1>2, <2>23 DEF StampFails, End, Mishap
  <2>24. CASE RemoveTarget(q)
    BY <1>2, <2>24 DEF RemoveTarget, End
  <2>25. CASE GiveUp(q)
    BY <1>2, <2>25 DEF GiveUp, End, Mishap
  <2>26. CASE Interrupt(q)
    BY <1>2, <2>26 DEF Interrupt, Mishap
  <2>27. CASE Kill(q)
    BY <1>2, <2>27 DEF Kill, End, Mishap
  <2>28. QED
    BY <1>2, <2>1, <2>2, <2>3, <2>4, <2>5, <2>6, <2>7, <2>8, <2>9, <2>10, <2>11, <2>12, <2>13,
       <2>14, <2>15, <2>16, <2>17, <2>18, <2>19, <2>20, <2>21, <2>22, <2>23, <2>24, <2>25, <2>26,
       <2>27 DEF Run
<1>3. CASE Run(p)
  <2>1. CASE Start(p)
    BY <2>1 DEF Start, AllIdle
  <2>2. CASE FastPathDeclines(p)
    BY <2>2 DEF FastPathDeclines, Goto
  <2>3. CASE LookAtBin(p)
    BY <2>3 DEF LookAtBin, Goto, Current
  <2>4. CASE LookAtLib(p)
    BY <2>4 DEF LookAtLib, Goto, LibMissing, Current
  <2>5. CASE AlreadyInstalled(p)
    BY <2>5 DEF AlreadyInstalled, End, LibMissing, Current
  <2>6. CASE FindToolchain(p)
    BY <2>6 DEF FindToolchain, Goto
  <2>7. CASE Build(p)
    BY <2>7 DEF Build, Goto
  <2>8. CASE BuildNeedsNewerRust(p)
    BY <2>8 DEF BuildNeedsNewerRust, Goto, Mishap
  <2>9. CASE StageBin(p)
    BY <2>9 DEF StageBin, Goto
  <2>10. CASE StageLib(p)
    BY <2>10 DEF StageLib, Goto
  <2>11. CASE NothingToStage(p)
    BY <2>11 DEF NothingToStage, End
  <2>12. CASE BackUp(p)
    BY <2>12 DEF BackUp, Goto
  <2>13. CASE CommitBin(p)
    BY <2>13 DEF CommitBin, Goto
  <2>14. CASE NoBinToCommit(p)
    BY <2>14 DEF NoBinToCommit, End
  <2>15. CASE CommitLib(p)
    BY <2>15 DEF CommitLib, Goto
  <2>16. CASE NoLibToCommit(p)
    BY <2>16 DEF NoLibToCommit, Goto
  <2>17. CASE CommitLibFails(p)
    BY <2>17 DEF CommitLibFails, Goto, Mishap
  <2>18. CASE Restore(p)
    BY <2>18 DEF Restore, End
  <2>19. CASE RestoreFails(p)
    BY <2>19 DEF RestoreFails, End, Mishap
  <2>20. CASE Reap(p)
    BY <2>20 DEF Reap, Goto
  <2>21. CASE StampBin(p)
    BY <2>21 DEF StampBin, Goto
  <2>22. CASE StampLib(p)
    BY <2>22 DEF StampLib, Goto
  <2>23. CASE StampFails(p)
    BY <2>23 DEF StampFails, End, Mishap
  <2>24. CASE RemoveTarget(p)
    BY <2>24 DEF RemoveTarget, End
  <2>25. CASE GiveUp(p)
    BY <2>25 DEF GiveUp, End, Mishap
  <2>26. CASE Interrupt(p)
    BY <2>26 DEF Interrupt, Mishap
  <2>27. CASE Kill(p)
    BY <2>27 DEF Kill, End, Mishap
  <2>28. QED
    BY <1>3, <2>1, <2>2, <2>3, <2>4, <2>5, <2>6, <2>7, <2>8, <2>9, <2>10, <2>11, <2>12, <2>13,
       <2>14, <2>15, <2>16, <2>17, <2>18, <2>19, <2>20, <2>21, <2>22, <2>23, <2>24, <2>25, <2>26,
       <2>27 DEF Run
<1>4. QED
  BY <1>1, <1>2, <1>3 DEF Next

\* "already installed v<x>" is only ever said of artefacts that are of version x.
THEOREM SkipHonesty == ASSUME ~ Overlap, ~ Rollback PROVE Spec => SkipIsHonest
<1>1. ASSUME IInv, [Next]_vars, NEW p \in Installers, Ends(p, "skipped")
      PROVE  Holds(bin, lib, version[p])
  <2>1. TypeOK /\ Newest /\ StampsFollow /\ Progress /\ Undoable
    BY <1>1 DEF IInv
  <2>2. Next
    BY <1>1 DEF Ends, vars
  <2>3. AlreadyInstalled(p)
    BY <1>1, <2>1, <2>2, WhoEnds DEF Ends
  <2>4. version[p] = latest /\ latest \in Nat /\ (HasBin => bin = latest)
    BY <1>1, <2>1, <2>3 DEF AlreadyInstalled, TypeOK, Newest, Progress, Idle
  <2>5. HasLib => libStamp = latest /\ lib # None
    BY <2>3, <2>4 DEF AlreadyInstalled, LibMissing, Current
  <2>6. lib \in 0 .. latest /\ (lib # None => libStamp <= lib)
    BY <2>1 DEF StampsFollow
  <2>7. HasLib => lib = latest
    BY <2>4, <2>5, <2>6
  <2>8. QED
    BY <2>4, <2>7 DEF Holds
<1>2. IInv /\ [Next]_vars => \A p \in Installers : 
        Ends(p, "skipped") => Holds(bin, lib, version[p])
  BY <1>1
<1>3. QED
  BY <1>2, Invariance, PTL DEF Spec, SkipIsHonest

\* A run that succeeds leaves both artefacts of its version, both stamped.
THEOREM WholeInstall == ASSUME ~ Overlap, ~ Rollback PROVE Spec => InstallIsWhole
<1>1. ASSUME IInv, [Next]_vars, NEW p \in Installers, Ends(p, "installed")
      PROVE  Holds(bin, lib, version[p]) /\ Holds(binStamp, libStamp, version[p])
  <2>1. TypeOK /\ Newest /\ StampsFollow /\ Progress /\ Undoable
    BY <1>1 DEF IInv
  <2>2. Next
    BY <1>1 DEF Ends, vars
  <2>3. RemoveTarget(p)
    BY <1>1, <2>1, <2>2, WhoEnds DEF Ends
  <2>4. QED
    BY <1>1, <2>1, <2>3 DEF RemoveTarget, Progress, Holds
<1>2. IInv /\ [Next]_vars => \A p \in Installers : 
        Ends(p, "installed") => Holds(bin, lib, version[p]) /\ Holds(binStamp, libStamp, version[p])
  BY <1>1
<1>3. QED
  BY <1>2, Invariance, PTL DEF Spec, InstallIsWhole

\* An update that fails before its last artefact is in place leaves what it found.
THEOREM UndoneUpdate == ASSUME ~ Overlap, ~ Rollback PROVE Spec => FailedUpdateIsUndone
<1>1. ASSUME IInv, [Next]_vars, NEW p \in Installers, Ends(p, "failed"), ~ disturbed'[p],
             pc[p] \notin {"reap", "stampBin", "stampLib", "clean"},
             HasBin => found[p][1] # None
      PROVE  /\ bin' = found[p][1] /\ lib' = found[p][2]
             /\ binStamp' = found[p][3] /\ libStamp' = found[p][4]
  <2>1. TypeOK /\ Newest /\ Progress /\ Undoable
    BY <1>1 DEF IInv
  <2>2. Next
    BY <1>1 DEF Ends, vars
  <2>3. \/ NothingToStage(p) \/ NoBinToCommit(p) \/ Restore(p) \/ RestoreFails(p)
        \/ StampFails(p) \/ GiveUp(p)
    BY <1>1, <2>1, <2>2, WhoEnds DEF Ends
  <2>4. CASE Restore(p)
    BY <1>1, <2>1, <2>4 DEF Restore, End, TypeOK, Undoable
  <2>5. CASE RestoreFails(p)
    BY <1>1, <2>1, <2>5 DEF RestoreFails, TypeOK
  <2>6. CASE StampFails(p)
    BY <1>1, <2>6 DEF StampFails
  <2>7. CASE NothingToStage(p) \/ NoBinToCommit(p) \/ GiveUp(p)
    <3>1. pc[p] \in Early \cup {"stageBin", "stageLib", "backup", "commitBin"}
      BY <1>1, <2>7 DEF NothingToStage, NoBinToCommit, GiveUp, Early
    <3>2. UNCHANGED home
      BY <2>7 DEF NothingToStage, NoBinToCommit, GiveUp
    <3>3. QED
      BY <2>1, <3>1, <3>2 DEF Undoable, home
  <2>8. QED
    BY <2>3, <2>4, <2>5, <2>6, <2>7
<1>2. IInv /\ [Next]_vars =>
        \A p \in Installers :
          /\ Ends(p, "failed") /\ ~ disturbed'[p]
          /\ pc[p] \notin {"reap", "stampBin", "stampLib", "clean"}
          /\ HasBin => found[p][1] # None
          => /\ bin' = found[p][1] /\ lib' = found[p][2]
             /\ binStamp' = found[p][3] /\ libStamp' = found[p][4]
  BY <1>1
<1>3. QED
  BY <1>2, Invariance, PTL DEF Spec, FailedUpdateIsUndone

-----------------------------------------------------------------------------
(* Runs of one version that overlap, where no step fails. *)

\* What one run has established, no other takes back.
LEMMA TogetherStep ==
  ASSUME OneVersion, "step" \notin Mishaps, TypeOK, StampsAgree, Together, Next
  PROVE  Together'
<1> USE RunlibAssumption DEF TypeOK, OneVersion, Together, Early, Armed, Checks,
     home, history, counters, Idle, None, NothingStaged
<1>1. CASE RemoveByHand
  BY <1>1 DEF RemoveByHand, AllIdle, Mishap
<1>2. ASSUME NEW p \in Installers, Run(p)
      PROVE  Together'
  <2>1. CASE Start(p)
    BY <2>1 DEF Start, AllIdle
  <2>2. CASE FastPathDeclines(p)
    BY <2>2 DEF FastPathDeclines, Goto
  <2>3. CASE LookAtBin(p)
    <3>1. UNCHANGED <<home, staged, backup, version>> /\ pc[p] \in {"fastBin", "checkBin"}
      BY <2>3 DEF LookAtBin, Goto
    <3>2. /\ pc'[p] \in {"toolchain", "build", "fastLib", "checkLib"}
          /\ \A q \in Installers : q # p => pc'[q] = pc[q]
      BY <2>3 DEF LookAtBin, Goto
    <3>3. pc'[p] \in {"fastLib", "checkLib"} /\ HasBin => binStamp = version[p] /\ bin # None
      BY <2>3 DEF LookAtBin, Goto, Current
    <3>4. version[p] \in Versions
      BY <3>1
    <3>5. pc'[p] \in {"fastLib", "checkLib"} /\ HasBin => bin = version[p]
      BY <3>3, <3>4 DEF StampsAgree
    <3>6. QED
      BY <3>1, <3>2, <3>5
  <2>4. CASE LookAtLib(p)
    BY <2>4 DEF LookAtLib, Goto, LibMissing, Current
  <2>5. CASE AlreadyInstalled(p)
    BY <2>5 DEF AlreadyInstalled, End, LibMissing, Current
  <2>6. CASE FindToolchain(p)
    BY <2>6 DEF FindToolchain, Goto
  <2>7. CASE Build(p)
    BY <2>7 DEF Build, Goto
  <2>8. CASE BuildNeedsNewerRust(p)
    BY <2>8 DEF BuildNeedsNewerRust, Goto, Mishap
  <2>9. CASE StageBin(p)
    BY <2>9 DEF StageBin, Goto
  <2>10. CASE StageLib(p)
    BY <2>10 DEF StageLib, Goto
  <2>11. CASE NothingToStage(p)
    BY <2>11 DEF NothingToStage, End
  <2>12. CASE BackUp(p)
    BY <2>12 DEF BackUp, Goto
  <2>13. CASE CommitBin(p)
    BY <2>13 DEF CommitBin, Goto
  <2>14. CASE NoBinToCommit(p)
    BY <2>14 DEF NoBinToCommit, End
  <2>15. CASE CommitLib(p)
    BY <2>15 DEF CommitLib, Goto
  <2>16. CASE NoLibToCommit(p)
    BY <2>16 DEF NoLibToCommit, Goto
  <2>17. CASE CommitLibFails(p)
    BY <2>17 DEF CommitLibFails, Goto, Mishap
  <2>18. CASE Restore(p)
    BY <2>18 DEF Restore, End
  <2>19. CASE RestoreFails(p)
    BY <2>19 DEF RestoreFails, End, Mishap
  <2>20. CASE Reap(p)
    BY <2>20 DEF Reap, Goto
  <2>21. CASE StampBin(p)
    BY <2>21 DEF StampBin, Goto
  <2>22. CASE StampLib(p)
    BY <2>22 DEF StampLib, Goto
  <2>23. CASE StampFails(p)
    BY <2>23 DEF StampFails, End, Mishap
  <2>24. CASE RemoveTarget(p)
    BY <2>24 DEF RemoveTarget, End
  <2>25. CASE GiveUp(p)
    BY <2>25 DEF GiveUp, End, Mishap
  <2>26. CASE Interrupt(p)
    BY <2>26 DEF Interrupt, Mishap
  <2>27. CASE Kill(p)
    BY <2>27 DEF Kill, End, Mishap
  <2>28. QED
    BY <1>2, <2>1, <2>2, <2>3, <2>4, <2>5, <2>6, <2>7, <2>8, <2>9, <2>10, <2>11, <2>12, <2>13,
       <2>14, <2>15, <2>16, <2>17, <2>18, <2>19, <2>20, <2>21, <2>22, <2>23, <2>24, <2>25, <2>26,
       <2>27 DEF Run
<1>3. QED
  BY <1>1, <1>2 DEF Next

\* A stamp of the version is only written where the artefact is of that version.
LEMMA StampsAgreeStep ==
  ASSUME OneVersion, "step" \notin Mishaps, TypeOK, StampsAgree, Together, Next
  PROVE  StampsAgree'
<1> USE RunlibAssumption DEF TypeOK, OneVersion, StampsAgree, Together, Early, Armed, Checks,
     home, history, counters, Idle, None, NothingStaged
<1>1. CASE RemoveByHand
  BY <1>1 DEF RemoveByHand, AllIdle, Mishap
<1>2. ASSUME NEW p \in Installers, Run(p)
      PROVE  StampsAgree'
  <2>1. CASE Start(p)
    BY <2>1 DEF Start, AllIdle
  <2>2. CASE FastPathDeclines(p)
    BY <2>2 DEF FastPathDeclines, Goto
  <2>3. CASE LookAtBin(p)
    BY <2>3 DEF LookAtBin, Goto, Current
  <2>4. CASE LookAtLib(p)
    BY <2>4 DEF LookAtLib, Goto, LibMissing, Current
  <2>5. CASE AlreadyInstalled(p)
    BY <2>5 DEF AlreadyInstalled, End, LibMissing, Current
  <2>6. CASE FindToolchain(p)
    BY <2>6 DEF FindToolchain, Goto
  <2>7. CASE Build(p)
    BY <2>7 DEF Build, Goto
  <2>8. CASE BuildNeedsNewerRust(p)
    BY <2>8 DEF BuildNeedsNewerRust, Goto, Mishap
  <2>9. CASE StageBin(p)
    BY <2>9 DEF StageBin, Goto
  <2>10. CASE StageLib(p)
    BY <2>10 DEF StageLib, Goto
  <2>11. CASE NothingToStage(p)
    BY <2>11 DEF NothingToStage, End
  <2>12. CASE BackUp(p)
    BY <2>12 DEF BackUp, Goto
  <2>13. CASE CommitBin(p)
    BY <2>13 DEF CommitBin, Goto
  <2>14. CASE NoBinToCommit(p)
    BY <2>14 DEF NoBinToCommit, End
  <2>15. CASE CommitLib(p)
    BY <2>15 DEF CommitLib, Goto
  <2>16. CASE NoLibToCommit(p)
    BY <2>16 DEF NoLibToCommit, Goto
  <2>17. CASE CommitLibFails(p)
    BY <2>17 DEF CommitLibFails, Goto, Mishap
  <2>18. CASE Restore(p)
    BY <2>18 DEF Restore, End
  <2>19. CASE RestoreFails(p)
    BY <2>19 DEF RestoreFails, End, Mishap
  <2>20. CASE Reap(p)
    BY <2>20 DEF Reap, Goto
  <2>21. CASE StampBin(p)
    BY <2>21 DEF StampBin, Goto
  <2>22. CASE StampLib(p)
    BY <2>22 DEF StampLib, Goto
  <2>23. CASE StampFails(p)
    BY <2>23 DEF StampFails, End, Mishap
  <2>24. CASE RemoveTarget(p)
    BY <2>24 DEF RemoveTarget, End
  <2>25. CASE GiveUp(p)
    BY <2>25 DEF GiveUp, End, Mishap
  <2>26. CASE Interrupt(p)
    BY <2>26 DEF Interrupt, Mishap
  <2>27. CASE Kill(p)
    BY <2>27 DEF Kill, End, Mishap
  <2>28. QED
    BY <1>2, <2>1, <2>2, <2>3, <2>4, <2>5, <2>6, <2>7, <2>8, <2>9, <2>10, <2>11, <2>12, <2>13,
       <2>14, <2>15, <2>16, <2>17, <2>18, <2>19, <2>20, <2>21, <2>22, <2>23, <2>24, <2>25, <2>26,
       <2>27 DEF Run
<1>3. QED
  BY <1>1, <1>2 DEF Next

\* Overlapping runs keep the invariant, killed and interrupted as they may be.
THEOREM OverlapInvariance ==
  ASSUME OneVersion, "step" \notin Mishaps PROVE Spec => []OverlapInv
<1>1. Init => OverlapInv
  BY RunlibAssumption DEF Init, OverlapInv, TypeOK, StampsAgree, Together, Idle, None,
     NothingStaged
<1>2. OverlapInv /\ [Next]_vars => OverlapInv'
  <2>1. OverlapInv /\ UNCHANGED vars => OverlapInv'
    BY DEF OverlapInv, TypeOK, StampsAgree, Together, Idle, vars, home, history, counters
  <2>2. OverlapInv /\ Next => OverlapInv'
    BY TypeStep, TogetherStep, StampsAgreeStep DEF OverlapInv
  <2>3. QED
    BY <2>1, <2>2
<1>3. QED
  BY <1>1, <1>2, PTL DEF Spec

\* However runs of one version overlap, "already installed" is said of that version.
THEOREM OverlapSkipHonesty ==
  ASSUME OneVersion, "step" \notin Mishaps PROVE Spec => SkipIsHonest
<1>1. ASSUME OverlapInv, [Next]_vars, NEW p \in Installers, Ends(p, "skipped")
      PROVE  Holds(bin, lib, version[p])
  <2>1. TypeOK /\ StampsAgree /\ Together
    BY <1>1 DEF OverlapInv
  <2>2. Next
    BY <1>1 DEF Ends, vars
  <2>3. AlreadyInstalled(p)
    BY <1>1, <2>1, <2>2, WhoEnds DEF Ends
  <2>4. version[p] \in Versions /\ (HasBin => bin = version[p])
    BY <1>1, <2>1, <2>3 DEF AlreadyInstalled, TypeOK, Together, Idle
  <2>5. HasLib => libStamp = version[p] /\ lib # None
    BY <2>3 DEF AlreadyInstalled, LibMissing, Current
  <2>6. QED
    BY <2>1, <2>4, <2>5 DEF StampsAgree, Holds
<1>2. OverlapInv /\ [Next]_vars => \A p \in Installers :
        Ends(p, "skipped") => Holds(bin, lib, version[p])
  BY <1>1
<1>3. QED
  BY <1>2, OverlapInvariance, PTL DEF Spec, SkipIsHonest

\* However runs of one version overlap, one that succeeds leaves the whole of it.
THEOREM OverlapWholeInstall ==
  ASSUME OneVersion, "step" \notin Mishaps PROVE Spec => InstallIsWhole
<1>1. ASSUME OverlapInv, [Next]_vars, NEW p \in Installers, Ends(p, "installed")
      PROVE  Holds(bin, lib, version[p]) /\ Holds(binStamp, libStamp, version[p])
  <2>1. TypeOK /\ Together
    BY <1>1 DEF OverlapInv
  <2>2. Next
    BY <1>1 DEF Ends, vars
  <2>3. RemoveTarget(p)
    BY <1>1, <2>1, <2>2, WhoEnds DEF Ends
  <2>4. QED
    BY <1>1, <2>1, <2>3 DEF RemoveTarget, Together, Holds
<1>2. OverlapInv /\ [Next]_vars => \A p \in Installers :
        Ends(p, "installed") =>
          Holds(bin, lib, version[p]) /\ Holds(binStamp, libStamp, version[p])
  BY <1>1
<1>3. QED
  BY <1>2, OverlapInvariance, PTL DEF Spec, InstallIsWhole

=============================================================================
