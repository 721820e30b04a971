---------------------------- MODULE RunlibInstall ----------------------------
(***************************************************************************)
(* scripts/runlib.sh, install mode: several runs over the life of one       *)
(* CARGO_HOME, each of some version of one crate, each building, staging,   *)
(* committing and stamping up to two artefacts, a binary and a library.     *)
(* Any step can fail, a run can be interrupted (the trap removes its        *)
(* temporaries and the script goes on) or killed, and somebody may remove   *)
(* an artefact or a stamp between runs.                                     *)
(***************************************************************************)
EXTENDS Naturals

CONSTANTS
  Installers,  \* processes that run the script
  Versions,    \* versions of the crate a checkout may be at
  Installed,   \* versions that may be installed at the start, 0 for none
  HasBin,      \* the crate has a bin target
  HasLib,      \* the crate has a cdylib target
  Overlap,     \* may a run begin while another is under way
  Rollback,    \* may a checkout older than one already run be run
  Mishaps,     \* the kinds of mishap that happen
  MaxMishaps,  \* bound on their number
  MaxRuns      \* bound on the number of runs

None == 0  \* no such file, or an empty one

ASSUME RunlibAssumption ==
  /\ Versions \subseteq Nat \ {None} /\ Installed \subseteq Nat
  /\ {HasBin, HasLib, Overlap, Rollback} \subseteq BOOLEAN
  /\ HasBin \/ HasLib

VARIABLES
  bin, lib,            \* the version at each install path
  binStamp, libStamp,  \* the version each stamp names
  target,              \* versions whose checkout holds a finished build
  pc,                  \* where each process is in runlib_install
  version,             \* what it installs
  staged,              \* its staged copies, [bin, lib]
  backup,              \* the binary it put aside
  answer,              \* how its last run ended
  found,               \* what was installed when it began
  disturbed,           \* it was interrupted, or could not put the backup back
  latest,              \* the newest version run so far
  runs, mishaps        \* what the bounds count

home == <<bin, lib, binStamp, libStamp>>
history == <<answer, found, disturbed, latest>>
counters == <<runs, mishaps>>
vars == <<home, target, pc, version, staged, backup, history, counters>>

NothingStaged == [bin |-> None, lib |-> None]
Checks == {"fastBin", "fastLib", "checkBin", "checkLib"}
Early == Checks \cup {"toolchain", "build", "retry"}
Armed == {"stageBin", "stageLib", "backup", "commitBin", "commitLib", "restore",
          "reap", "stampBin", "stampLib", "clean"}
Idle(p) == pc[p] = "idle"
AllIdle == \A p \in Installers : Idle(p)

Mishap(kind) == /\ kind \in Mishaps /\ mishaps < MaxMishaps
                /\ mishaps' = mishaps + 1 /\ UNCHANGED runs

-----------------------------------------------------------------------------
(* A run begins, goes on, ends *)

Start(p) ==
  /\ Idle(p) /\ runs < MaxRuns /\ (Overlap \/ AllIdle)
  /\ \E v \in Versions :
       /\ Rollback \/ v >= latest
       /\ version' = [version EXCEPT ![p] = v]
       /\ latest' = IF v > latest THEN v ELSE latest
  /\ pc' = [pc EXCEPT ![p] = "fastBin"]
  /\ found' = [found EXCEPT ![p] = home]
  /\ disturbed' = [disturbed EXCEPT ![p] = FALSE]
  /\ runs' = runs + 1
  /\ UNCHANGED <<home, target, staged, backup, answer, mishaps>>

Goto(p, next) == pc' = [pc EXCEPT ![p] = next] /\ UNCHANGED <<version, history>>

\* The run ends; its temporaries go with it (the abort and the EXIT trap).
End(p, how) ==
  /\ pc' = [pc EXCEPT ![p] = "idle"]
  /\ answer' = [answer EXCEPT ![p] = how]
  /\ staged' = [staged EXCEPT ![p] = NothingStaged]
  /\ backup' = [backup EXCEPT ![p] = None]
  /\ UNCHANGED <<version, found, latest>>

-----------------------------------------------------------------------------
(* Is it installed already? *)

Current(stamp, artefact, v) == stamp = v /\ artefact # None

\* The fast path gives up on a layout it cannot read.
FastPathDeclines(p) == /\ pc[p] = "fastBin" /\ Goto(p, "toolchain")
                       /\ UNCHANGED <<home, target, staged, backup, counters>>

LookAtBin(p) ==
  /\ pc[p] \in {"fastBin", "checkBin"}
  /\ Goto(p, IF HasBin /\ ~ Current(binStamp, bin, version[p])
               THEN (IF pc[p] = "fastBin" THEN "toolchain" ELSE "build")
               ELSE (IF pc[p] = "fastBin" THEN "fastLib" ELSE "checkLib"))
  /\ UNCHANGED <<home, target, staged, backup, counters>>

LibMissing(p) == HasLib /\ ~ Current(libStamp, lib, version[p])

LookAtLib(p) ==
  /\ pc[p] \in {"fastLib", "checkLib"} /\ LibMissing(p)
  /\ Goto(p, IF pc[p] = "fastLib" THEN "toolchain" ELSE "build")
  /\ UNCHANGED <<home, target, staged, backup, counters>>

AlreadyInstalled(p) ==
  /\ pc[p] \in {"fastLib", "checkLib"} /\ ~ LibMissing(p)
  /\ End(p, "skipped")
  /\ UNCHANGED <<home, target, disturbed, counters>>

-----------------------------------------------------------------------------
(* Toolchain and build *)

FindToolchain(p) == /\ pc[p] = "toolchain" /\ Goto(p, "checkBin")
                    /\ UNCHANGED <<home, target, staged, backup, counters>>

Build(p) == /\ pc[p] \in {"build", "retry"}
            /\ target' = target \cup {version[p]}
            /\ Goto(p, IF HasBin THEN "stageBin" ELSE "stageLib")
            /\ UNCHANGED <<home, staged, backup, counters>>

\* E0658 on a toolchain that may be moved: update it and build once more.
BuildNeedsNewerRust(p) == /\ pc[p] = "build" /\ Mishap("step") /\ Goto(p, "retry")
                          /\ UNCHANGED <<home, target, staged, backup>>

-----------------------------------------------------------------------------
(* Stage, commit, stamp *)

StageBin(p) == /\ pc[p] = "stageBin" /\ version[p] \in target
               /\ staged' = [staged EXCEPT ![p].bin = version[p]]
               /\ Goto(p, IF HasLib THEN "stageLib" ELSE "backup")
               /\ UNCHANGED <<home, target, backup, counters>>

StageLib(p) == /\ pc[p] = "stageLib" /\ version[p] \in target
               /\ staged' = [staged EXCEPT ![p].lib = version[p]]
               /\ Goto(p, IF HasBin THEN "backup" ELSE "commitLib")
               /\ UNCHANGED <<home, target, backup, counters>>

\* Another run of the same checkout has removed the build.
NothingToStage(p) == /\ pc[p] \in {"stageBin", "stageLib"} /\ version[p] \notin target
                     /\ End(p, "failed")
                     /\ UNCHANGED <<home, target, disturbed, counters>>

\* Mutant: the stamps are written before the artefacts are moved into place.
BackUpAndStamp(p) == /\ pc[p] = "backup" /\ backup' = [backup EXCEPT ![p] = bin]
                     /\ binStamp' = version[p] /\ libStamp' = version[p]
                     /\ Goto(p, "commitBin")
                     /\ UNCHANGED <<bin, lib, target, staged, counters>>
BackUp(p) == /\ pc[p] = "backup" /\ backup' = [backup EXCEPT ![p] = bin]
             /\ Goto(p, "commitBin")
             /\ UNCHANGED <<home, target, staged, counters>>

CommitBin(p) == /\ pc[p] = "commitBin" /\ staged[p].bin # None
                /\ bin' = staged[p].bin
                /\ staged' = [staged EXCEPT ![p].bin = None]
                /\ Goto(p, IF HasLib THEN "commitLib" ELSE "reap")
                /\ UNCHANGED <<lib, binStamp, libStamp, target, backup, counters>>

\* The trap has removed the staged binary: mv finds nothing to move.
NoBinToCommit(p) == /\ pc[p] = "commitBin" /\ staged[p].bin = None /\ End(p, "failed")
                    /\ UNCHANGED <<home, target, disturbed, counters>>

CommitLib(p) == /\ pc[p] = "commitLib" /\ staged[p].lib # None
                /\ lib' = staged[p].lib
                /\ staged' = [staged EXCEPT ![p].lib = None]
                /\ Goto(p, "reap")
                /\ UNCHANGED <<bin, binStamp, libStamp, target, backup, counters>>

NoLibToCommit(p) == /\ pc[p] = "commitLib" /\ staged[p].lib = None /\ Goto(p, "restore")
                    /\ UNCHANGED <<home, target, staged, backup, counters>>
CommitLibFails(p) == /\ pc[p] = "commitLib" /\ Mishap("step") /\ Goto(p, "restore")
                     /\ UNCHANGED <<home, target, staged, backup>>

\* Mutant: the library's failure leaves the binary where it is.
RestoreNothing(p) == /\ pc[p] = "restore" /\ End(p, "failed")
                     /\ UNCHANGED <<home, target, disturbed, counters>>

\* The binary goes back where it was, if there was one and it is still aside.
Restore(p) == /\ pc[p] = "restore"
              /\ bin' = IF backup[p] # None THEN backup[p] ELSE bin
              /\ End(p, "failed")
              /\ UNCHANGED <<lib, binStamp, libStamp, target, disturbed, counters>>
RestoreFails(p) == /\ pc[p] = "restore" /\ Mishap("step") /\ End(p, "failed")
                   /\ disturbed' = [disturbed EXCEPT ![p] = TRUE]
                   /\ UNCHANGED <<home, target>>

Reap(p) == /\ pc[p] = "reap" /\ backup' = [backup EXCEPT ![p] = None]
           /\ Goto(p, IF HasBin THEN "stampBin" ELSE "stampLib")
           /\ UNCHANGED <<home, target, staged, counters>>

StampBin(p) == /\ pc[p] = "stampBin" /\ binStamp' = version[p]
               /\ Goto(p, IF HasLib THEN "stampLib" ELSE "clean")
               /\ UNCHANGED <<bin, lib, libStamp, target, staged, backup, counters>>

\* Mutant: the library's stamp is skipped.
StampLibNot(p) == /\ pc[p] = "stampLib" /\ Goto(p, "clean")
                  /\ UNCHANGED <<home, target, staged, backup, counters>>
StampLib(p) == /\ pc[p] = "stampLib" /\ libStamp' = version[p]
               /\ Goto(p, "clean")
               /\ UNCHANGED <<bin, lib, binStamp, target, staged, backup, counters>>

\* The redirection empties the stamp before it writes it.
StampFails(p) == /\ pc[p] \in {"stampBin", "stampLib"} /\ Mishap("step") /\ End(p, "failed")
                 /\ binStamp' = IF pc[p] = "stampBin" THEN None ELSE binStamp
                 /\ libStamp' = IF pc[p] = "stampLib" THEN None ELSE libStamp
                 /\ UNCHANGED <<bin, lib, target, disturbed>>

RemoveTarget(p) == /\ pc[p] = "clean" /\ target' = target \ {version[p]}
                   /\ End(p, "installed")
                   /\ UNCHANGED <<home, disturbed, counters>>

-----------------------------------------------------------------------------
(* Mishaps *)

\* A step fails and the run dies there, as it is.
GiveUp(p) == /\ pc[p] \in {"toolchain", "build", "retry", "stageBin", "stageLib",
                           "backup", "commitBin", "reap", "clean"}
             /\ pc[p] = "reap" => backup[p] # None
             /\ Mishap("step") /\ End(p, "failed")
             /\ UNCHANGED <<home, target, disturbed>>

\* INT or TERM with the trap armed: the temporaries go, the script goes on.
Interrupt(p) == /\ pc[p] \in Armed /\ Mishap("signal")
                /\ staged' = [staged EXCEPT ![p] = NothingStaged]
                /\ backup' = [backup EXCEPT ![p] = None]
                /\ disturbed' = [disturbed EXCEPT ![p] = TRUE]
                /\ UNCHANGED <<home, target, pc, version, answer, found, latest>>

\* Power loss, SIGKILL, or a signal before the trap is armed.
Kill(p) == /\ ~ Idle(p) /\ Mishap("kill") /\ End(p, "killed")
           /\ UNCHANGED <<home, target, disturbed>>

\* "Delete the stamp to force a rebuild"; artefacts get deleted as well.
RemoveByHand ==
  /\ AllIdle /\ Mishap("remove")
  /\ \E S \in SUBSET (1 .. 4) :
       /\ bin' = IF 1 \in S THEN None ELSE bin
       /\ lib' = IF 2 \in S THEN None ELSE lib
       /\ binStamp' = IF 3 \in S THEN None ELSE binStamp
       /\ libStamp' = IF 4 \in S THEN None ELSE libStamp
  /\ UNCHANGED <<target, pc, version, staged, backup, history>>

-----------------------------------------------------------------------------

Init ==
  /\ \E v \in Installed : /\ bin = (IF HasBin THEN v ELSE None) /\ binStamp = bin
                          /\ lib = (IF HasLib THEN v ELSE None) /\ libStamp = lib
                          /\ latest = v
  /\ target = {} /\ runs = 0 /\ mishaps = 0
  /\ pc = [p \in Installers |-> "idle"]
  /\ version = [p \in Installers |-> None]
  /\ staged = [p \in Installers |-> NothingStaged]
  /\ backup = [p \in Installers |-> None]
  /\ answer = [p \in Installers |-> "none"]
  /\ found = [p \in Installers |-> <<None, None, None, None>>]
  /\ disturbed = [p \in Installers |-> FALSE]

Run(p) ==
  \/ Start(p)
  \/ FastPathDeclines(p) \/ LookAtBin(p) \/ LookAtLib(p) \/ AlreadyInstalled(p)
  \/ FindToolchain(p) \/ Build(p) \/ BuildNeedsNewerRust(p)
  \/ StageBin(p) \/ StageLib(p) \/ NothingToStage(p) \/ BackUp(p)
  \/ CommitBin(p) \/ NoBinToCommit(p) \/ CommitLib(p) \/ NoLibToCommit(p) \/ CommitLibFails(p)
  \/ Restore(p) \/ RestoreFails(p) \/ Reap(p)
  \/ StampBin(p) \/ StampLib(p) \/ StampFails(p) \/ RemoveTarget(p)
  \/ GiveUp(p) \/ Interrupt(p) \/ Kill(p)

Next == RemoveByHand \/ \E p \in Installers : Run(p)
Spec == Init /\ [][Next]_vars

-----------------------------------------------------------------------------
(* What the installer promises *)

\* Every variable keeps its type.
TypeOK ==
  /\ {bin, lib, binStamp, libStamp, latest, runs, mishaps} \subseteq Nat
  /\ target \subseteq Versions
  /\ pc \in [Installers -> {"idle"} \cup Early \cup Armed]
  /\ version \in [Installers -> Versions \cup {None}]
  /\ \A p \in Installers : ~ Idle(p) => version[p] \in Versions
  /\ staged \in [Installers -> [bin : Nat, lib : Nat]]
  /\ backup \in [Installers -> Nat]
  /\ answer \in [Installers -> {"none", "skipped", "installed", "failed", "killed"}]
  /\ found \in [Installers -> Nat \X Nat \X Nat \X Nat]
  /\ disturbed \in [Installers -> BOOLEAN]

\* One run at a time, and always of the newest version seen.
Newest ==
  \A p \in Installers : ~ Idle(p) =>
    /\ version[p] = latest
    /\ \A q \in Installers : ~ Idle(q) => p = q

\* No stamp is ahead of the artefact it stands for, and nothing is ahead of the
\* newest version run.
StampsFollow ==
  /\ {bin, lib, binStamp, libStamp} \subseteq 0 .. latest
  /\ bin # None => binStamp <= bin
  /\ lib # None => libStamp <= lib

\* What a run has established by the time it is at each step.
Progress ==
  \A p \in Installers :
    /\ pc[p] \in {"stageBin", "backup", "commitBin", "stampBin"} => HasBin
    /\ pc[p] \in {"stageLib", "commitLib", "restore", "stampLib"} => HasLib
    /\ pc[p] \in {"fastLib", "checkLib"} /\ HasBin => bin = version[p]
    /\ staged[p].bin \in {None, version[p]} /\ staged[p].lib \in {None, version[p]}
    /\ Idle(p) => staged[p] = NothingStaged /\ backup[p] = None
    /\ pc[p] \in {"stampBin", "stampLib", "clean"} => backup[p] = None
    /\ backup[p] # None => binStamp <= backup[p] /\ backup[p] <= latest
    /\ pc[p] \in {"commitLib", "restore", "reap", "stampBin", "stampLib", "clean"} /\ HasBin =>
         bin = version[p]
    /\ pc[p] \in {"reap", "stampBin", "stampLib", "clean"} /\ HasLib => lib = version[p]
    /\ pc[p] \in {"stampLib", "clean"} /\ HasBin => binStamp = version[p]
    /\ pc[p] = "clean" /\ HasLib => libStamp = version[p]

\* Nothing of the installation has moved before the first commit, and up to the
\* library's commit the old binary is aside, unless somebody interrupted.
Undoable ==
  \A p \in Installers :
    /\ pc[p] \in Early \cup {"stageBin", "stageLib", "backup", "commitBin", "commitLib", "restore"} =>
         lib = found[p][2] /\ binStamp = found[p][3] /\ libStamp = found[p][4]
    /\ pc[p] \in Early \cup {"stageBin", "stageLib", "backup", "commitBin"} => bin = found[p][1]
    /\ pc[p] \in {"commitLib", "restore"} /\ ~ HasBin => bin = found[p][1]
    /\ pc[p] \in {"commitBin", "commitLib", "restore"} /\ HasBin /\ ~ disturbed[p] =>
         backup[p] = found[p][1]
    /\ ~ HasBin => backup[p] = None

\* The inductive invariant, for runs that neither overlap nor go back.
IInv == ~ Overlap /\ ~ Rollback => TypeOK /\ Newest /\ StampsFollow /\ Progress /\ Undoable

\* For runs of one version, which may overlap: what is stamped as that version is
\* of that version, whoever put it there.
StampsAgree ==
  \A v \in Versions :
    /\ binStamp = v /\ bin # None => bin = v
    /\ libStamp = v /\ lib # None => lib = v

\* What a run has established by each step stays, whatever the others do, because
\* a library that cannot be committed has lost its backup as well.
Together ==
  \A p \in Installers :
    /\ pc[p] \in {"stageBin", "backup", "commitBin", "stampBin"} => HasBin
    /\ pc[p] \in {"stageLib", "commitLib", "restore", "stampLib"} => HasLib
    /\ staged[p].bin \in {None, version[p]} /\ staged[p].lib \in {None, version[p]}
    /\ Idle(p) => staged[p] = NothingStaged /\ backup[p] = None
    /\ pc[p] \in {"backup", "commitBin"} /\ HasLib /\ staged[p].lib = None =>
         staged[p].bin = None
    /\ pc[p] = "commitLib" /\ staged[p].lib = None => backup[p] = None
    /\ pc[p] = "restore" \/ ~ HasBin => backup[p] = None
    /\ pc[p] \in {"fastLib", "checkLib", "commitLib", "restore", "reap", "stampBin",
                  "stampLib", "clean"} /\ HasBin => bin = version[p]
    /\ pc[p] \in {"reap", "stampBin", "stampLib", "clean"} /\ HasLib => lib = version[p]
    /\ pc[p] \in {"stampLib", "clean"} /\ HasBin => binStamp = version[p]
    /\ pc[p] = "clean" /\ HasLib => libStamp = version[p]

\* The inductive invariant for overlapping runs of one version, where no step fails.
OneVersion == \A v, w \in Versions : v = w
OverlapInv == OneVersion /\ "step" \notin Mishaps => TypeOK /\ StampsAgree /\ Together

Ends(p, how) == pc[p] # "idle" /\ pc'[p] = "idle" /\ answer'[p] = how

Holds(b, l, v) == (HasBin => b = v) /\ (HasLib => l = v)

\* "already installed v<x>" is only said where both artefacts are x's, whatever
\* earlier runs died of.
SkipIsHonest ==
  [][\A p \in Installers : Ends(p, "skipped") => Holds(bin, lib, version[p])]_vars

\* A run that prints the installed path leaves both artefacts of its version,
\* both stamped.
InstallIsWhole ==
  [][\A p \in Installers : Ends(p, "installed") =>
       Holds(bin, lib, version[p]) /\ Holds(binStamp, libStamp, version[p])]_vars

\* An update that fails before its last artefact is in place is no update:
\* artefacts and stamps are what the run found.  It takes a binary to put back,
\* nobody interrupting, and a restore that works.
FailedUpdateIsUndone ==
  [][\A p \in Installers :
       /\ Ends(p, "failed") /\ ~ disturbed'[p]
       /\ pc[p] \notin {"reap", "stampBin", "stampLib", "clean"}
       /\ HasBin => found[p][1] # None
       => /\ bin' = found[p][1] /\ lib' = found[p][2]
          /\ binStamp' = found[p][3] /\ libStamp' = found[p][4]]_vars

=============================================================================
