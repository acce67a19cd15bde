------------------------- MODULE UploadCommitProofs -------------------------
(***************************************************************************)
(* Proofs about the archive upload of UploadCommit, for any set of files.  *)
(* The argument: until the host loses contact it is the commit alone that  *)
(* works on the target (Apart), and at each of its steps a file is where   *)
(* Looping and Swapping say, between its original place, .rollback and the *)
(* sibling directory; what the policy protects is never among the files    *)
(* the commit means to replace (Protecting).                               *)
(***************************************************************************)
EXTENDS UploadCommit, TLAPS

Types ==
  /\ policy \in Policies /\ original \in [Files -> Contents]
  /\ target \in [Files -> Contents] /\ backup \in [Files -> Contents]
  /\ aside \in [Files -> Contents] /\ staged \subseteq Files
  /\ helper \in HelperSteps /\ host \in {"extract", "verify", "commit", "cleanup", "done"}
  /\ todo \subseteq Files /\ journal \subseteq Files

\* Before the commit nothing has happened; the sweep reaches the target only after a commit
\* that the host has given up.
Apart ==
  /\ host \in {"extract", "verify"} => helper = "idle"
  /\ ~abandoned /\ host # "commit" => helper \in {"idle", "ended"}
  /\ abandoned => host \in {"cleanup", "done"}
  /\ swept # "none" => host = "cleanup"
  /\ swept = "target" => abandoned /\ IsAtomic /\ (policy = "error" => original = Nothing)
  /\ helper \in {"idle", "plan"} =>
       target = original /\ journal = {} /\ current = NoFile /\ outcome = "none"
       /\ aside = Nothing /\ swept # "target"
  /\ helper \in {"idle", "plan"} /\ ~abandoned /\ host \in {"extract", "verify", "commit"} =>
       backup = Nothing

Loop == {"backup", "copy", "rollback", "discard"}
Swap == {"setaside", "movein", "restore", "drop"}

Outcomes ==
  /\ helper \in Loop => ~IsAtomic
  /\ helper \in Swap => IsAtomic
  /\ outcome = "rolled back" => helper \in {"discard", "drop", "ended"}
  /\ outcome = "ok" => helper \in {"discard", "drop", "ended"}

\* What the commit has to do with a file that the policy protects: nothing.
Protecting ==
  /\ policy = "error" /\ helper \notin {"idle", "plan", "ended"} => original = Nothing
  /\ policy \in {"error", "skip"} =>
       \A f \in Files : original[f] # "absent" =>
         /\ target[f] = original[f]
         /\ helper \in Loop => f \notin todo \cup journal
         /\ helper = "copy" => current # f

\* Where a file is while the loop and the rollback of a commit run.
Looping ==
  /\ helper = "copy" =>
       /\ current \in todo
       /\ ~abandoned => target[current] = "absent" /\ backup[current] = original[current]
  /\ helper \in {"backup", "copy"} => journal \cap todo = {}
  /\ helper = "backup" => current = NoFile
  /\ helper \in {"backup", "copy"} =>
       \A f \in Files \ (todo \cup journal) :
         original[f] = "new" \/ (policy = "skip" /\ original[f] # "absent")
  /\ helper \in {"backup", "copy", "rollback"} /\ ~abandoned =>
       \A f \in Files :
         IF f \in journal
           THEN target[f] = "new" /\ backup[f] = original[f]
           ELSE \/ target[f] = original[f] /\ backup[f] = "absent"
                \/ /\ f = current /\ helper \in {"copy", "rollback"}
                   /\ target[f] = "absent" /\ backup[f] = original[f]

\* Where the two versions are while an atomic commit runs.
Swapping ==
  ~abandoned =>
    /\ helper = "setaside" => target = original /\ aside = Nothing
    /\ helper \in {"setaside", "movein"} => staged = Files
    /\ helper \in {"movein", "restore"} => target = Nothing /\ aside = original
    /\ helper = "drop" => \/ outcome = "ok" /\ target = Uploaded
                          \/ outcome = "rolled back" /\ target = original
                          \/ outcome = "error" /\ target = Nothing /\ aside = original

Complete ==
  /\ outcome = "ok" /\ ~abandoned =>
       \A f \in Files :
         target[f] = "new" \/ (policy = "skip" /\ original[f] # "absent" /\ target[f] = original[f])
  /\ succeeded => outcome = "ok" /\ ~abandoned /\ helper = "ended"

Inv ==
  /\ Types /\ Apart /\ Outcomes /\ Protecting /\ Looping /\ Swapping /\ Complete
  /\ RollbackLosesAtMostOne /\ AtomicKeepsOneVersion

LEMMA Start == Init => Inv
BY DEF Init, Inv, Types, HelperSteps, Contents, Policies, Nothing, Apart, Outcomes, Protecting,
       Looping, Swapping, Complete, RollbackLosesAtMostOne, AtomicKeepsOneVersion, Loop, Swap

\* The host goes on, and touches no more than the staging directory.
LEMMA HostGoesOn ==
  ASSUME Inv, Extract \/ Verify \/ StartCommit \/ SweepStarts \/ LoseContact \/ CommitReturns
  PROVE  Inv'
<1> USE DEF Inv, Types, Apart, Outcomes, Protecting, Looping, Swapping, Complete,
            RollbackLosesAtMostOne, AtomicKeepsOneVersion, HelperSteps, Contents,
            Nothing, Uploaded, Exists, Loop, Swap, IsAtomic, config, tree, process, caller
<1>1. CASE Extract
  BY <1>1 DEF Extract
<1>2. CASE Verify
  BY <1>2 DEF Verify
<1>3. CASE StartCommit
  BY <1>3 DEF StartCommit
<1>4. CASE SweepStarts
  BY <1>4 DEF SweepStarts
<1>5. CASE LoseContact
  BY <1>5 DEF LoseContact
<1>6. CASE CommitReturns
  BY <1>6 DEF CommitReturns
<1> QED BY <1>1, <1>2, <1>3, <1>4, <1>5, <1>6

LEMMA CleanupEndsStep == ASSUME Inv, CleanupEnds PROVE Inv'
<1> USE FilesAssumption
    DEF Inv, Nothing, Uploaded, Exists, Loop, Swap, IsAtomic,
        config, tree, process, caller, CleanupEnds
<1>1. Types'
  BY DEF Types, HelperSteps, Contents, ToReplace
<1>2. Apart'
  BY DEF Types, Apart, Acceptable
<1>3. Outcomes'
  BY DEF Types, Apart, Outcomes
<1>4. Protecting'
  BY DEF Types, Apart, Outcomes, Protecting, ToReplace, Acceptable
<1>5. Looping'
  BY DEF Types, Apart, Outcomes, Looping, ToReplace, Acceptable
<1>6. Swapping' /\ AtomicKeepsOneVersion'
  BY DEF Types, Apart, Outcomes, Swapping, AtomicKeepsOneVersion, Acceptable
<1>7. Complete'
  <2>1. CASE succeeded' = FALSE
    BY <2>1 DEF Complete
  <2>2. CASE succeeded' = succeeded
    BY <2>2 DEF Complete
  <2> QED BY <2>1, <2>2
<1>8. RollbackLosesAtMostOne'
  BY DEF Types, Apart, Outcomes, Looping, Swapping, RollbackLosesAtMostOne
<1> QED BY <1>1, <1>2, <1>3, <1>4, <1>5, <1>6, <1>7, <1>8

LEMMA SweepStep == ASSUME Inv, NEW f \in Files, Sweep(f) PROVE Inv'
<1> USE FilesAssumption
    DEF Inv, Nothing, Uploaded, Exists, Loop, Swap, IsAtomic,
        config, tree, process, caller, Sweep
<1>1. Types'
  BY DEF Types, HelperSteps, Contents, ToReplace
<1>2. Apart'
  BY DEF Types, Apart, Acceptable
<1>3. Outcomes'
  BY DEF Types, Apart, Outcomes
<1>4. Protecting'
  BY DEF Types, Apart, Outcomes, Protecting, ToReplace, Acceptable
<1>5. Looping'
  BY DEF Types, Apart, Outcomes, Looping, ToReplace, Acceptable
<1>6. Swapping' /\ AtomicKeepsOneVersion'
  BY DEF Types, Apart, Outcomes, Swapping, AtomicKeepsOneVersion, Acceptable
<1>7. Complete'
  BY DEF Types, Apart, Outcomes, Looping, Swapping, Complete
<1>8. RollbackLosesAtMostOne'
  BY DEF Types, Apart, Outcomes, Looping, Swapping, RollbackLosesAtMostOne
<1> QED BY <1>1, <1>2, <1>3, <1>4, <1>5, <1>6, <1>7, <1>8

LEMMA PlanStep == ASSUME Inv, Plan PROVE Inv'
<1> USE FilesAssumption
    DEF Inv, Nothing, Uploaded, Exists, Loop, Swap, IsAtomic,
        config, tree, process, caller, Plan
<1>1. Types'
  BY DEF Types, HelperSteps, Contents, ToReplace
<1>2. Apart'
  BY DEF Types, Apart, Acceptable
<1>3. Outcomes'
  BY DEF Types, Apart, Outcomes
<1>4. Protecting'
  BY DEF Types, Apart, Outcomes, Protecting, ToReplace, Acceptable
<1>5. Looping'
  <2>1. target = original /\ journal = {} /\ current = NoFile /\ (~abandoned => backup = Nothing)
    BY DEF Apart
  <2>2. ASSUME helper' = "backup", NEW f \in Files \ todo'
        PROVE  original[f] = "new" \/ (policy = "skip" /\ original[f] # "absent")
    BY <2>1, <2>2 DEF Types, ToReplace, Acceptable, Policies, Contents
  <2> QED BY <2>1, <2>2 DEF Looping, Types
<1>6. Swapping' /\ AtomicKeepsOneVersion'
  BY DEF Types, Apart, Outcomes, Swapping, AtomicKeepsOneVersion, Acceptable
<1>7. Complete'
  BY DEF Types, Apart, Outcomes, Looping, Swapping, Complete
<1>8. RollbackLosesAtMostOne'
  BY DEF Types, Apart, Outcomes, Looping, Swapping, RollbackLosesAtMostOne
<1> QED BY <1>1, <1>2, <1>3, <1>4, <1>5, <1>6, <1>7, <1>8

\* The commit's steps that put no new file in place.
LEMMA HelperGoesOn ==
  ASSUME Inv, Refuse \/ LoopFails \/ LoopEnds \/ RollbackEnds \/ Discard \/ SetAside
         \/ MoveFails \/ Restore \/ Drop \/ Killed
  PROVE  Inv'
<1> USE DEF Inv, Types, Apart, Outcomes, Protecting, Looping, Swapping, Complete,
            RollbackLosesAtMostOne, AtomicKeepsOneVersion, HelperSteps, Contents,
            Nothing, Uploaded, Exists, Loop, Swap, IsAtomic, config, tree, process, caller
<1>1. CASE Refuse
  BY <1>1 DEF Refuse
<1>2. CASE LoopFails
  BY <1>2 DEF LoopFails
<1>3. CASE LoopEnds
  BY <1>3 DEF LoopEnds
<1>4. CASE RollbackEnds
  BY <1>4 DEF RollbackEnds
<1>5. CASE Discard
  BY <1>5 DEF Discard
<1>6. CASE SetAside
  BY <1>6 DEF SetAside
<1>7. CASE MoveFails
  BY <1>7 DEF MoveFails
<1>8. CASE Restore
  BY <1>8 DEF Restore
<1>9. CASE Drop
  BY <1>9 DEF Drop
<1>10. CASE Killed
  BY <1>10 DEF Killed
<1> QED BY <1>1, <1>2, <1>3, <1>4, <1>5, <1>6, <1>7, <1>8, <1>9, <1>10

LEMMA CopyStep == ASSUME Inv, Copy PROVE Inv'
<1> USE FilesAssumption
    DEF Inv, Nothing, Uploaded, Exists, Loop, Swap, IsAtomic,
        config, tree, process, caller, Copy
<1>1. Types'
  BY DEF Types, HelperSteps, Contents, ToReplace
<1>2. Apart'
  BY DEF Types, Apart, Acceptable
<1>3. Outcomes'
  BY DEF Types, Apart, Outcomes
<1>4. Protecting'
  BY DEF Types, Apart, Outcomes, Protecting, ToReplace, Acceptable
<1>5. Looping'
  <2>1. current \in Files /\ current \notin journal
    BY DEF Looping, Types
  <2>2. Files \ (todo' \cup journal') = Files \ (todo \cup journal)
    BY <2>1 DEF Looping
  <2>3. ASSUME ~abandoned, NEW f \in Files
        PROVE  IF f \in journal'
                 THEN target'[f] = "new" /\ backup[f] = original[f]
                 ELSE target'[f] = original[f] /\ backup[f] = "absent"
    BY <2>1, <2>3 DEF Looping, Types
  <2> QED BY <2>1, <2>2, <2>3 DEF Looping, Types
<1>6. Swapping' /\ AtomicKeepsOneVersion'
  BY DEF Types, Apart, Outcomes, Swapping, AtomicKeepsOneVersion, Acceptable
<1>7. Complete'
  BY DEF Types, Apart, Outcomes, Looping, Swapping, Complete
<1>8. RollbackLosesAtMostOne'
  BY DEF Types, Apart, Outcomes, Looping, Swapping, RollbackLosesAtMostOne
<1> QED BY <1>1, <1>2, <1>3, <1>4, <1>5, <1>6, <1>7, <1>8

LEMMA MoveInStep == ASSUME Inv, MoveIn PROVE Inv'
<1> USE FilesAssumption
    DEF Inv, Nothing, Uploaded, Exists, Loop, Swap, IsAtomic,
        config, tree, process, caller, MoveIn
<1>1. Types'
  BY DEF Types, HelperSteps, Contents, ToReplace
<1>2. Apart'
  BY DEF Types, Apart, Outcomes, Protecting, Swapping
<1>3. Outcomes'
  BY DEF Types, Apart, Outcomes
<1>4. Protecting'
  BY DEF Types, Apart, Outcomes, Protecting, ToReplace, Acceptable
<1>5. Looping'
  BY DEF Types, Apart, Outcomes, Looping, ToReplace, Acceptable
<1>6. Swapping' /\ AtomicKeepsOneVersion'
  BY DEF Types, Apart, Outcomes, Swapping, AtomicKeepsOneVersion, Acceptable
<1>7. Complete'
  BY DEF Types, Apart, Outcomes, Looping, Swapping, Complete
<1>8. RollbackLosesAtMostOne'
  BY DEF Types, Apart, Outcomes, Looping, Swapping, RollbackLosesAtMostOne
<1> QED BY <1>1, <1>2, <1>3, <1>4, <1>5, <1>6, <1>7, <1>8

LEMMA BackupStep == ASSUME Inv, NEW f \in Files, Backup(f) PROVE Inv'
<1> USE FilesAssumption
    DEF Inv, Nothing, Uploaded, Exists, Loop, Swap, IsAtomic,
        config, tree, process, caller, Backup
<1>1. Types'
  BY DEF Types, HelperSteps, Contents, ToReplace
<1>2. Apart'
  BY DEF Types, Apart, Acceptable
<1>3. Outcomes'
  BY DEF Types, Apart, Outcomes
<1>4. Protecting'
  BY DEF Types, Apart, Outcomes, Protecting, ToReplace, Acceptable
<1>5. Looping'
  <2>1. ~abandoned => target[f] = original[f] /\ backup[f] = "absent"
    BY DEF Looping, Types
  <2>2. ~abandoned => target'[f] = "absent" /\ backup'[f] = original[f]
    BY <2>1 DEF Types
  <2>3. \A g \in Files \ {f} : target'[g] = target[g] /\ backup'[g] = backup[g]
    BY DEF Types
  <2> QED BY <2>1, <2>2, <2>3 DEF Looping, Types
<1>6. Swapping' /\ AtomicKeepsOneVersion'
  BY DEF Types, Apart, Outcomes, Swapping, AtomicKeepsOneVersion, Acceptable
<1>7. Complete'
  BY DEF Types, Apart, Outcomes, Looping, Swapping, Complete
<1>8. RollbackLosesAtMostOne'
  BY DEF Types, Apart, Outcomes, Looping, Swapping, RollbackLosesAtMostOne
<1> QED BY <1>1, <1>2, <1>3, <1>4, <1>5, <1>6, <1>7, <1>8

LEMMA UndoStep == ASSUME Inv, NEW f \in Files, Undo(f) PROVE Inv'
<1> USE FilesAssumption
    DEF Inv, Nothing, Uploaded, Exists, Loop, Swap, IsAtomic,
        config, tree, process, caller, Undo
<1>1. Types'
  BY DEF Types, HelperSteps, Contents, ToReplace
<1>2. Apart'
  BY DEF Types, Apart, Acceptable
<1>3. Outcomes'
  BY DEF Types, Apart, Outcomes
<1>4. Protecting'
  BY DEF Types, Apart, Outcomes, Protecting, ToReplace, Acceptable
<1>5. Looping'
  BY DEF Types, Apart, Outcomes, Looping, ToReplace, Acceptable
<1>6. Swapping' /\ AtomicKeepsOneVersion'
  BY DEF Types, Apart, Outcomes, Swapping, AtomicKeepsOneVersion, Acceptable
<1>7. Complete'
  BY DEF Types, Apart, Outcomes, Looping, Swapping, Complete
<1>8. RollbackLosesAtMostOne'
  BY DEF Types, Apart, Outcomes, Looping, Swapping, RollbackLosesAtMostOne
<1> QED BY <1>1, <1>2, <1>3, <1>4, <1>5, <1>6, <1>7, <1>8

LEMMA Stutter == ASSUME Inv, UNCHANGED vars PROVE Inv'
<1> USE FilesAssumption
    DEF Inv, Nothing, Uploaded, Exists, Loop, Swap, IsAtomic,
        config, tree, process, caller, vars
<1>1. Types'
  BY DEF Types, HelperSteps, Contents, ToReplace
<1>2. Apart'
  BY DEF Types, Apart, Acceptable
<1>3. Outcomes'
  BY DEF Types, Apart, Outcomes
<1>4. Protecting'
  BY DEF Types, Apart, Outcomes, Protecting, ToReplace, Acceptable
<1>5. Looping'
  BY DEF Types, Apart, Outcomes, Looping, ToReplace, Acceptable
<1>6. Swapping' /\ AtomicKeepsOneVersion'
  BY DEF Types, Apart, Outcomes, Swapping, AtomicKeepsOneVersion, Acceptable
<1>7. Complete'
  BY DEF Types, Apart, Outcomes, Looping, Swapping, Complete
<1>8. RollbackLosesAtMostOne'
  BY DEF Types, Apart, Outcomes, Looping, Swapping, RollbackLosesAtMostOne
<1> QED BY <1>1, <1>2, <1>3, <1>4, <1>5, <1>6, <1>7, <1>8

LEMMA Invariance == Spec => []Inv
<1>1. Inv /\ [Next]_vars => Inv'
  <2> SUFFICES ASSUME Inv, [Next]_vars PROVE Inv'
    OBVIOUS
  <2>1. CASE HostStep
    BY <2>1, HostGoesOn, CleanupEndsStep, SweepStep DEF HostStep
  <2>2. CASE HelperStep
    BY <2>2, HelperGoesOn, PlanStep, CopyStep, MoveInStep, BackupStep, UndoStep DEF HelperStep
  <2> QED BY <2>1, <2>2, Stutter DEF Next
<1> QED BY <1>1, Start, PTL DEF Spec

-----------------------------------------------------------------------------
\* Under "error" and "skip" an archive never touches an existing file, whatever fails, is
\* killed or runs on after the host has given it up.
THEOREM ArchiveRespectsExisting == Spec => []ExistingFilesStay
<1>1. Inv => ExistingFilesStay
  BY DEF Inv, Protecting, ExistingFilesStay
<1> QED BY <1>1, Invariance, PTL

\* While a commit works on the target and rolls back, no old file is lost but the one
\* that the rollback forgets.
THEOREM CommitKeepsOriginals == Spec => []OriginalsAreKept
<1>1. Inv => OriginalsAreKept
  BY DEF Inv, Looping, OriginalsAreKept
<1> QED BY <1>1, Invariance, PTL

\* A commit reported as rolled back has restored all but at most one file.
THEOREM RollbackRestores == Spec => []RollbackLosesAtMostOne
<1>1. Inv => RollbackLosesAtMostOne
  BY DEF Inv
<1> QED BY <1>1, Invariance, PTL

\* An atomic commit shows the old target, the new one, or none with the old one aside, also
\* when the process is killed between its renames.
THEOREM AtomicIsAtomic == Spec => []AtomicKeepsOneVersion
<1>1. Inv => AtomicKeepsOneVersion
  BY DEF Inv
<1> QED BY <1>1, Invariance, PTL

\* An archive upload that reports success has every file in place.
THEOREM ArchiveSuccessIsTrue == Spec => []SuccessIsComplete
<1>1. Inv => SuccessIsComplete
  BY DEF Inv, Complete, SuccessIsComplete
<1> QED BY <1>1, Invariance, PTL
=============================================================================
