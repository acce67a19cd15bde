------------------------- MODULE UploadServiceProofs -------------------------
(***************************************************************************)
(* Proofs about the file-by-file upload of UploadService, for any files    *)
(* and any number of writes by others.  The argument: what the upload      *)
(* remembers of a file is what the others left there, unless they wrote it *)
(* since (Memory); a file it does not remember holds what they left        *)
(* (Untouched); and it writes only what it remembers (Committing).         *)
(***************************************************************************)
EXTENDS UploadService, TLAPS

Some == Contents \cup {"other"}

Types ==
  /\ files \in [Files -> Some] /\ theirs \in [Files -> Some]
  /\ previous \in [Files -> Some \cup {"unread"}]
  /\ left \subseteq Files /\ verified \subseteq Files
  /\ phase \in {"staging", "committing", "rollback", "tidying", "done"}

\* An archive leaves the file-by-file variables alone.
Apart == bulk => verdict = "none" /\ files = theirs

Memory == \A f \in Files \ raced : previous[f] # "unread" => previous[f] = theirs[f]

Untouched ==
  \A f \in Files \ (raced \cup unrestored) : previous[f] = "unread" => files[f] = theirs[f]

\* The phases: nothing is remembered before the commit, every file is read once, and an
\* upload that fails forgets what it has restored.
Phases ==
  /\ phase \in {"staging", "committing"} => unrestored = {} /\ verdict = "none"
  /\ phase = "staging" => \A f \in Files : previous[f] = "unread"
  /\ phase = "committing" => \A f \in left : previous[f] = "unread"
  /\ phase \in {"tidying", "done"} /\ verdict = "error" => Remembered = {}

Guarded == policy \in {"error", "skip"}

\* The file being committed is remembered, and under "error" and "skip" was missing.
Committing ==
  step # "none" =>
    /\ phase = "committing" /\ busy \in Files /\ previous[busy] # "unread"
    /\ Guarded /\ busy \notin raced => theirs[busy] = "absent"

Inv == Types /\ Apart /\ Memory /\ Untouched /\ Phases /\ Committing /\ WhatIsReadStays

LEMMA Start == ServiceInit => Inv
BY DEF ServiceInit, Init, Inv, Types, Some, Apart, Memory, Untouched, Phases, Committing,
       WhatIsReadStays, Remembered

LEMMA PolicyStays == ASSUME Next PROVE policy' = policy
<1>1. CASE HostStep
  BY <1>1 DEF HostStep, Extract, Verify, StartCommit, CommitReturns, LoseContact, SweepStarts,
     CleanupEnds, Sweep, config
<1>2. CASE HelperStep
  BY <1>2 DEF HelperStep, Plan, Refuse, Copy, LoopFails, LoopEnds, RollbackEnds, Discard,
     Backup, Undo, SetAside, MoveIn, MoveFails, Restore, Drop, Killed, config
<1> QED BY <1>1, <1>2 DEF Next

LEMMA ArchiveStep == ASSUME Inv, bulk, Next, UNCHANGED perFile PROVE Inv'
BY PolicyStays DEF Inv, Types, Some, Apart, Memory, Untouched, Phases, Committing,
   WhatIsReadStays, Remembered, perFile, loop, stage, world, writing, Guarded

LEMMA StagingStep ==
  ASSUME Inv, ~bulk, NEW f \in Files, Stages(f) \/ StagingFails(f) PROVE Inv'
BY DEF Inv, Types, Some, Apart, Memory, Untouched, Phases, Committing, WhatIsReadStays,
       Remembered, Stages, StagingFails, vars, config, writing, world, Guarded

\* The steps that change no file and do not read one.
LEMMA QuietStep ==
  ASSUME Inv, ~bulk,
         \/ AllStaged \/ AllCommitted \/ RolledBack \/ Tidied
         \/ \E f \in Files : Checks(f) \/ Tidies(f)
  PROVE  Inv'
BY DEF Inv, Types, Some, Apart, Memory, Untouched, Phases, Committing, WhatIsReadStays,
       Remembered, AllStaged, AllCommitted, RolledBack, Tidied, Checks, Tidies, Rests, RollsBack,
       vars, config, writing, world, loop, stage, Guarded

LEMMA ReadStep == ASSUME Inv, ~bulk, NEW f \in Files, Reads(f) PROVE Inv'
<1> USE DEF Inv, Reads, vars, config, world, stage
<1>1. Types' /\ Apart' /\ WhatIsReadStays'
  BY DEF Types, Some, Apart, WhatIsReadStays, RollsBack, writing
<1>2. previous' = [previous EXCEPT ![f] = files[f]] /\ files[f] \in Some /\ "unread" \notin Some
  BY DEF Types, Some, Contents
<1>3. Memory' /\ Untouched'
  BY <1>2 DEF Memory, Untouched, Phases, Types
<1>4. Phases'
  BY <1>2 DEF Phases, Types, RollsBack, Remembered
<1>5. Committing'
  BY <1>2 DEF Committing, Phases, Types, RollsBack, Rests, Untouched, ConflictAction, Guarded,
     writing
<1> QED BY <1>1, <1>3, <1>4, <1>5

LEMMA WriteStep == ASSUME Inv, ~bulk, NEW f \in Files, Writes(f) PROVE Inv'
BY DEF Inv, Types, Some, Contents, Apart, Memory, Untouched, Phases, Committing,
       WhatIsReadStays, Remembered, Writes, vars, config, world, stage, Guarded

LEMMA WriteBackStep == ASSUME Inv, ~bulk, NEW f \in Files, WritesBack(f) PROVE Inv'
BY DEF Inv, Types, Some, Contents, Apart, Memory, Untouched, Phases, Committing,
       WhatIsReadStays, Remembered, WritesBack, vars, config, world, stage, loop, writing, Guarded

LEMMA FailureStep == ASSUME Inv, ~bulk, CommitFails \/ Cancelled PROVE Inv'
BY DEF Inv, Types, Some, Contents, Apart, Memory, Untouched, Phases, Committing,
       WhatIsReadStays, Remembered, CommitFails, Cancelled, Rests, RollsBack, vars, config, world,
       stage, Guarded

LEMMA OthersStep ==
  ASSUME Inv, ~bulk, NEW f \in Files, NEW content \in {"absent", "other"}, OtherWrites(f, content)
  PROVE  Inv'
BY DEF Inv, Types, Some, Contents, Apart, Memory, Untouched, Phases, Committing,
       WhatIsReadStays, Remembered, OtherWrites, vars, config, stage, loop, writing, Guarded

LEMMA Invariance == ServiceSpec => []Inv
<1>1. Inv /\ [ServiceNext]_serviceVars => Inv'
  <2> SUFFICES ASSUME Inv, [ServiceNext]_serviceVars PROVE Inv'
    OBVIOUS
  <2>1. CASE UNCHANGED serviceVars
    BY <2>1 DEF serviceVars, vars, config, perFile, loop, stage, world, writing, Inv, Types, Apart,
       Memory, Untouched, Phases, Committing, WhatIsReadStays, Remembered, Guarded
  <2>2. CASE bulk /\ Next /\ UNCHANGED perFile
    BY <2>2, ArchiveStep
  <2>3. CASE ~bulk /\ PerFileStep
    BY <2>3, StagingStep, QuietStep, ReadStep, WriteStep, WriteBackStep, FailureStep, OthersStep
       DEF PerFileStep
  <2> QED BY <2>1, <2>2, <2>3 DEF ServiceNext
<1> QED BY <1>1, Start, PTL DEF ServiceSpec

\* A file-by-file upload that fails has put back what it found, but for files that others
\* wrote after it had read them and those it could not write back.
THEOREM RollbackIsComplete == ServiceSpec => []FailureRestores
<1>1. Inv => FailureRestores
  BY DEF Inv, Untouched, Phases, FailureRestores, Remembered, Types, Some, Contents
<1> QED BY <1>1, Invariance, PTL

\* Under "error" and "skip" an existing file stays what others have made it, until one of
\* them writes it after the upload has read it.
THEOREM ExistingIsKept == ServiceSpec => []WhatIsReadStays
<1>1. Inv => WhatIsReadStays
  BY DEF Inv
<1> QED BY <1>1, Invariance, PTL

-----------------------------------------------------------------------------
(* Success: what the loops have passed is in place.                        *)

InPlace(f) ==
  files[f] = "new" \/ (policy = "skip" /\ theirs[f] # "absent" /\ files[f] = theirs[f])

\* The files a commit has been through, but for the one it is at.
Passed(f) == previous[f] # "unread" /\ (f \in raced \/ (step # "none" /\ f = busy) \/ InPlace(f))

Progress ==
  /\ phase = "staging" => Files \ left \subseteq verified \cup skipped \cup failures
  /\ verdict \in {"none", "ok"} => \A f \in skipped \ raced : files[f] = "new"
  /\ phase = "committing" => \A f \in Files \ (left \cup skipped \cup failures) : Passed(f)
  /\ step = "check" /\ busy \notin raced => files[busy] = "new"
  /\ verdict = "ok" =>
       /\ phase \in {"tidying", "done"} /\ step = "none"
       /\ \A f \in Files \ (skipped \cup failures) : Passed(f)
  /\ phase = "rollback" => verdict = "error"
  /\ skipped \subseteq Files

LEMMA ProgressStep == ASSUME Inv, Progress, [ServiceNext]_serviceVars PROVE Progress'
<1> USE DEF Progress, Passed, InPlace, Inv, Types, Some, Contents, vars, config
<1>1. CASE UNCHANGED serviceVars
  BY <1>1 DEF serviceVars, perFile, loop, stage, world, writing
<1>2. CASE bulk /\ Next /\ UNCHANGED perFile
  BY <1>2, PolicyStays DEF perFile, loop, stage, world, writing, Apart
<1>3. CASE ~bulk /\ PerFileStep
  <2>1. ASSUME NEW f \in Files, Stages(f) \/ StagingFails(f) PROVE Progress'
    BY <2>1 DEF Stages, StagingFails, Unchanged, writing, world, Phases, Committing
  <2>2. CASE AllStaged \/ RolledBack \/ Tidied
    BY <2>2 DEF AllStaged, RolledBack, Tidied, writing, world, stage, loop, Phases, Committing
  <2>3. CASE AllCommitted
    BY <2>3 DEF AllCommitted, writing, world, stage, loop, Phases
  <2>4. ASSUME NEW f \in Files, Reads(f) PROVE Progress'
    BY <2>4 DEF Reads, ConflictAction, RollsBack, Rests, writing, world, stage, Phases, Untouched
  <2>5. ASSUME NEW f \in Files, Writes(f) PROVE Progress'
    BY <2>5 DEF Writes, world, stage, Committing, Phases
  <2>6. ASSUME NEW f \in Files, Checks(f) PROVE Progress'
    BY <2>6 DEF Checks, RollsBack, Rests, world, stage, Committing, Phases
  <2>7. CASE CommitFails \/ Cancelled
    BY <2>7 DEF CommitFails, Cancelled, RollsBack, Rests, world, stage, Phases, Remembered
  <2>8. ASSUME NEW f \in Files, WritesBack(f) PROVE Progress'
    BY <2>8 DEF WritesBack, loop, writing, world, stage, Committing
  <2>9. ASSUME NEW f \in Files, Tidies(f) PROVE Progress'
    BY <2>9 DEF Tidies, loop, writing, world
  <2>10. ASSUME NEW f \in Files, NEW content \in {"absent", "other"}, OtherWrites(f, content)
         PROVE  Progress'
    BY <2>10 DEF OtherWrites, loop, writing, stage, Remembered, Committing
  <2> QED BY <1>3, <2>1, <2>2, <2>3, <2>4, <2>5, <2>6, <2>7, <2>8, <2>9, <2>10 DEF PerFileStep
<1> QED BY <1>1, <1>2, <1>3 DEF ServiceNext

\* A file-by-file upload that succeeds has every file in place that it does not report as
\* failed, that "skip" does not leave alone and that nobody else wrote once it was read.
THEOREM SuccessIsTrue == ServiceSpec => []SuccessIsInPlace
<1>1. ServiceInit => Progress
  BY DEF ServiceInit, Init, Progress
<1>2. Inv /\ Progress => SuccessIsInPlace
  BY DEF Inv, Progress, Passed, InPlace, SuccessIsInPlace, Types
<1> QED BY <1>1, <1>2, ProgressStep, Invariance, PTL DEF ServiceSpec

-----------------------------------------------------------------------------
\* Seen through the variables of the archive, an upload of either kind is an archive upload:
\* what holds of UploadCommit holds of the whole service.
THEOREM ArchivesAreCommits == ServiceSpec => Spec
<1>1. ServiceInit => Init
  BY DEF ServiceInit
<1>2. [ServiceNext]_serviceVars => [Next]_vars
  BY DEF ServiceNext, serviceVars, PerFileStep, Stages, StagingFails, AllStaged, Reads, Writes,
         Checks, CommitFails, AllCommitted, WritesBack, RolledBack, Cancelled, Tidies, Tidied,
         OtherWrites
<1> QED BY <1>1, <1>2, PTL DEF ServiceSpec, Spec
=============================================================================
