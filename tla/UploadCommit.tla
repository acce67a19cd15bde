---------------------------- MODULE UploadCommit ----------------------------
(***************************************************************************)
(* The archive upload: the host (upload/provider_transport.py) has the     *)
(* upload helper extract an archive into a staging directory, verify it,   *)
(* commit it to the target, and finally remove the staging directory.  The *)
(* helper (helper/source/upload_helper.py) is a process of its own in the  *)
(* sandbox: any of its file operations may fail, it may be killed, and the *)
(* host may lose contact and clean up while the commit still runs.         *)
(*                                                                         *)
(* A target without any file counts as one that does not exist.            *)
(***************************************************************************)
EXTENDS FiniteSets

CONSTANT Files  \* the relative paths of the manifest

ASSUME FilesAssumption == IsFiniteSet(Files) /\ Files # {}

VARIABLES
  policy,     \* the conflict policy
  atomic,     \* the commit is asked for as atomic
  original,   \* the target before the upload
  target,     \* the target directory
  staged,     \* the files in the staging directory
  backup,     \* its .rollback directory
  aside,      \* the sibling of the target that an atomic commit moves it to
  helper,     \* where the commit process is
  todo,       \* its actions that are not done yet
  current,    \* the file its loop is at
  journal,    \* the files it has replaced
  outcome,    \* what it reports
  host,       \* where upload_archive is
  succeeded,  \* what it has returned or will return
  swept,      \* the directory the cleanup command is removing
  abandoned   \* history variable: the host went on while the commit was running

config == <<policy, atomic, original>>
tree == <<target, staged, backup, aside>>
process == <<helper, todo, current, journal, outcome>>
caller == <<host, succeeded, swept, abandoned>>
vars == <<config, tree, process, caller>>

Policies == {"error", "overwrite", "skip", "if_changed"}
Contents == {"absent", "old", "new"}  \* "new" is the uploaded content
Nothing == [f \in Files |-> "absent"]
Uploaded == [f \in Files |-> "new"]
NoFile == "none"

Exists(dir) == dir # Nothing
IsAtomic == atomic /\ policy \in {"error", "overwrite"}

Init ==
  /\ policy \in Policies /\ atomic \in BOOLEAN
  /\ original \in [Files -> Contents]
  /\ target = original
  /\ staged = {} /\ backup = Nothing /\ aside = Nothing
  /\ helper = "idle" /\ todo = {} /\ current = NoFile /\ journal = {} /\ outcome = "none"
  /\ host = "extract" /\ succeeded = FALSE /\ swept = "none" /\ abandoned = FALSE

-----------------------------------------------------------------------------
(* The host.                                                               *)

\* extract, or verify, succeeds; either may fail, an extraction half way.
Extract ==
  /\ host = "extract"
  /\ \/ staged' = Files /\ host' = "verify"
     \/ staged' \in SUBSET Files /\ host' = "cleanup"
  /\ UNCHANGED <<config, target, backup, aside, process, succeeded, swept, abandoned>>

Verify ==
  /\ host = "verify"
  /\ host' \in {"commit", "cleanup"}
  /\ UNCHANGED <<config, tree, process, succeeded, swept, abandoned>>

StartCommit ==
  /\ host = "commit" /\ helper = "idle"
  /\ helper' = "plan"
  /\ UNCHANGED <<config, tree, todo, current, journal, outcome, caller>>

\* The command has ended and the host hears of it; a success may get lost.
CommitReturns ==
  /\ host = "commit" /\ helper = "ended"
  /\ host' = "cleanup"
  /\ succeeded' \in {FALSE, outcome = "ok"}
  /\ UNCHANGED <<config, tree, process, swept, abandoned>>

\* execute() raises, or is cancelled, while the helper runs on.
LoseContact ==
  /\ host = "commit" /\ helper \notin {"idle", "ended"}
  /\ host' = "cleanup" /\ abandoned' = TRUE
  /\ UNCHANGED <<config, tree, process, succeeded, swept>>

\* cleanup_staging: rmtree goes through the directory file by file, also after
\* the directory has been moved.
SweepStarts ==
  /\ host = "cleanup" /\ swept = "none"
  /\ swept' = "staging"
  /\ UNCHANGED <<config, tree, process, host, succeeded, abandoned>>

Sweep(f) ==
  /\ host = "cleanup"
  /\ \/ /\ swept = "staging" /\ (f \in staged \/ backup[f] # "absent")
        /\ staged' = staged \ {f} /\ backup' = [backup EXCEPT ![f] = "absent"]
        /\ UNCHANGED target
     \/ /\ swept = "target" /\ target[f] # "absent"
        /\ target' = [target EXCEPT ![f] = "absent"]
        /\ UNCHANGED <<staged, backup>>
  /\ UNCHANGED <<config, aside, process, caller>>

\* The command is over, complete or not; if execute() raises, its error replaces
\* the result of the upload.
CleanupEnds ==
  /\ host = "cleanup"
  /\ host' = "done" /\ succeeded' \in {FALSE, succeeded} /\ swept' = "none"
  /\ UNCHANGED <<config, tree, process, abandoned>>

-----------------------------------------------------------------------------
(* commit_staging.                                                         *)

\* Mutant: existing files are replaced whatever the policy.
ReplaceAnything == Files
\* Mutant: existing files are never replaced.
ReplaceMissing == {f \in Files : target[f] = "absent"}

\* Files a commit replaces: those missing, and existing ones as the policy says.
ToReplace ==
  {f \in Files : \/ target[f] = "absent"
                 \/ policy = "overwrite"
                 \/ policy = "if_changed" /\ target[f] # "new"}

\* verify_staging finds the staging directory complete, and no file is in the way
\* of the policy "error".
Acceptable == staged = Files /\ (policy = "error" => ~Exists(target))

Plan ==
  /\ helper = "plan" /\ Acceptable
  /\ helper' = IF IsAtomic THEN "setaside" ELSE "backup"
  /\ todo' = IF IsAtomic THEN {} ELSE ToReplace
  /\ UNCHANGED <<config, tree, current, journal, outcome, caller>>

\* Not acceptable, or a file cannot be read or is no regular file.
Refuse ==
  /\ helper = "plan"
  /\ helper' = "ended" /\ outcome' = "error"
  /\ UNCHANGED <<config, tree, todo, current, journal, caller>>

\* The old file goes to .rollback.
Backup(f) ==
  /\ helper = "backup" /\ f \in todo
  /\ IF target[f] = "absent"
       THEN UNCHANGED <<target, backup>>
       ELSE /\ backup' = [backup EXCEPT ![f] = target[f]]
            /\ target' = [target EXCEPT ![f] = "absent"]
  /\ current' = f /\ helper' = "copy"
  /\ UNCHANGED <<config, staged, aside, todo, journal, outcome, caller>>

\* Mutant: the replaced file is not entered in the journal.
CopyUnjournaled ==
  /\ helper = "copy" /\ current \in staged
  /\ target' = [target EXCEPT ![current] = "new"]
  /\ todo' = todo \ {current} /\ current' = NoFile
  /\ helper' = "backup"
  /\ UNCHANGED <<config, staged, backup, aside, journal, outcome, caller>>

\* The new file is copied beside the destination, moved there and journaled.
Copy ==
  /\ helper = "copy" /\ current \in staged
  /\ target' = [target EXCEPT ![current] = "new"]
  /\ journal' = journal \cup {current}
  /\ todo' = todo \ {current} /\ current' = NoFile
  /\ helper' = "backup"
  /\ UNCHANGED <<config, staged, backup, aside, outcome, caller>>

\* An exception in the loop: mkdir, a move or the copy failed.
LoopFails ==
  /\ helper \in {"backup", "copy"} /\ todo # {}
  /\ helper' = "rollback"
  /\ UNCHANGED <<config, tree, todo, current, journal, outcome, caller>>

LoopEnds ==
  /\ helper = "backup" /\ todo = {}
  /\ helper' = "discard" /\ outcome' = "ok"
  /\ UNCHANGED <<config, tree, todo, current, journal, caller>>

Undo(f) ==
  /\ helper = "rollback" /\ f \in journal
  /\ target' = [target EXCEPT ![f] = backup[f]]
  /\ backup' = [backup EXCEPT ![f] = "absent"]
  /\ journal' = journal \ {f}
  /\ UNCHANGED <<config, staged, aside, helper, todo, current, outcome, caller>>

\* The loop over the journal is done, or raises itself.
RollbackEnds ==
  /\ helper = "rollback"
  /\ \/ journal = {} /\ outcome' = "rolled back"
     \/ journal # {} /\ outcome' = "error"
  /\ helper' = "discard"
  /\ UNCHANGED <<config, tree, todo, current, journal, caller>>

\* Mutant: .rollback is dropped as soon as the loop has failed.
DiscardEarly ==
  /\ helper \in {"rollback", "discard"}
  /\ backup' = Nothing
  /\ helper' = IF helper = "discard" THEN "ended" ELSE "rollback"
  /\ UNCHANGED <<config, target, staged, aside, todo, current, journal, outcome, caller>>

\* The finally block removes .rollback, whatever is in it.
Discard ==
  /\ helper = "discard"
  /\ backup' = Nothing /\ helper' = "ended"
  /\ UNCHANGED <<config, target, staged, aside, todo, current, journal, outcome, caller>>

-----------------------------------------------------------------------------
(* _commit_staging_atomic.                                                 *)

SetAside ==
  /\ helper = "setaside"
  /\ \/ aside' = target /\ target' = Nothing /\ helper' = "movein" /\ UNCHANGED outcome
     \/ helper' = "ended" /\ outcome' = "rolled back" /\ UNCHANGED <<target, aside>>
  /\ UNCHANGED <<config, staged, backup, todo, current, journal, caller>>

\* The staging directory takes the target's place; a sweep under way follows it.
MoveIn ==
  /\ helper = "movein" /\ staged # {}
  /\ target' = [f \in Files |-> IF f \in staged THEN "new" ELSE "absent"]
  /\ staged' = {}
  /\ swept' = IF swept = "staging" THEN "target" ELSE swept
  /\ helper' = "drop" /\ outcome' = "ok"
  /\ UNCHANGED <<config, backup, aside, todo, current, journal, host, succeeded, abandoned>>

MoveFails ==
  /\ helper = "movein" /\ helper' = "restore"
  /\ UNCHANGED <<config, tree, todo, current, journal, outcome, caller>>

\* Mutant: the old target is removed although it could not be put back.
DropWithoutRestoring ==
  /\ helper = "restore"
  /\ aside' = Nothing /\ outcome' = "rolled back" /\ UNCHANGED target
  /\ helper' = "drop"
  /\ UNCHANGED <<config, staged, backup, todo, current, journal, caller>>

\* The old target is moved back; if that fails too, it stays aside.
Restore ==
  /\ helper = "restore"
  /\ \/ target' = aside /\ aside' = Nothing /\ outcome' = "rolled back"
     \/ Exists(aside) /\ outcome' = "error" /\ UNCHANGED <<target, aside>>
  /\ helper' = "drop"
  /\ UNCHANGED <<config, staged, backup, todo, current, journal, caller>>

Drop ==
  /\ helper = "drop"
  /\ aside' = IF Exists(target) THEN Nothing ELSE aside
  /\ helper' = "ended"
  /\ UNCHANGED <<config, target, staged, backup, todo, current, journal, outcome, caller>>

\* The process is killed: no except and no finally block runs.
Killed ==
  /\ helper \notin {"idle", "ended"}
  /\ helper' = "ended" /\ outcome' = "killed"
  /\ UNCHANGED <<config, tree, todo, current, journal, caller>>

-----------------------------------------------------------------------------
HostStep ==
  \/ Extract \/ Verify \/ StartCommit \/ CommitReturns \/ LoseContact
  \/ SweepStarts \/ CleanupEnds \/ \E f \in Files : Sweep(f)

HelperStep ==
  \/ Plan \/ Refuse \/ Copy \/ LoopFails \/ LoopEnds \/ RollbackEnds \/ Discard
  \/ \E f \in Files : Backup(f) \/ Undo(f)
  \/ SetAside \/ MoveIn \/ MoveFails \/ Restore \/ Drop
  \/ Killed

Next == HostStep \/ HelperStep

Spec == Init /\ [][Next]_vars

-----------------------------------------------------------------------------
(* Properties.                                                             *)

HelperSteps == {"idle", "plan", "backup", "copy", "rollback", "discard", "setaside",
                "movein", "restore", "drop", "ended"}

TypeOK ==
  /\ policy \in Policies /\ atomic \in BOOLEAN /\ original \in [Files -> Contents]
  /\ target \in [Files -> Contents] /\ staged \subseteq Files
  /\ backup \in [Files -> Contents] /\ aside \in [Files -> Contents]
  /\ helper \in HelperSteps
  /\ todo \subseteq Files /\ current \in Files \cup {NoFile} /\ journal \subseteq Files
  /\ outcome \in {"none", "ok", "error", "rolled back", "killed"}
  /\ host \in {"extract", "verify", "commit", "cleanup", "done"}
  /\ succeeded \in BOOLEAN /\ swept \in {"none", "staging", "target"}
  /\ abandoned \in BOOLEAN

\* An upload that reports success has put every file in place, except those that
\* the policy "skip" leaves as they were.
SuccessIsComplete ==
  succeeded =>
    \A f \in Files :
      target[f] = "new" \/ (policy = "skip" /\ original[f] # "absent" /\ target[f] = original[f])

\* Under "error" and "skip" no existing file is ever touched, whatever fails, is
\* killed or runs on after the host has given it up.
ExistingFilesStay ==
  policy \in {"error", "skip"} =>
    \A f \in Files : original[f] # "absent" => target[f] = original[f]

\* Until .rollback is discarded or the staging directory swept, every original
\* file is in the target or in .rollback.
OriginalsAreKept ==
  helper \in {"backup", "copy", "rollback"} /\ ~abandoned =>
    \A f \in Files : original[f] \in {"absent", target[f], backup[f]}

\* A commit that reports its failure as rolled back has restored every file but
\* at most the one it failed at.
RollbackLosesAtMostOne ==
  outcome = "rolled back" /\ ~abandoned =>
    \A f \in Files : target[f] = original[f] \/ (f = current /\ target[f] = "absent")

\* An atomic commit never mixes the two versions: there is the old target, the new
\* one, or none with the old one set aside, also when the helper is killed.
AtomicKeepsOneVersion ==
  IsAtomic /\ ~abandoned =>
    target \in {original, Uploaded} \/ (target = Nothing /\ aside = original)

\* "Upload commit failed and was rolled back" (upload_helper.py:163) and "Atomic
\* upload commit failed and was rolled back" (196): the target is as it was.
RolledBackMeansRestored ==
  helper = "ended" /\ outcome = "rolled back" => target = original

=============================================================================
