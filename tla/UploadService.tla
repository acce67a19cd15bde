--------------------------- MODULE UploadService ---------------------------
(***************************************************************************)
(* UploadService.upload (upload/service.py): a directory of enough files   *)
(* goes to a provider with bulk_upload as an archive (UploadCommit), all   *)
(* else file by file through the backend's own file operations: each file  *)
(* is staged and verified, then all are written to the target, and a       *)
(* failure writes back what was read there before.                         *)
(*                                                                         *)
(* The upload holds a lock on "upload:<target>", its file operations lock  *)
(* the path they work on, one at a time: between any two of them other     *)
(* operations on the same files go ahead.  Any file operation may fail,    *)
(* also because close() has shut the backend's gate; a failed write or     *)
(* deletion has taken effect or has not.  The order of the files is open.  *)
(***************************************************************************)
EXTENDS UploadCommit, Naturals

CONSTANT MaxOthers  \* bound on the writes of others

ASSUME OthersAssumption == MaxOthers \in Nat

VARIABLES
  bulk,      \* the archive is used
  partial,   \* partial_success
  phase,     \* "staging", "committing", "rollback", "tidying", "done"
  left,      \* the files the phase's loop has not reached
  busy,      \* the file being committed, or NoFile,
  step,      \* and whether it is to be written or to be checked
  verified,  \* staged, with the content verified
  failures,  \* the files whose staging failed
  files,     \* the target as the file operations see it
  previous,  \* what was read of each target, or "unread"
  verdict,   \* how upload ends
  skipped,   \* the files found unchanged while staging
  theirs,    \* history variables: what the target would hold without the upload,
  raced,     \* the files others wrote after the upload had read them,
  unrestored,  \* those the rollback could not write back,
  others     \* and the number of the others' writes

writing == <<busy, step>>
loop == <<phase, left, writing, verdict>>
stage == <<skipped, verified, failures>>
world == <<theirs, raced, others>>
perFile == <<bulk, partial, loop, stage, files, previous, world, unrestored>>
serviceVars == <<vars, perFile>>

ServiceInit ==
  /\ Init
  /\ bulk \in BOOLEAN /\ partial \in BOOLEAN
  /\ bulk => ~partial
  /\ ~bulk => ~atomic
  /\ phase = "staging" /\ left = Files /\ busy = NoFile /\ step = "none" /\ verdict = "none"
  /\ skipped = {} /\ verified = {} /\ failures = {}
  /\ files = original /\ previous = [f \in Files |-> "unread"]
  /\ theirs = original /\ raced = {} /\ others = 0 /\ unrestored = {}

-----------------------------------------------------------------------------
(* Staging.                                                                *)

Unchanged(f) == policy = "if_changed" /\ files[f] = "new"

\* The target is read under "if_changed", the file written to the staging area, read
\* back and compared.
Stages(f) ==
  /\ phase = "staging" /\ f \in left
  /\ left' = left \ {f}
  /\ IF Unchanged(f)
       THEN skipped' = skipped \cup {f} /\ UNCHANGED verified
       ELSE verified' = verified \cup {f} /\ UNCHANGED skipped
  /\ UNCHANGED <<vars, bulk, partial, phase, writing, verdict, failures, files, previous, world,
                 unrestored>>

\* Mutant: the upload goes on without the file whatever partial_success says.
StagingFailsSilently(f) ==
  /\ phase = "staging" /\ f \in left
  /\ left' = left \ {f}
  /\ UNCHANGED <<failures, phase, verdict, vars, bulk, partial, writing, skipped, verified, files,
                 previous, world, unrestored>>

\* One of these fails: the upload goes on without the file, or rolls back nothing.
StagingFails(f) ==
  /\ phase = "staging" /\ f \in left
  /\ left' = left \ {f} /\ failures' = failures \cup {f}
  /\ IF partial
       THEN UNCHANGED <<phase, verdict>>
       ELSE phase' = "rollback" /\ verdict' = "error"
  /\ UNCHANGED <<vars, bulk, partial, writing, skipped, verified, files, previous, world,
                 unrestored>>

AllStaged ==
  /\ phase = "staging" /\ left = {}
  /\ phase' = "committing" /\ left' = verified
  /\ UNCHANGED <<vars, bulk, partial, writing, verdict, stage, files, previous, world, unrestored>>

-----------------------------------------------------------------------------
(* Committing.                                                             *)

\* Mutant: an existing file is no conflict.
WriteAlways(f) == "write"

\* _conflict_action
ConflictAction(f) ==
  IF files[f] = "absent" THEN "write"
  ELSE IF policy = "error" THEN "raise"
  ELSE IF policy = "skip" \/ (policy = "if_changed" /\ files[f] = "new") THEN "skip"
  ELSE "write"

Rests == busy' = NoFile /\ step' = "none"
RollsBack == phase' = "rollback" /\ verdict' = "error" /\ Rests

\* Mutant: what was read is kept only of a file that is there.
ReadsExisting(f) ==
  /\ phase = "committing" /\ step = "none" /\ f \in left
  /\ left' = left \ {f}
  /\ previous' = [previous EXCEPT ![f] = IF files[f] = "absent" THEN "unread" ELSE files[f]]
  /\ \/ ConflictAction(f) = "write" /\ busy' = f /\ step' = "write" /\ UNCHANGED <<phase, verdict>>
     \/ ConflictAction(f) = "skip" /\ UNCHANGED <<phase, verdict, writing>>
     \/ ConflictAction(f) = "raise" /\ RollsBack
  /\ UNCHANGED <<vars, bulk, partial, stage, files, world, unrestored>>

\* The target is read, and what it holds is remembered whether or not it will be written.
Reads(f) ==
  /\ phase = "committing" /\ step = "none" /\ f \in left
  /\ left' = left \ {f}
  /\ previous' = [previous EXCEPT ![f] = files[f]]
  /\ \/ ConflictAction(f) = "write" /\ busy' = f /\ step' = "write" /\ UNCHANGED <<phase, verdict>>
     \/ ConflictAction(f) = "skip" /\ UNCHANGED <<phase, verdict, writing>>
     \/ ConflictAction(f) = "raise" /\ RollsBack
  /\ UNCHANGED <<vars, bulk, partial, stage, files, world, unrestored>>

Writes(f) ==
  /\ step = "write" /\ f = busy
  /\ files' = [files EXCEPT ![f] = "new"]
  /\ step' = "check"
  /\ UNCHANGED <<vars, bulk, partial, phase, left, busy, verdict, stage, previous, world,
                 unrestored>>

Checks(f) ==
  /\ step = "check" /\ f = busy
  /\ IF files[f] = "new"
       THEN Rests /\ UNCHANGED <<phase, verdict>>
       ELSE RollsBack
  /\ UNCHANGED <<vars, bulk, partial, left, stage, files, previous, world, unrestored>>

\* A file operation of the commit raises.
CommitFails ==
  /\ phase = "committing"
  /\ step # "none" \/ left # {}
  /\ \/ UNCHANGED files
     \/ step = "write" /\ files' = [files EXCEPT ![busy] = "new"]
  /\ RollsBack
  /\ UNCHANGED <<vars, bulk, partial, left, stage, previous, world, unrestored>>

AllCommitted ==
  /\ phase = "committing" /\ left = {} /\ step = "none"
  /\ phase' = "tidying" /\ verdict' = "ok"
  /\ UNCHANGED <<vars, bulk, partial, left, writing, stage, files, previous, world, unrestored>>

-----------------------------------------------------------------------------
(* _rollback and _cleanup_staging: what fails is passed over.              *)

Remembered == {f \in Files : previous[f] # "unread"}

WritesBack(f) ==
  /\ phase = "rollback" /\ f \in Remembered
  /\ previous' = [previous EXCEPT ![f] = "unread"]
  /\ \/ files' = [files EXCEPT ![f] = previous[f]] /\ UNCHANGED unrestored
     \/ UNCHANGED files /\ unrestored' = unrestored \cup {f}
  /\ UNCHANGED <<vars, bulk, partial, loop, stage, world>>

RolledBack ==
  /\ phase = "rollback" /\ Remembered = {}
  /\ phase' = "tidying"
  /\ UNCHANGED <<vars, bulk, partial, left, writing, verdict, stage, files, previous, world,
                 unrestored>>

\* CancelledError is no Exception: nothing is rolled back any more.
Cancelled ==
  /\ phase \in {"staging", "committing", "rollback"}
  /\ phase' = "tidying" /\ verdict' = "cancelled" /\ Rests
  /\ \/ UNCHANGED files
     \/ step = "write" /\ files' = [files EXCEPT ![busy] = "new"]
     \/ \E f \in Remembered :
          phase = "rollback" /\ files' = [files EXCEPT ![f] = previous[f]]
  /\ UNCHANGED <<vars, bulk, partial, left, stage, previous, world, unrestored>>

Tidies(f) ==
  /\ phase = "tidying" /\ f \in verified
  /\ verified' = verified \ {f}
  /\ UNCHANGED <<vars, bulk, partial, loop, skipped, failures, files, previous, world, unrestored>>

Tidied ==
  /\ phase = "tidying" /\ verified = {}
  /\ phase' = "done"
  /\ UNCHANGED <<vars, bulk, partial, left, writing, verdict, stage, files, previous, world,
                 unrestored>>

-----------------------------------------------------------------------------
\* Another operation, or a command, writes or deletes a file of the target.
OtherWrites(f, content) ==
  /\ others < MaxOthers /\ phase # "done"
  /\ others' = others + 1
  /\ files' = [files EXCEPT ![f] = content]
  /\ theirs' = [theirs EXCEPT ![f] = content]
  /\ raced' = IF f \in Remembered \cup skipped THEN raced \cup {f} ELSE raced
  /\ UNCHANGED <<vars, bulk, partial, loop, stage, previous, unrestored>>

PerFileStep ==
  \/ AllStaged \/ CommitFails \/ AllCommitted \/ RolledBack \/ Cancelled \/ Tidied
  \/ \E f \in Files : Stages(f) \/ StagingFails(f) \/ Reads(f) \/ Writes(f) \/ Checks(f)
                      \/ WritesBack(f) \/ Tidies(f)
                      \/ \E content \in {"absent", "other"} : OtherWrites(f, content)

ServiceNext ==
  \/ bulk /\ Next /\ UNCHANGED perFile
  \/ ~bulk /\ PerFileStep

ServiceSpec == ServiceInit /\ [][ServiceNext]_serviceVars

-----------------------------------------------------------------------------
(* Properties.                                                             *)

\* A file-by-file upload that fails, but is not cancelled, leaves every file as others have
\* left it, but those whose rollback step failed itself, and those that others wrote after
\* the upload had read them: the rollback writes back what it read.
FailureRestores ==
  verdict = "error" /\ phase \in {"tidying", "done"} =>
    \A f \in Files \ (raced \cup unrestored) : files[f] = theirs[f]

\* One that succeeds has put every file in place, but those it reports as failed, those
\* that "skip" leaves as they were, and those that others wrote after it had read them.
SuccessIsInPlace ==
  verdict = "ok" =>
    \A f \in Files \ (raced \cup failures) :
      files[f] = "new" \/ (policy = "skip" /\ theirs[f] # "absent" /\ files[f] = theirs[f])

\* Under "error" and "skip" a file that is there when the upload reads it is never changed,
\* also when the upload is cancelled or half rolled back.
WhatIsReadStays ==
  policy \in {"error", "skip"} =>
    \A f \in Files \ raced : theirs[f] # "absent" => files[f] = theirs[f]
=============================================================================
