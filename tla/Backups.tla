--------------------------------- MODULE Backups ---------------------------------
(***************************************************************************)
(* The backup script, run by hand or by a timer: dump, compress, archive,  *)
(* upload, and delete what is older than the newest KEEP files.            *)
(*                                                                         *)
(* A slot is a process.  Nothing keeps two of them from running at once,   *)
(* in one directory.  A command that fails, or a file that another process *)
(* has renamed or deleted, ends the process; so a file may be left half    *)
(* written, and the script counts it as a backup like any other.           *)
(***************************************************************************)
EXTENDS Slots, FiniteSets

CONSTANTS
  KEEP,        \* files that stay (14)
  MAX_TIME     \* bound on the files ever made

VARIABLES
  files,       \* the directory: names that start with db- or uploads-
  time         \* time of the file that was written last

vars == <<files, time, slotVars>>

(* gzip gives the compressed file another name and the same time. *)
File(t, form) == [time |-> t, form |-> form]
Files == [time : 1..MAX_TIME, form : {"sql", "gz", "tar"}]

Init == files = {} /\ time = 0 /\ AllIdle

(* mode: the option; own: files made and not yet uploaded; doomed: files that
   were listed, and then those to delete *)
Job(mode, own, doomed) == [mode |-> mode, own |-> own, doomed |-> doomed]

Carry(r, place, own) == Go(r, place, Job(job[r].mode, own, {}))

Start(r, mode) ==
  /\ Admit(r)
  /\ Go(r, IF mode = "uploads" THEN "archiving" ELSE "dumping", Job(mode, {}, {}))
  /\ UNCHANGED <<files, time>>

(* The next file is written, whole or in part. *)
Make(r, form, next) ==
  /\ time < MAX_TIME
  /\ time' = time + 1
  /\ files' = files \cup {File(time', form)}
  /\ \/ Carry(r, next, job[r].own \cup {File(time', form)})
     \/ MayFail /\ Leave(r)

(* dbBackup: pg_dump and gzip *)
Dump(r) == At(r, "dumping") /\ Make(r, "sql", "zipping")

Zip(r) ==
  /\ At(r, "zipping")
  /\ \E f \in job[r].own :
       LET z == File(f.time, "gz")
       IN  IF f \notin files THEN Leave(r) /\ UNCHANGED files
           ELSE /\ files' = (files \ {f}) \cup {z}
                /\ Carry(r, IF job[r].mode = "db" THEN "uploading" ELSE "archiving", {z})
  /\ UNCHANGED time

(* uploadsBackup: without the directory there is nothing to archive. *)
Archive(r) ==
  /\ At(r, "archiving")
  /\ \/ Make(r, "tar", "uploading")
     \/ Carry(r, "uploading", job[r].own) /\ UNCHANGED <<files, time>>

(* uploadToS3, with a bucket: a file that is gone cannot be read. *)
Upload(r) ==
  /\ At(r, "uploading")
  /\ \E f \in job[r].own :
       IF f \in files THEN Carry(r, "uploading", job[r].own \ {f}) ELSE Leave(r)
  /\ UNCHANGED <<files, time>>

(* All are uploaded, or there is no bucket; cleanup reads the directory ... *)
List(r) ==
  /\ At(r, "uploading")
  /\ Go(r, "sorting", Job(job[r].mode, {}, files))
  /\ UNCHANGED <<files, time>>

(* Mutant: the oldest files stay. *)
DoomedYoung(fs) == {f \in fs : Cardinality({g \in fs : g.time < f.time}) >= KEEP}

Doomed(fs) == {f \in fs : Cardinality({g \in fs : g.time > f.time}) >= KEEP}

(* ... looks at each file, which must still be there, and sorts them ... *)
Sort(r) ==
  /\ At(r, "sorting")
  /\ IF job[r].doomed \subseteq files
     THEN Go(r, "deleting", Job(job[r].mode, {}, Doomed(job[r].doomed)))
     ELSE Leave(r)
  /\ UNCHANGED <<files, time>>

(* ... and deletes, newest first. *)
Unlink(r) ==
  /\ At(r, "deleting")
  /\ \E f \in job[r].doomed :
       /\ \A g \in job[r].doomed : g.time <= f.time
       /\ IF f \in files
          THEN Go(r, "deleting", Job(job[r].mode, {}, job[r].doomed \ {f}))
          ELSE Leave(r)
       /\ files' = files \ {f}
  /\ UNCHANGED time

End(r) ==
  /\ At(r, "deleting")
  /\ job[r].doomed = {}
  /\ Leave(r)
  /\ UNCHANGED <<files, time>>

Fail(r) == Stop(r) /\ UNCHANGED <<files, time>>

Next ==
  \E r \in Requests :
    \/ \E mode \in {"full", "db", "uploads"} : Start(r, mode)
    \/ Dump(r) \/ Zip(r) \/ Archive(r) \/ Upload(r) \/ List(r) \/ Sort(r)
    \/ Unlink(r) \/ End(r) \/ Fail(r)

Spec == Init /\ [][Next]_vars

-----------------------------------------------------------------------------
(* Properties *)

TypeOK ==
  /\ files \in SUBSET Files /\ time \in 0..MAX_TIME
  /\ pc \in [Requests -> {"idle", "dumping", "zipping", "archiving", "uploading",
                          "sorting", "deleting"}]

(* However the processes overlap, rename each other's files or stop, a file is
   deleted only when KEEP files were written after it. *)
NewestStay ==
  \A t \in 1..time : time - t >= KEEP \/ \E f \in files : f.time = t
=============================================================================
