------------------------------ MODULE FileRecords ------------------------------
(***************************************************************************)
(* The records of files (File.model.js) and the routes that change them    *)
(* (file.routes.js). The objects in MinIO are left out: no route looks at  *)
(* them, and clients move them past the API by signed URLs.                *)
(***************************************************************************)
EXTENDS Documents

CONSTANT Files

VARIABLE file \* its status, and whether deletedAt is set

FileOps == {"confirm", "delete", "restore"}

NoFile == [status |-> "none", hidden |-> FALSE]
FileRecord == [status : {"none", "pending", "uploaded", "deleted"}, hidden : BOOLEAN]

FilesTypeOK == file \in [Files -> FileRecord]
FilesInit == file = [f \in Files |-> NoFile]

\* findOne, behind the hook of the model that leaves out deleted records
Visible(f) == file[f].status # "none" /\ ~ file[f].hidden

\* POST /upload-url: File.create. A failing presignedPut leaves the record.
CreateFile(f) ==
  /\ file[f].status = "none"
  /\ file' = [file EXCEPT ![f].status = "pending"]

\* What the handler of op finds and does not refuse; restore is the only one
\* that finds deleted records, and it takes any status.
Finds(op, f) ==
  CASE op = "confirm" -> Visible(f) /\ file[f].status = "pending"
    [] op = "delete"  -> Visible(f)
    [] op = "restore" -> file[f].status # "none"

\* Mutant of Changed: the status is none of the enum's.
ChangedOddly(op, doc) ==
  IF op = "delete" THEN [status |-> "removed", hidden |-> TRUE] ELSE doc
\* What it makes of its copy of the record
Changed(op, doc) ==
  CASE op = "confirm" -> [doc EXCEPT !.status = "uploaded"]
    [] op = "delete"  -> [status |-> "deleted", hidden |-> TRUE]
    [] op = "restore" -> [status |-> "uploaded", hidden |-> FALSE]

SaveFile(op, f, doc) ==
  file' = [file EXCEPT ![f] = Saved(doc, Changed(op, doc), @)]
=============================================================================
