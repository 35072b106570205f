------------------------------- MODULE Documents -------------------------------
(***************************************************************************)
(* save() of a mongoose document: a $set of the paths whose value differs  *)
(* from the one loaded, with no condition on what is stored by now. A      *)
(* document is a record of its paths.                                      *)
(***************************************************************************)

\* Mutant of Saved: every path is written, changed or not.
SavedWhole(loaded, new, stored) == new
Saved(loaded, new, stored) ==
  [path \in DOMAIN stored |->
     IF new[path] = loaded[path] THEN stored[path] ELSE new[path]]
=============================================================================
