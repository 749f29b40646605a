---------------------------- MODULE MCFileStore ----------------------------
(* Small instances of FileStore for TLC. *)
EXTENDS FileStore, TLC

\* A caller that may upload and tag, and one that may take away as well.
MCPermSets == {{"tag:add"}, Permission}

\* Slugs, tags, names and requests are interchangeable.
MCSymmetry == Permutations(Slugs) \cup Permutations(Reqs) \cup Permutations(Names)
=============================================================================
