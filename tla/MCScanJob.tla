----------------------------- MODULE MCScanJob -----------------------------
(* Three files, two contents, and small databases a scan may find. *)
EXTENDS ScanJob, TLC

CONSTANTS a, b, c, gone, x, y

MCKeys == {"oshash", "checksum"} \X Contents

Item(p, h) == [path |-> p, hash |-> h]

Files(inA, inB, inC) == (a :> inA) @@ (b :> inB) @@ (c :> inC)

Found(kinds, table, contents) ==
  {[media |-> m, items |-> table, content |-> contents] : m \in kinds}

AllKinds == {"scene", "image", "gallery"}

(***************************************************************************)
(* Copies of one new file; copies of a file that is gone; a known file     *)
(* that now has the contents of two new ones; one that does, while its old *)
(* contents are in a third file; a known file overwritten by what a gone   *)
(* item held; two known files that changed places; an old database that    *)
(* holds copies, and new copies of another file; a known file that changed *)
(* while one that the scanner takes for it has its old contents.           *)
(***************************************************************************)
MCScenarios ==
  Found({"image"}, <<>>, Files(x, x, x))
    \cup Found(AllKinds, <<Item(gone, x)>>, Files(x, x, y))
    \cup Found(AllKinds, <<Item(a, x)>>, Files(y, y, y))
    \cup Found({"image"}, <<Item(a, x)>>, Files(y, y, x))
    \cup Found({"image", "gallery"}, <<Item(a, x), Item(gone, y)>>, Files(y, y, x))
    \cup Found({"scene"}, <<Item(a, x), Item(b, y)>>, Files(y, x, x))
    \cup Found({"image"}, <<Item(c, y), Item(gone, y)>>, Files(x, x, y))
    \cup Found({"image"}, <<Item(c, x), Item(gone, x)>>, Files(x, y, y))
    \cup Found({"scene"}, <<Item(b, x)>>, Files(x, y, x))

\* The names of b and c differ in case only.
MCFold == [p \in Paths |-> IF p = b THEN c ELSE p]
=============================================================================
