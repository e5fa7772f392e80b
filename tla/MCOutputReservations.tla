------------------------ MODULE MCOutputReservations ------------------------
(***************************************************************************)
(* Instances of OutputReservations.  Two HTTP downloads, which may be      *)
(* interchanged, and a torrent meet on a small set of files: f, f1 and     *)
(* f11, each of which is the renamed form of the one before, and the       *)
(* torrent's files, one of which is f, reached through a symlinked         *)
(* directory.  Any two of the three downloads meet in one engine, with two *)
(* runs each.                                                              *)
(***************************************************************************)
EXTENDS OutputReservations, FiniteSets, TLC

CONSTANTS f, f1, f11, linked, other, kf, kf1, kf11, kother, dir1, dir2, a, b

MCPath == {f, f1, f11, linked, other}
MCKey == {kf, kf1, kf11, kother}
MCKeyOf == (f :> kf) @@ (linked :> kf) @@ (f1 :> kf1) @@ (f11 :> kf11) @@ (other :> kother)
MCRenamed == [p \in MCPath |-> IF p \in {f, linked} THEN <<f1>> ELSE IF p = f1 THEN <<f11>> ELSE <<>>]

\* In dir1 file a of the torrent is f through a symlink and b is f1; in dir2
\* a is other and b is f.
InDir1 == (a :> linked) @@ (b :> f1)
InDir2 == (a :> other) @@ (b :> f)
MCLayout == [t \in Torrent |-> [dir \in Dir |-> IF dir = dir1 THEN InDir1 ELSE InDir2]]

OneFile == {{a}, {b}}
FirstFile == {{a}}
Pairs == {S \in SUBSET Download : Cardinality(S) = 2}
MCMaxRuns == [d \in Download |-> 2]

Swaps == Permutations(Uri)
=============================================================================
