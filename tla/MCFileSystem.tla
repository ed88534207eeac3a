---------------------------- MODULE MCFileSystem ----------------------------
(***************************************************************************)
(* FileSystem on small disks, with one direct block per inode so that a    *)
(* file of two sectors has an index block.                                 *)
(***************************************************************************)
EXTENDS FileSystem, TLC

\* No definition tells two names of the user apart.
Symmetry == Permutations(UserNames)
=============================================================================
