----------------------------- MODULE MCDropWalk -----------------------------
EXTENDS DropWalk

CONSTANTS f1, f2, f3

\* A dropped recording folder of three files, and a drop of a loose file
\* together with a folder.
MCDrops ==
    { << [kind |-> "dir", files |-> <<f1, f2, f3>>] >>,
      << [kind |-> "file", files |-> <<f1>>],
         [kind |-> "dir", files |-> <<f2, f3>>] >> }
=============================================================================
