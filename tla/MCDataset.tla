----------------------------- MODULE MCDataset -----------------------------
(***************************************************************************)
(* Small instances of Dataset for TLC.                                     *)
(***************************************************************************)
EXTENDS Dataset

\* A text whose second half is long enough for a window, one whose is not, and
\* an error page without anything.
MCTexts ==
    {<<3, 7, 3, 5, 5, 3, 7, 7, 3, 5, 3, 3, 5, 7, 3, 5, 3, 5, 5, 7, 3, 7, 3, 5, 5, 3, 7, 5, 5, 7>>,
     <<7, 8, 7>>,
     <<>>}
=============================================================================
