------------------------- MODULE MCAnalyticsIngest -------------------------
(***************************************************************************)
(* TLC instances of AnalyticsIngest: a file of three lines of two bytes,   *)
(* flushed two lines at a time.  A chunk of five bytes splits a line when  *)
(* it is read from the start; read from the second byte on, it completes   *)
(* three lines, so that a flush may fail with one still to be parsed.      *)
(***************************************************************************)
EXTENDS AnalyticsIngest

\* The inodes are alike: the first log takes the same one in every behaviour.  The
\* files after the first hold two lines.
Logs ==
    /\ versions = 0 => path' \in {NoFile, CHOOSE i \in Ino : TRUE}
    /\ \A v \in Version \ {1} : size'[v] <= 2 * LineLen
=============================================================================
