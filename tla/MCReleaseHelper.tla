-------------------------- MODULE MCReleaseHelper --------------------------
(* Bounded instances of ReleaseHelper.  The files are in the order of the   *)
(* shell's dist_dir/*: checksums.txt comes before the archive.              *)
EXTENDS ReleaseHelper, TLC

\* A run and a second attempt of it, for one commit, then the same for another:
\* the archive of a nightly has its commit in its name.
MCFiles ==
    [r \in 1 .. 4 |-> <<"checksums.txt", IF r <= 2 THEN "archive-a.tar.gz" ELSE "archive-b.tar.gz">>]

\* Four nightlies of four commits
MCNightlyFiles ==
    (1 :> <<"checksums.txt", "archive-a.tar.gz">>) @@ (2 :> <<"checksums.txt", "archive-b.tar.gz">>) @@
    (3 :> <<"checksums.txt", "archive-c.tar.gz">>) @@ (4 :> <<"checksums.txt", "archive-d.tar.gz">>)
=============================================================================
