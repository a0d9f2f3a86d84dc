----------------------------- MODULE MCJobQueue -----------------------------
(* Small instances of JobQueue for TLC.                                    *)
EXTENDS JobQueue, TLC

\* Workers, clients and hosts are interchangeable.
Symmetry == Permutations(Workers) \cup Permutations(Clients)
            \cup Permutations(Hosts)

=============================================================================
