------------------------- MODULE MC_ColoniesServer -------------------------
(***************************************************************************)
(* Instantiation of ColoniesServer for TLC: two executors and two          *)
(* processes, as model values given in the cfg.  Two executors are what a *)
(* race for one process needs (S2); two processes let submission order,    *)
(* targets and a recovery tick over several processes matter.              *)
(***************************************************************************)
EXTENDS ColoniesServer

CONSTANTS e1, e2, p1, p2

MCExecutors == {e1, e2}
MCProcesses == {p1, p2}
MCOneProcess == {p1}

\* Executors and processes are interchangeable ids: the handlers only
\* compare them.  Used for the safety runs only.
Symmetry == Permutations(MCExecutors) \cup Permutations(MCProcesses)
=============================================================================
