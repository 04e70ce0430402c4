------------------------- MODULE ExclusiveAssignment -------------------------
(***************************************************************************)
(* What the assignment engine promises (spec section 4.4): a process is    *)
(* held by at most one executor at a time.  An executor is granted a       *)
(* process only while nobody holds it, and the process is released before  *)
(* another executor can be granted it.  An administrator may revoke every  *)
(* assignment at once.                                                     *)
(***************************************************************************)
CONSTANTS Executors, Processes, None

VARIABLE owner      \* owner[p]: the executor holding p, or None

Init == owner = [p \in Processes |-> None]

Grant(p, e) ==
    /\ owner[p] = None
    /\ owner' = [owner EXCEPT ![p] = e]

Release(p) ==
    /\ owner[p] # None
    /\ owner' = [owner EXCEPT ![p] = None]

RevokeAll == owner' = [p \in Processes |-> None]

Next ==
    \/ RevokeAll
    \/ \E p \in Processes : Release(p) \/ \E e \in Executors : Grant(p, e)

Spec == Init /\ [][Next]_owner
=============================================================================
