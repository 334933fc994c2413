-------------------------- MODULE ExclusiveCommits --------------------------
(* What atomic commits promise: from the point of no return to its end,    *)
(* each holds the resources it works on alone.                             *)
CONSTANTS Commit, Resource

VARIABLE holds    \* commit |-> resources, none while it is not in flight

Init == holds = [k \in Commit |-> {}]

Begin(k) ==
    /\ holds[k] = {}
    /\ holds'[k] # {} /\ holds'[k] \subseteq Resource \ UNION {holds[o] : o \in Commit}
    /\ holds' = [holds EXCEPT ![k] = holds'[k]]

End(k) == holds[k] # {} /\ holds' = [holds EXCEPT ![k] = {}]

Next == \E k \in Commit : Begin(k) \/ End(k)

Spec == Init /\ [][Next]_holds
=============================================================================
