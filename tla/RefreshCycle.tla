---------------------------- MODULE RefreshCycle ----------------------------
(***************************************************************************)
(* What a project's "refresh public status" feature promises its users,    *)
(* told without rows, queues or workers: at most one refresh of the        *)
(* project is in progress, a new one starts only when none is, and a       *)
(* refresh that ended is over for good.                                    *)
(***************************************************************************)
CONSTANT Refreshes    \* identities of the refreshes that may be asked for

VARIABLES active,     \* refreshes in progress
          ended       \* refreshes that are over

cycle == <<active, ended>>

Init == active = {} /\ ended = {}

Start(r) ==
    /\ active = {}
    /\ r \notin ended
    /\ active' = {r}
    /\ UNCHANGED ended

End(r) ==
    /\ r \in active
    /\ active' = active \ {r}
    /\ ended' = ended \cup {r}

Next == \E r \in Refreshes : Start(r) \/ End(r)

Spec == Init /\ [][Next]_cycle
=============================================================================
