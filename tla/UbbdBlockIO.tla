----------------------------- MODULE UbbdBlockIO -----------------------------
(***************************************************************************)
(* What a ubbd disk promises to the block layer: a request that was issued *)
(* ends once; it ends with the backend's result only after the backend     *)
(* answered this very request, and with an I/O error of the driver only    *)
(* when the disk is being removed.                                         *)
(***************************************************************************)
CONSTANT Reqs

VARIABLES
    outstanding,   \* requests issued and not ended
    replied,       \* outstanding requests the backend has answered
    gone           \* a removal of the disk has begun

ioVars == <<outstanding, replied, gone>>

IOInit == outstanding = {} /\ replied = {} /\ gone = FALSE

Issue(r) ==
    /\ r \notin outstanding
    /\ outstanding' = outstanding \cup {r}
    /\ UNCHANGED <<replied, gone>>

Answer(r) ==
    /\ r \in outstanding \ replied
    /\ replied' = replied \cup {r}
    /\ UNCHANGED <<outstanding, gone>>

End(r) ==
    /\ r \in outstanding
    /\ r \in replied \/ gone
    /\ outstanding' = outstanding \ {r}
    /\ replied' = replied \ {r}
    /\ UNCHANGED gone

Remove == ~gone /\ gone' = TRUE /\ UNCHANGED <<outstanding, replied>>

IONext ==
    \/ \E r \in Reqs : Issue(r) \/ Answer(r) \/ End(r)
    \/ Remove

IOSpec == IOInit /\ [][IONext]_ioVars

=============================================================================
