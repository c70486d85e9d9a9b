----------------------------- MODULE EventStore -----------------------------
(***************************************************************************)
(* What the trolley promises of the events it reports: an accepted event   *)
(* is kept until it has arrived at the cloud. It may arrive more than      *)
(* once. It is given up in two cases only: its file could not be written,  *)
(* or a newer event needs its place, one for one. A restart is no reason.  *)
(***************************************************************************)
EXTENDS Naturals

VARIABLES
    accepted,   \* events 1..accepted have been published
    pending,    \* events kept
    arrived     \* events the cloud has

storeVars == <<accepted, pending, arrived>>

-----------------------------------------------------------------------------
AtMostOneOf(S) == {{}} \cup {{e} : e \in S}

Init == accepted = 0 /\ pending = {} /\ arrived = {}

Accept ==
    /\ accepted' = accepted + 1
    /\ \E written \in {{}, {accepted + 1}} :
          \E displaced \in AtMostOneOf(pending \cup written) :
              pending' = (pending \cup written) \ displaced
    /\ UNCHANGED arrived

(* An event on its way arrives even if it has been displaced meanwhile.    *)
Arrive ==
    /\ \E e \in 1..accepted : arrived' = arrived \cup {e}
    /\ UNCHANGED <<accepted, pending>>

Forget ==
    /\ \E e \in pending \cap arrived : pending' = pending \ {e}
    /\ UNCHANGED <<accepted, arrived>>

Next == Accept \/ Arrive \/ Forget

Spec == Init /\ [][Next]_storeVars
=============================================================================
