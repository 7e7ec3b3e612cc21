------------------------------ MODULE OrderMirror ------------------------------
(***************************************************************************)
(* What settling an order promises about its transfer, whatever handlers   *)
(* interleave, fail or crash: the status a client reads from the transfer  *)
(* is always one that an earlier recorded fact accounts for.  The facts    *)
(* are the statuses saved on the order or on the transaction, and those    *)
(* PayCrest reported.                                                      *)
(* The transfer may lag behind the facts and may show an older one, but it *)
(* never shows what was never recorded.                                    *)
(***************************************************************************)
CONSTANTS
    Fact,            \* statuses an order, a transaction or a bank payout can have
    Shown(_)         \* the transfer status that stands for a fact

VARIABLES facts, transferStatus

vars == <<facts, transferStatus>>

Init ==
    /\ facts = {"INITIATED"}
    /\ transferStatus = "TransferStarted"

Record(f) ==
    /\ facts' = facts \cup {f}
    /\ UNCHANGED transferStatus

Show(f) ==
    /\ f \in facts
    /\ transferStatus' = Shown(f)
    /\ UNCHANGED facts

Next == \E f \in Fact : Record(f) \/ Show(f)

Spec == Init /\ [][Next]_vars

=============================================================================
