------------------------------ MODULE QuoteClaim ------------------------------
(***************************************************************************)
(* What accepting transfers promises about a quote, whatever requests and  *)
(* failures interleave: one request at most claims it; only that request   *)
(* ever collects money under it or marks it used; and a request is told    *)
(* "ok" only for a quote it claimed and that is used by then.              *)
(***************************************************************************)
CONSTANTS Request, Quote

VARIABLES
    claimants,   \* requests that hold the transfer of a quote
    collectors,  \* requests that opened a collection under a quote
    used,        \* quotes marked used
    accepted     \* requests answered "ok", by quote

vars == <<claimants, collectors, used, accepted>>

Init ==
    /\ claimants = [q \in Quote |-> {}]
    /\ collectors = [q \in Quote |-> {}]
    /\ used = [q \in Quote |-> FALSE]
    /\ accepted = [q \in Quote |-> {}]

Claim(r, q) ==
    /\ claimants[q] = {}
    /\ claimants' = [claimants EXCEPT ![q] = {r}]
    /\ UNCHANGED <<collectors, used, accepted>>

Collect(r, q) ==
    /\ r \in claimants[q]
    /\ collectors' = [collectors EXCEPT ![q] = @ \cup {r}]
    /\ UNCHANGED <<claimants, used, accepted>>

Use(r, q) ==
    /\ r \in claimants[q]
    /\ used' = [used EXCEPT ![q] = TRUE]
    /\ UNCHANGED <<claimants, collectors, accepted>>

\* The quote is used by the time the request is accepted.
Accept(r, q) ==
    /\ r \in claimants[q]
    /\ used' = [used EXCEPT ![q] = TRUE]
    /\ accepted' = [accepted EXCEPT ![q] = @ \cup {r}]
    /\ UNCHANGED <<claimants, collectors>>

Next == \E r \in Request, q \in Quote :
            Claim(r, q) \/ Collect(r, q) \/ Use(r, q) \/ Accept(r, q)

Spec == Init /\ [][Next]_vars

=============================================================================
