----------------------------- MODULE CryptoPayout -----------------------------
(***************************************************************************)
(* payOutCrypto and the chains behind it.  Payouts of concurrent requests  *)
(* leave one wallet per chain: each asks the node for the wallet's next    *)
(* nonce, signs, sends, and waits for the receipt.  Over Lightning Blink   *)
(* pays from a balance that is read one request earlier.                   *)
(*                                                                         *)
(* Every payout is of one unit.  The EVM chains (Celo among them) behave   *)
(* alike, so one stands for all.                                           *)
(***************************************************************************)
EXTENDS FiniteSets, Naturals

CONSTANTS
    Call,       \* payOutCrypto calls
    Networks,   \* the networks they may name
    Price,      \* gas prices; a higher one is enough to replace a transaction
    MaxFunds    \* bound on what a wallet holds

Chain == {"evm", "starknet"}
ASSUME NetworksAssumption == Networks \subseteq Chain \cup {"lightning", "polkadot"}
ASSUME PriceAssumption == Price \subseteq Nat
ASSUME FundsAssumption == MaxFunds \in Nat

VARIABLES
    network,   \* of each call, "none" before it comes
    pc,        \* the await each call has reached
    price,     \* gas price it read
    nonce,     \* nonce it read
    result,    \* what it returned
    pool,      \* transactions the nodes hold
    next,      \* next nonce of the wallet on each chain
    funds,     \* what the wallets hold
    moved,     \* calls whose transfer was executed
    reverted,  \* calls whose transaction was mined and reverted
    sent,      \* calls whose transaction a node has held
    known,     \* the sent ones when each call read its nonce
    refused    \* calls a node refused for their nonce

calls == <<network, pc, price, nonce, result>>
chains == <<pool, next, funds, moved, reverted>>
ghosts == <<sent, known, refused>>
vars == <<calls, chains, ghosts>>

Contract(n) == INSTANCE PayoutContract WITH Network <- n

TypeOK ==
    /\ network \in [Call -> Chain \cup {"lightning", "polkadot", "none"}]
    /\ pc \in [Call -> {"idle", "prepare", "nonce", "send", "receipt",
                        "balance", "pay", "done", "lost"}]
    /\ price \in [Call -> Price \cup {0}]
    /\ nonce \in [Call -> Nat]
    /\ result \in [Call -> {"none", "hash", "failure", "blinkFailure"}]
    /\ pool \subseteq Call /\ moved \subseteq Call /\ reverted \subseteq Call
    /\ next \in [Chain -> Nat]
    /\ funds \in [Chain \cup {"lightning"} -> 0..MaxFunds]
    /\ sent \subseteq Call /\ refused \subseteq Call
    /\ known \in [Call -> SUBSET Call]

Init ==
    /\ network = [c \in Call |-> "none"] /\ pc = [c \in Call |-> "idle"]
    /\ price = [c \in Call |-> 0] /\ nonce = [c \in Call |-> 0]
    /\ result = [c \in Call |-> "none"]
    /\ pool = {} /\ moved = {} /\ reverted = {}
    /\ next = [n \in Chain |-> 0]
    /\ funds \in [Chain \cup {"lightning"} -> 0..MaxFunds]
    /\ sent = {} /\ refused = {} /\ known = [c \in Call |-> {}]

-----------------------------------------------------------------------------
At(c, await) == pc[c] = await
Goto(c, await) == pc' = [pc EXCEPT ![c] = await] /\ UNCHANGED result
Return(c, answer) ==
    /\ pc' = [pc EXCEPT ![c] = "done"]
    /\ result' = [result EXCEPT ![c] = answer]

\* payOutCrypto: the network chooses the handler.
Start(c, n) ==
    /\ At(c, "idle")
    /\ network' = [network EXCEPT ![c] = n]
    /\ \/ n \in Chain /\ Goto(c, "prepare")
       \/ n = "lightning" /\ Goto(c, "balance")
       \/ n = "polkadot" /\ Return(c, "failure")
    /\ UNCHANGED <<price, nonce, chains, ghosts>>

\* The key, the gas price and the gas of the transfer, which a node estimates
\* by executing it.
Prepare(c, p) ==
    /\ At(c, "prepare")
    /\ funds[network[c]] > 0
    /\ price' = [price EXCEPT ![c] = p]
    /\ Goto(c, "nonce")
    /\ UNCHANGED <<network, nonce, chains, ghosts>>

\* Anything thrown before the transaction is sent: the catch returns failure.
FailEarly(c) ==
    /\ pc[c] \in {"prepare", "nonce", "balance"}
    /\ Return(c, "failure")
    /\ UNCHANGED <<network, price, nonce, chains, ghosts>>

\* The transactions of the wallet that a node holds, by nonce.
Held(n, i) == {d \in pool : network[d] = n /\ nonce[d] = i}

\* The first nonce of the wallet that no transaction has.
Pending(n) ==
    CHOOSE i \in next[n]..(next[n] + Cardinality(pool)) :
      /\ Held(n, i) = {}
      /\ \A j \in next[n]..(i - 1) : Held(n, j) # {}

\* Mutated form of ReadNonce: transactions yet to be mined are not counted.
ReadLatestNonce(c) ==
    /\ At(c, "nonce")
    /\ nonce' = [nonce EXCEPT ![c] = next[network[c]]]
    /\ known' = [known EXCEPT ![c] = sent]
    /\ Goto(c, "send")
    /\ UNCHANGED <<network, price, chains, sent, refused>>

\* getTransactionCount(account, "pending").
ReadNonce(c) ==
    /\ At(c, "nonce")
    /\ nonce' = [nonce EXCEPT ![c] = Pending(network[c])]
    /\ known' = [known EXCEPT ![c] = sent]
    /\ Goto(c, "send")
    /\ UNCHANGED <<network, price, chains, sent, refused>>

\* A node takes a transaction of a free nonce, or one that pays more for it;
\* Starknet replaces none.
Accepts(c) ==
    /\ nonce[c] >= next[network[c]]
    /\ \A d \in Held(network[c], nonce[c]) :
         network[c] = "evm" /\ price[c] > price[d]

\* send(): the transaction reaches the node, whose answer may be lost.
Send(c) ==
    /\ At(c, "send") /\ Accepts(c)
    /\ pool' = (pool \ Held(network[c], nonce[c])) \cup {c}
    /\ sent' = sent \cup {c}
    /\ Goto(c, "receipt") \/ Return(c, "failure")
    /\ UNCHANGED <<network, price, nonce, next, funds, moved, reverted, known,
                   refused>>

\* "nonce too low" or "replacement transaction underpriced".
SendRefused(c) ==
    /\ At(c, "send") /\ ~Accepts(c)
    /\ refused' = refused \cup {c}
    /\ Return(c, "failure")
    /\ UNCHANGED <<network, price, nonce, chains, sent, known>>

\* Mutated form of Receipt: the receipt's status is not looked at.
ReceiptOfAnyStatus(c) ==
    /\ At(c, "receipt") /\ c \in moved \cup reverted
    /\ Return(c, "hash")
    /\ UNCHANGED <<network, price, nonce, chains, ghosts>>

\* The receipt: web3 throws for a reverted transaction; waitForTransaction
\* returns for any that is accepted, and its status is not read.
Receipt(c) ==
    /\ At(c, "receipt") /\ c \in moved \cup reverted
    /\ Return(c, IF c \in moved \/ network[c] = "starknet" THEN "hash"
                 ELSE "failure")
    /\ UNCHANGED <<network, price, nonce, chains, ghosts>>

\* The wait for a receipt ends without one.
Timeout(c) ==
    /\ At(c, "receipt")
    /\ Return(c, "failure")
    /\ UNCHANGED <<network, price, nonce, chains, ghosts>>

-----------------------------------------------------------------------------
(* The chains                                                              *)

Mine(c) ==
    LET n == network[c]
    IN  /\ c \in pool /\ nonce[c] = next[n]
        /\ pool' = pool \ {c}
        /\ next' = [next EXCEPT ![n] = @ + 1]
        /\ IF funds[n] > 0
           THEN /\ moved' = moved \cup {c}
                /\ funds' = [funds EXCEPT ![n] = @ - 1]
                /\ UNCHANGED reverted
           ELSE reverted' = reverted \cup {c} /\ UNCHANGED <<moved, funds>>
        /\ UNCHANGED <<calls, ghosts>>

\* A node forgets a transaction it held.
Drop(c) ==
    /\ c \in pool
    /\ pool' = pool \ {c}
    /\ UNCHANGED <<calls, next, funds, moved, reverted, ghosts>>

-----------------------------------------------------------------------------
(* Lightning                                                               *)

\* getBlinkBalance, and the comparison with the amount.
ReadBalance(c) ==
    /\ At(c, "balance")
    /\ IF funds["lightning"] > 0 THEN Goto(c, "pay") ELSE Return(c, "failure")
    /\ UNCHANGED <<network, price, nonce, chains, ghosts>>

\* sendBlinkPayment: Blink pays or refuses; its answer, whatever it says, is
\* an HTTP 200, or it is an HTTP error or lost.
Pay(c) ==
    /\ At(c, "pay")
    /\ \/ /\ funds["lightning"] > 0
          /\ funds' = [funds EXCEPT !["lightning"] = @ - 1]
          /\ moved' = moved \cup {c}
       \/ UNCHANGED <<funds, moved>>
    /\ \E answer \in {"hash", "blinkFailure"} : Return(c, answer)
    /\ UNCHANGED <<network, price, nonce, pool, next, reverted, ghosts>>

-----------------------------------------------------------------------------
\* The process stops: nobody waits for the answers any more.
Crash ==
    /\ \E c \in Call : pc[c] \notin {"idle", "done", "lost"}
    /\ pc' = [c \in Call |-> IF pc[c] \in {"idle", "done"} THEN pc[c]
                             ELSE "lost"]
    /\ UNCHANGED <<network, price, nonce, result, chains, ghosts>>

Next ==
    \/ \E c \in Call, n \in Networks : Start(c, n)
    \/ \E c \in Call, p \in Price : Prepare(c, p)
    \/ \E c \in Call : \/ FailEarly(c) \/ ReadNonce(c)
                       \/ Send(c) \/ SendRefused(c) \/ Receipt(c) \/ Timeout(c)
                       \/ Mine(c) \/ Drop(c) \/ ReadBalance(c) \/ Pay(c)
    \/ Crash

Spec == Init /\ [][Next]_vars

-----------------------------------------------------------------------------
(* Properties                                                              *)

\* What a payout returned, now and after whatever the chain does with its
\* transaction later, is within the contract the settlement modules rely on.
KeepsContract ==
    \A c \in Call :
      /\ At(c, "done")
      /\ network[c] # "polkadot"
      => result[c] \in Contract(network[c])!PayOutAnswers(c \in moved)

\* The pending nonce keeps payouts apart: a node refuses one for its nonce
\* only if another with the same nonce was sent after it had read its own,
\* even when nodes replace and forget transactions.
RefusedOnlyByOverlap ==
    \A c \in refused : \E d \in sent \ known[c] :
      network[d] = network[c] /\ nonce[d] = nonce[c]
=============================================================================
