--------------------------- MODULE CryptoPayoutProofs ---------------------------
(***************************************************************************)
(* Proofs about CryptoPayout, for any calls, gas prices and funds.         *)
(***************************************************************************)
EXTENDS CryptoPayout, FiniteSetTheorems, TLAPS

-----------------------------------------------------------------------------
(***************************************************************************)
(* The inductive invariant behind the contract: the await a call is at     *)
(* tells its network, nothing of it moves before it is sent or after it    *)
(* failed without being sent, and only a chain holds transactions.         *)
(***************************************************************************)
CallsOK ==
    /\ network \in [Call -> Chain \cup {"lightning", "polkadot", "none"}]
    /\ pc \in [Call -> {"idle", "prepare", "nonce", "send", "receipt",
                        "balance", "pay", "done", "lost"}]
    /\ result \in [Call -> {"none", "hash", "failure", "blinkFailure"}]

Placed(c) ==
    /\ pc[c] = "idle" => c \notin pool \cup moved
    /\ pc[c] \in {"prepare", "nonce", "send", "receipt"} => network[c] \in Chain
    /\ pc[c] \in {"balance", "pay"} => network[c] = "lightning" /\ c \notin moved
    /\ c \in pool => network[c] \in Chain

Answered(c) ==
    pc[c] = "done" =>
      /\ result[c] \in {"hash", "failure", "blinkFailure"}
      /\ network[c] \in Chain => result[c] # "blinkFailure"
      /\ network[c] = "evm" /\ result[c] = "hash" => c \in moved
      /\ network[c] = "lightning" /\ c \in moved => result[c] # "failure"

Inv == CallsOK /\ \A c \in Call : Placed(c) /\ Answered(c)

LEMMA InvInit == Init => Inv
BY DEF Init, Inv, CallsOK, Placed, Answered

LEMMA StartKeeps ==
    ASSUME Inv, NEW c \in Call, NEW n \in Networks, Start(c, n)
    PROVE  Inv'
BY NetworksAssumption
   DEF Start, At, Goto, Return, chains, ghosts, Inv, CallsOK, Placed, Answered,
       Chain

LEMMA OneCallKeeps ==
    ASSUME Inv, NEW c \in Call,
           \/ \E p \in Price : Prepare(c, p)
           \/ FailEarly(c) \/ ReadNonce(c) \/ Send(c) \/ SendRefused(c)
           \/ Receipt(c) \/ Timeout(c) \/ ReadBalance(c) \/ Pay(c)
    PROVE  Inv'
<1> USE DEF Inv, CallsOK, Placed, Answered, At, Goto, Return, chains, ghosts,
            Chain
<1>1. CASE \E p \in Price : Prepare(c, p)
    BY <1>1 DEF Prepare
<1>2. CASE FailEarly(c)
    BY <1>2 DEF FailEarly
<1>3. CASE ReadNonce(c)
    BY <1>3 DEF ReadNonce
<1>4. CASE Send(c)
    BY <1>4 DEF Send
<1>5. CASE SendRefused(c)
    BY <1>5 DEF SendRefused
<1>6. CASE Receipt(c)
    BY <1>6 DEF Receipt
<1>7. CASE Timeout(c)
    BY <1>7 DEF Timeout
<1>8. CASE ReadBalance(c)
    BY <1>8 DEF ReadBalance
<1>9. CASE Pay(c)
    BY <1>9 DEF Pay
<1> QED
    BY <1>1, <1>2, <1>3, <1>4, <1>5, <1>6, <1>7, <1>8, <1>9

\* What happens to a transaction once a node has it, and to the process.
LEMMA ChainKeeps ==
    ASSUME Inv, Crash \/ \E c \in Call : Mine(c) \/ Drop(c)
    PROVE  Inv'
<1> USE DEF Inv, CallsOK, Placed, Answered, calls, chains, ghosts, Chain
<1>1. CASE Crash
    BY <1>1 DEF Crash
<1>2. ASSUME NEW c \in Call, Mine(c)
      PROVE  Inv'
    BY <1>2 DEF Mine
<1>3. ASSUME NEW c \in Call, Drop(c)
      PROVE  Inv'
    BY <1>3 DEF Drop
<1> QED
    BY <1>1, <1>2, <1>3

LEMMA InvNext == Inv /\ [Next]_vars => Inv'
<1>1. Inv /\ UNCHANGED vars => Inv'
    BY DEF vars, calls, chains, Inv, CallsOK, Placed, Answered
<1> QED
    BY <1>1, StartKeeps, OneCallKeeps, ChainKeeps DEF Next

LEMMA Invariant == Spec => []Inv
BY InvInit, InvNext, PTL DEF Spec

-----------------------------------------------------------------------------
\* Whatever the nodes, Blink and the other payouts do, what payOutCrypto
\* returned is one of the answers the settlement handlers are modelled with.
THEOREM ContractKept == Spec => []KeepsContract
<1>1. Inv => KeepsContract
  <2> SUFFICES ASSUME Inv, NEW c \in Call, At(c, "done"),
                      network[c] # "polkadot"
               PROVE  result[c] \in
                        Contract(network[c])!PayOutAnswers(c \in moved)
      BY DEF KeepsContract
  <2> QED
      BY DEF Inv, Answered, At, Chain, Contract!PayOutAnswers,
             Contract!PayoutResult
<1> QED
    BY <1>1, Invariant, PTL

-----------------------------------------------------------------------------
(***************************************************************************)
(* The next nonce.                                                         *)
(***************************************************************************)
\* The natural numbers are well ordered.
LEMMA LeastNatural ==
    ASSUME NEW T, T \subseteq Nat, T # {}
    PROVE  \E i \in T : \A j \in T : i <= j
<1> DEFINE R == OpToRel(<, Nat)
<1>1. \A x, y \in Nat : <<y, x>> \in R <=> y < x
    BY DEF OpToRel
<1>2. IsWellFoundedOn(R, Nat)
    BY NatLessThanWellFounded
<1> HIDE DEF R
<1>3. PICK i \in T : \A j \in T : ~(<<j, i>> \in R)
    BY <1>2, WFMin
<1>4. ASSUME NEW j \in T PROVE i <= j
  <2>1. i \in Nat /\ j \in Nat
      OBVIOUS
  <2>2. ~(<<j, i>> \in R)
      BY <1>3
  <2>3. ~(j < i)
      BY <1>1, <2>1, <2>2
  <2> QED
      BY <2>1, <2>3
<1> QED
    BY <1>4

LEMMA IntervalSize ==
    ASSUME NEW a \in Nat, NEW k \in Nat
    PROVE  IsFiniteSet(a..(a + k)) /\ Cardinality(a..(a + k)) = k + 1
<1>1. a \in Int /\ a + k \in Int
    OBVIOUS
<1> DEFINE b == a + k
<1>2. b \in Int /\ ~(a > b) /\ b - a + 1 = k + 1
    OBVIOUS
<1> HIDE DEF b
<1>3. IsFiniteSet(a..b) /\ Cardinality(a..b) = IF a > b THEN 0 ELSE b - a + 1
    BY <1>1, <1>2, FS_Interval
<1>4. IsFiniteSet(a..b) /\ Cardinality(a..b) = k + 1
    BY <1>2, <1>3
<1> QED
    BY <1>4 DEF b

\* Finitely many transactions leave a nonce free, and Pending is the first.
LEMMA PendingIsFree ==
    ASSUME next \in [Chain -> Nat], IsFiniteSet(pool), NEW n \in Chain
    PROVE  /\ Pending(n) \in Nat
           /\ Pending(n) >= next[n]
           /\ Held(n, Pending(n)) = {}
<1> DEFINE first == next[n]
           I == first..(first + Cardinality(pool))
           Free == {i \in I : Held(n, i) = {}}
<1>1. first \in Nat /\ Cardinality(pool) \in Nat
    BY FS_CardinalityType
<1>2. I \subseteq Nat
    BY <1>1
<1>3. IsFiniteSet(I) /\ Cardinality(I) = Cardinality(pool) + 1
    BY <1>1, IntervalSize
<1>4. Free # {}
  <2> SUFFICES ASSUME \A i \in I : Held(n, i) # {} PROVE FALSE
      OBVIOUS
  <2> DEFINE holder == [i \in I |-> CHOOSE d \in Held(n, i) : TRUE]
  <2>1. \A i \in I : holder[i] \in pool /\ nonce[holder[i]] = i
      BY DEF Held
  <2>2. holder \in [I -> pool]
      BY <2>1
  <2> HIDE DEF I, holder
  <2>3. \E x, y \in I : x # y /\ holder[x] = holder[y]
      BY <1>1, <1>3, <2>2, FS_PigeonHole
  <2> QED
      BY <2>1, <2>3
<1>5. PICK i \in Free : \A j \in Free : i <= j
  <2> HIDE DEF I
  <2> QED
      BY <1>2, <1>4, LeastNatural
<1>6. \A j \in first..(i - 1) : Held(n, j) # {}
  <2> SUFFICES ASSUME NEW j \in first..(i - 1), Held(n, j) = {} PROVE FALSE
      OBVIOUS
  <2>1. j \in Free
      BY <1>1
  <2> QED
      BY <1>1, <1>5, <2>1
<1>7. Pending(n) \in I /\ Held(n, Pending(n)) = {}
    BY <1>6 DEF Pending
<1> QED
    BY <1>1, <1>7

-----------------------------------------------------------------------------
(***************************************************************************)
(* The inductive invariant behind the nonces.                              *)
(*                                                                         *)
(* The nonce a call sends with was free when it read it, so that the       *)
(* transactions it knew of and a node still holds have other nonces, and   *)
(* one mined under its nonce since is one it did not know of.              *)
(***************************************************************************)
Overlapped(c) ==
    \E d \in sent \ known[c] : network[d] = network[c] /\ nonce[d] = nonce[c]

Apart(c) ==
    /\ pc[c] \in {"idle", "prepare", "nonce", "send"} => c \notin sent
    /\ pc[c] = "send" =>
         /\ known[c] \subseteq sent
         /\ \A d \in known[c] \cap pool :
              network[d] = network[c] => nonce[d] # nonce[c]
         /\ nonce[c] < next[network[c]] => Overlapped(c)
    /\ c \in refused => pc[c] \in {"done", "lost"} /\ Overlapped(c)

NonceInv ==
    /\ TypeOK
    /\ IsFiniteSet(pool) /\ pool \subseteq sent
    /\ \A c \in Call : Apart(c)

LEMMA NonceInit == Init => NonceInv
<1>1. IsFiniteSet({})
    BY FS_EmptySet
<1> QED
    BY <1>1 DEF Init, NonceInv, TypeOK, Apart

\* A call that has read its nonce keeps what it read, and nothing sent is
\* forgotten.
LEMMA NextKeepsSent ==
    ASSUME NonceInv, [Next]_vars
    PROVE  /\ sent \subseteq sent'
           /\ \A d \in Call : pc[d] \notin {"idle", "prepare", "nonce"} =>
                UNCHANGED <<network[d], nonce[d], known[d]>>
<1> USE DEF NonceInv, TypeOK, At, Goto, Return, calls, chains, ghosts
<1>1. CASE UNCHANGED vars \/ Crash
    BY <1>1 DEF vars, Crash
<1>2. CASE \E c \in Call, n \in Networks : Start(c, n)
    BY <1>2 DEF Start
<1>3. CASE \E c \in Call : ReadNonce(c)
    BY <1>3 DEF ReadNonce
<1>4. CASE \E c \in Call : Send(c) \/ SendRefused(c)
    BY <1>4 DEF Send, SendRefused
<1>5. CASE \E c \in Call : Mine(c) \/ Drop(c) \/ Pay(c)
    BY <1>5 DEF Mine, Drop, Pay
<1>6. CASE \E c \in Call : \/ FailEarly(c) \/ Receipt(c) \/ Timeout(c)
                           \/ ReadBalance(c)
                           \/ \E p \in Price : Prepare(c, p)
    BY <1>6 DEF FailEarly, Receipt, Timeout, ReadBalance, Prepare
<1> QED
    BY <1>1, <1>2, <1>3, <1>4, <1>5, <1>6 DEF Next

LEMMA OverlapStays ==
    ASSUME NonceInv, [Next]_vars, NEW c \in Call, Overlapped(c),
           pc[c] \notin {"idle", "prepare", "nonce"}
    PROVE  Overlapped(c)'
<1>1. PICK d \in sent \ known[c] :
         network[d] = network[c] /\ nonce[d] = nonce[c]
    BY DEF Overlapped
<1>2. d \in Call /\ pc[d] \notin {"idle", "prepare", "nonce"}
    BY DEF NonceInv, TypeOK, Apart
<1> QED
    BY <1>1, <1>2, NextKeepsSent DEF Overlapped

LEMMA TypeNext ==
    ASSUME Inv, TypeOK, IsFiniteSet(pool), [Next]_vars
    PROVE  TypeOK'
<1> USE DEF TypeOK, At, Goto, Return, calls, chains, ghosts, Chain
<1>1. CASE UNCHANGED vars \/ Crash
    BY <1>1 DEF vars, Crash
<1>2. ASSUME NEW c \in Call, NEW n \in Networks, Start(c, n) PROVE TypeOK'
    BY <1>2, NetworksAssumption DEF Start
<1>3. ASSUME NEW c \in Call, NEW p \in Price, Prepare(c, p) PROVE TypeOK'
    BY <1>3, PriceAssumption DEF Prepare
<1>4. ASSUME NEW c \in Call, ReadNonce(c) PROVE TypeOK'
  <2>1. network[c] \in Chain
      BY <1>4 DEF ReadNonce, Inv, Placed
  <2>2. Pending(network[c]) \in Nat
      BY <2>1, PendingIsFree
  <2> QED
      BY <1>4, <2>2 DEF ReadNonce
<1>5. ASSUME NEW c \in Call, Send(c) \/ SendRefused(c) PROVE TypeOK'
    BY <1>5 DEF Send, SendRefused
<1>6. ASSUME NEW c \in Call, Mine(c) PROVE TypeOK'
  <2> DEFINE n == network[c]
  <2>1. n \in Chain /\ next[n] \in Nat /\ funds[n] \in 0..MaxFunds
      BY <1>6 DEF Mine, Inv, Placed
  <2>2. next' \in [Chain -> Nat]
      BY <1>6, <2>1 DEF Mine
  <2>3. funds' \in [Chain \cup {"lightning"} -> 0..MaxFunds]
      BY <1>6, <2>1, FundsAssumption DEF Mine
  <2> QED
      BY <1>6, <2>2, <2>3 DEF Mine
<1>7. ASSUME NEW c \in Call, Pay(c) PROVE TypeOK'
  <2>1. funds' \in [Chain \cup {"lightning"} -> 0..MaxFunds]
    <3>1. funds["lightning"] \in 0..MaxFunds
        OBVIOUS
    <3> QED
        BY <1>7, <3>1, FundsAssumption DEF Pay
  <2> QED
      BY <1>7, <2>1 DEF Pay
<1>8. ASSUME NEW c \in Call,
             Drop(c) \/ FailEarly(c) \/ Receipt(c) \/ Timeout(c) \/ ReadBalance(c)
      PROVE  TypeOK'
    BY <1>8 DEF Drop, FailEarly, Receipt, Timeout, ReadBalance
<1> QED
    BY <1>1, <1>2, <1>3, <1>4, <1>5, <1>6, <1>7, <1>8 DEF Next

\* The nodes hold finitely many transactions, all of them sent.
LEMMA PoolNext ==
    ASSUME NonceInv, [Next]_vars
    PROVE  IsFiniteSet(pool') /\ pool' \subseteq sent'
<1> USE DEF NonceInv
<1>1. \/ pool' \subseteq pool
      \/ \E c \in Call : pool' \subseteq pool \cup {c} /\ sent' = sent \cup {c}
  <2>1. CASE UNCHANGED pool
      BY <2>1
  <2>2. CASE \E c \in Call : Send(c) \/ Mine(c) \/ Drop(c)
      BY <2>2 DEF Send, Mine, Drop
  <2> QED
      BY <2>1, <2>2 DEF Next, vars, chains, Crash, Start, Prepare, FailEarly,
         ReadNonce, SendRefused, Receipt, Timeout, ReadBalance, Pay
<1>2. \A c : IsFiniteSet(pool \cup {c})
    BY FS_AddElement
<1> QED
    BY <1>1, <1>2, NextKeepsSent, FS_Subset

\* The call that reads its nonce, or sends.
LEMMA OwnApart ==
    ASSUME Inv, NonceInv, NEW c \in Call, [Next]_vars,
           ReadNonce(c) \/ Send(c) \/ SendRefused(c)
    PROVE  Apart(c)'
<1> USE DEF NonceInv, TypeOK, At, Goto, Return
<1>1. CASE ReadNonce(c)
  <2> DEFINE n == network[c]
  <2>1. n \in Chain /\ c \notin sent /\ c \notin refused
      BY <1>1 DEF ReadNonce, Inv, Placed, Apart
  <2>2. /\ Pending(n) \in Nat /\ next[n] \in Nat /\ ~(Pending(n) < next[n])
        /\ Held(n, Pending(n)) = {}
      BY <2>1, PendingIsFree
  <2>3. /\ nonce'[c] = Pending(n) /\ known'[c] = sent /\ network' = network
        /\ sent' = sent /\ refused' = refused /\ next' = next /\ pool' = pool
        /\ \A d \in Call \ {c} : nonce'[d] = nonce[d]
      BY <1>1 DEF ReadNonce, chains
  <2>4. \A d \in pool : network[d] = n => nonce[d] # Pending(n)
      BY <2>2 DEF Held
  <2> QED
      BY <2>1, <2>2, <2>3, <2>4 DEF Apart
<1>2. CASE Send(c)
    BY <1>2 DEF Send, Apart
<1>3. CASE SendRefused(c)
  <2>1. c \notin sent /\ network[c] \in Chain
      BY <1>3 DEF SendRefused, Inv, Placed, Apart
  <2>2. Overlapped(c)
    <3>1. CASE nonce[c] < next[network[c]]
        BY <1>3, <3>1 DEF SendRefused, Apart
    <3>2. CASE ~(nonce[c] < next[network[c]])
      <4>1. PICK d \in Held(network[c], nonce[c]) : TRUE
          BY <1>3, <2>1, <3>2 DEF SendRefused, Accepts
      <4>2. d \in pool /\ network[d] = network[c] /\ nonce[d] = nonce[c]
          BY <4>1 DEF Held
      <4>3. d \notin known[c]
          BY <1>3, <4>2 DEF SendRefused, Apart
      <4> QED
          BY <4>2, <4>3 DEF Overlapped
    <3> QED
        BY <3>1, <3>2
  <2>3. Overlapped(c)'
      BY <1>3, <2>2, OverlapStays DEF SendRefused
  <2> QED
      BY <1>3, <2>1, <2>3 DEF SendRefused, chains, Apart
<1> QED
    BY <1>1, <1>2, <1>3

\* The others: whatever enters a pool was not known to them, and the wallet's
\* next nonce passes theirs only by such a transaction.
LEMMA OthersApart ==
    ASSUME Inv, NonceInv, NEW d \in Call, [Next]_vars,
           ~(ReadNonce(d) \/ Send(d) \/ SendRefused(d))
    PROVE  Apart(d)'
<1> USE DEF NonceInv, TypeOK, At, Goto, Return
<1>0. Apart(d) /\ TypeOK'
    BY TypeNext
<1>1. pc'[d] \in {pc[d], "done", "lost"} \/ (pc[d] = "idle" /\ pc'[d] \in {"prepare", "balance"})
         \/ (pc[d] = "prepare" /\ pc'[d] = "nonce") \/ (pc[d] = "balance" /\ pc'[d] = "pay")
  <2>1. CASE UNCHANGED vars \/ Crash
      BY <2>1 DEF vars, calls, Crash
  <2>2. CASE \E c \in Call, n \in Networks : Start(c, n)
      BY <2>2 DEF Start
  <2>3. CASE \E c \in Call, p \in Price : Prepare(c, p)
      BY <2>3 DEF Prepare
  <2>4. CASE \E c \in Call : ReadNonce(c) \/ Send(c) \/ SendRefused(c)
      BY <2>4 DEF ReadNonce, Send, SendRefused
  <2>5. CASE \E c \in Call : FailEarly(c) \/ Receipt(c) \/ Timeout(c)
                             \/ ReadBalance(c) \/ Pay(c)
      BY <2>5 DEF FailEarly, Receipt, Timeout, ReadBalance, Pay
  <2>6. CASE \E c \in Call : Mine(c) \/ Drop(c)
      BY <2>6 DEF Mine, Drop, calls
  <2> QED
      BY <2>1, <2>2, <2>3, <2>4, <2>5, <2>6 DEF Next
<1>2. /\ d \in sent' => d \in sent
      /\ d \in refused' => d \in refused
  <2>1. CASE \E c \in Call : Send(c) \/ SendRefused(c)
      BY <2>1 DEF Send, SendRefused
  <2>2. CASE UNCHANGED <<sent, refused>>
      BY <2>2
  <2> QED
      BY <2>1, <2>2 DEF Next, vars, ghosts, Crash, Start, Prepare, FailEarly,
         ReadNonce, Receipt, Timeout, Mine, Drop, ReadBalance, Pay
<1>3. pc'[d] \in {"idle", "prepare", "nonce", "send"} => d \notin sent'
    BY <1>0, <1>1, <1>2 DEF Apart
<1>4. d \in refused' => pc'[d] \in {"done", "lost"} /\ Overlapped(d)'
    BY <1>0, <1>1, <1>2, OverlapStays DEF Apart
<1>5. ASSUME pc'[d] = "send"
      PROVE  /\ known'[d] \subseteq sent'
             /\ \A e \in known'[d] \cap pool' :
                  network'[e] = network'[d] => nonce'[e] # nonce'[d]
             /\ nonce'[d] < next'[network'[d]] => Overlapped(d)'
  <2>1. /\ pc[d] = "send"
        /\ UNCHANGED <<network[d], nonce[d], known[d]>>
        /\ known[d] \subseteq sent
      BY <1>0, <1>1, <1>5, NextKeepsSent DEF Apart
  <2>2. known[d] \cap pool' \subseteq pool
    <3>1. ASSUME NEW c \in Call, Send(c) PROVE known[d] \cap pool' \subseteq pool
      <4>1. c \notin sent /\ pool' \subseteq pool \cup {c}
          BY <3>1 DEF Send, Apart
      <4> QED
          BY <2>1, <4>1
    <3>2. CASE \E c \in Call : Mine(c) \/ Drop(c)
        BY <3>2 DEF Mine, Drop
    <3>3. CASE UNCHANGED pool
        BY <3>3
    <3> QED
        BY <3>1, <3>2, <3>3 DEF Next, vars, chains, Crash, Start, Prepare,
           FailEarly, ReadNonce, SendRefused, Receipt, Timeout, ReadBalance, Pay
  <2>3. \A e \in known[d] : UNCHANGED <<network[e], nonce[e]>>
      BY <2>1, NextKeepsSent DEF Apart
  <2>4. nonce[d] < next'[network[d]] => Overlapped(d)
    <3>1. ASSUME NEW c \in Call, Mine(c), nonce[d] < next'[network[d]]
          PROVE  Overlapped(d)
      <4>1. /\ network[c] \in Chain /\ network[d] \in Chain
            /\ next[network[d]] \in Nat /\ nonce[d] \in Nat
          BY <2>1, <3>1 DEF Mine, Inv, Placed
      <4>2. CASE nonce[d] < next[network[d]]
          BY <1>0, <2>1, <4>2 DEF Apart
      <4>3. CASE ~(nonce[d] < next[network[d]])
        <5>1. network[c] = network[d] /\ nonce[c] = nonce[d]
            BY <3>1, <4>1, <4>3 DEF Mine
        <5>2. c \in pool /\ c \notin known[d]
            BY <1>0, <2>1, <3>1, <5>1 DEF Mine, Apart
        <5> QED
            BY <5>1, <5>2 DEF Overlapped
      <4> QED
          BY <4>2, <4>3
    <3>2. CASE UNCHANGED next
        BY <1>0, <2>1, <3>2 DEF Apart
    <3> QED
        BY <3>1, <3>2 DEF Next, vars, chains, Crash, Start, Prepare, FailEarly,
           ReadNonce, Send, SendRefused, Receipt, Timeout, Drop, ReadBalance, Pay
  <2>5. known[d] \subseteq sent'
      BY <2>1, NextKeepsSent
  <2> QED
      BY <1>0, <2>1, <2>2, <2>3, <2>4, <2>5, OverlapStays DEF Apart
<1> QED
    BY <1>3, <1>4, <1>5 DEF Apart

LEMMA NonceNext == Inv /\ NonceInv /\ [Next]_vars => NonceInv'
BY TypeNext, PoolNext, OwnApart, OthersApart DEF NonceInv

LEMMA NonceInvariant == Spec => []NonceInv
BY NonceInit, NonceNext, Invariant, PTL DEF Spec

\* The state stays in its types; a pending nonce is one because the nodes hold
\* finitely many transactions.
THEOREM Typed == Spec => []TypeOK
<1>1. NonceInv => TypeOK
    BY DEF NonceInv
<1> QED
    BY <1>1, NonceInvariant, PTL

\* A node refuses a payout for its nonce only if another with that nonce was
\* sent after it had read its own.
THEOREM RefusalsOverlap == Spec => []RefusedOnlyByOverlap
<1>1. NonceInv => RefusedOnlyByOverlap
    BY DEF NonceInv, TypeOK, Apart, Overlapped, RefusedOnlyByOverlap
<1> QED
    BY <1>1, NonceInvariant, PTL
===============================================================================
