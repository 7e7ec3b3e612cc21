--------------------------- MODULE StoreLedgerProofs ---------------------------
(***************************************************************************)
(* Proofs about StoreLedger, for any calls and transactions.               *)
(***************************************************************************)
EXTENDS StoreLedger, FiniteSetTheorems, TLAPS

-----------------------------------------------------------------------------
(***************************************************************************)
(* The inductive invariant.                                                *)
(*                                                                         *)
(* Placed says that a call which is not over is at one of the awaits of    *)
(* its handler, and Named which transaction it is about.  Deposited        *)
(* follows a webhook call: it takes a transaction, deposits it once, and   *)
(* then has it marked, so that the deposit of a transaction that is still  *)
(* Pending is of a call about to mark it, or cut before it could.  That is *)
(* what Pairwise needs: a second call finds a transaction Pending only     *)
(* while the first one holds it, or when the first was cut.  KeysLate and  *)
(* KeysGo say the same of a store's keys, which are saved after it and     *)
(* deleted after it.                                                       *)
(***************************************************************************)
Placed(c) ==
    /\ op[c] = "none" => pc[c] = 0
    /\ UnderWay(c) => pc[c] < Len(Program[op[c]])

Named(c) ==
    /\ op[c] = "trigger" /\ pc[c] \in 1..7 => tx[c] \in Tx
    /\ op[c] = "txCreate" /\ pc[c] \in 2..5 => tx[c] = c
    /\ op[c] = "confirm" => tx[c] \in TxId

Deposited(c) ==
    \A t \in TxId \cup {None} : <<c, t>> \in deposits =>
        /\ op[c] # "none"
        /\ op[c] = "trigger" =>
              /\ t = tx[c] /\ t \in Tx
              /\ pc[c] \notin 0..2
              /\ c \in cut \/ pc[c] = 3 \/ status[t] # "Pending"

\* A webhook call that has deposited its transaction, or is to.
Pays(c) ==
    /\ op[c] = "trigger"
    /\ pc[c] \in 1..2 \/ \E t \in TxId \cup {None} : <<c, t>> \in deposits

Pairwise(c, d) ==
    Pays(c) /\ Pays(d) /\ tx[c] = tx[d] =>
        {c, d} \in races \/ {c, d} \cap cut # {}

KeysLate(d) ==
    At(d, "saveCreds") /\ store = "absent" => \E c \in Call : {c, d} \in races

KeysGo ==
    store = "absent" /\ creds = TRUE =>
      \/ \E c \in Call : op[c] = "removeStore"
                         /\ (At(c, "deleteCreds") \/ c \in cut)
      \/ \E c, d \in Call : op[d] = "newStore" /\ {c, d} \in races

CallInv ==
    \A c \in Call : Placed(c) /\ Named(c) /\ Deposited(c) /\ KeysLate(c)

PairInv == \A c, d \in Call : c # d => Pairwise(c, d)

Inv == TypeOK /\ CallInv /\ PairInv /\ KeysGo

LEMMA Handlers == DOMAIN Program =
    {"txCreate", "deposit", "withdraw", "trigger", "confirm", "confirmTx",
     "newStore", "removeStore", "switchStore", "addCallback",
     "removeDeposits", "removeWithdraws", "removeActivity"}
BY DEF Program

\* The handlers that keep the books, and the steps at which they save their
\* record and add it to the totals.
Writers == {"txCreate", "trigger", "confirm", "deposit", "withdraw"}
SaveAt == [txCreate |-> 2, trigger |-> 2, confirm |-> 3, deposit |-> 0,
           withdraw |-> 0]
WriteAt == [txCreate |-> 4, trigger |-> 5, confirm |-> 6, deposit |-> 2,
            withdraw |-> 2]

\* Which handler and which of its steps an await is.
LEMMA Where ==
    ASSUME TypeOK, NEW c \in Call, Placed(c), UnderWay(c)
    PROVE  /\ op[c] = "trigger" =>
                \/ pc[c] = 0 /\ Awaits(c) = "findPending"
                \/ pc[c] = 1 /\ Awaits(c) = "findStore"
                \/ pc[c] = 2 /\ Awaits(c) = "saveDeposit"
                \/ pc[c] = 3 /\ Awaits(c) = "markTx"
                \/ pc[c] \in 4..7 /\ Awaits(c) \in {"findActivity",
                       "writeActivity", "schedule", "setTransfer"}
           /\ op[c] = "newStore" =>
                \/ pc[c] = 0 /\ Awaits(c) = "saveStore"
                \/ pc[c] = 1 /\ Awaits(c) = "saveCreds"
                \/ pc[c] = 2 /\ Awaits(c) = "saveActivity"
           /\ op[c] = "removeStore" =>
                \/ pc[c] = 0 /\ Awaits(c) = "deleteStore"
                \/ pc[c] = 1 /\ Awaits(c) = "deleteCreds"
           /\ op[c] = "txCreate" /\ pc[c] = 1 => Awaits(c) = "saveTx"
           /\ Awaits(c) = "findPending" => op[c] = "trigger" /\ pc[c] = 0
           /\ Awaits(c) = "saveTx" => op[c] = "txCreate" /\ pc[c] = 1
           /\ Awaits(c) = "schedule" =>
                \/ op[c] = "txCreate" /\ pc[c] = 5
                \/ op[c] = "trigger" /\ pc[c] = 6
                \/ op[c] = "confirm"
           /\ Awaits(c) = "findTx" => op[c] = "confirm"
           /\ Awaits(c) = "writeActivity" =>
                op[c] \in {"txCreate", "trigger", "confirm", "deposit", "withdraw"}
           /\ Awaits(c) \in {"saveStore", "saveCreds", "saveActivity"} =>
                op[c] = "newStore"
           /\ Awaits(c) \in {"deleteStore", "deleteCreds"} => op[c] = "removeStore"
           /\ Awaits(c) = "saveActivity" => pc[c] = 2
           /\ Awaits(c) = "writeActivity" <=>
                op[c] \in Writers /\ pc[c] = WriteAt[op[c]]
           /\ Awaits(c) = "findActivity" <=>
                op[c] \in Writers /\ pc[c] = WriteAt[op[c]] - 1
           /\ Awaits(c) \in {"saveDeposit", "saveWithdraw"} <=>
                op[c] \in Writers /\ pc[c] = SaveAt[op[c]]
           /\ Awaits(c) \in {"findStore", "findPending", "findTx"} =>
                pc[c] < SaveAt[op[c]]
           /\ Awaits(c) \in {"deleteDeposits", "deleteWithdraws",
                             "deleteActivity"} => op[c] \notin Writers
<1>1. /\ op[c] \in DOMAIN Program
      /\ pc[c] \in Nat /\ pc[c] < Len(Program[op[c]])
      /\ Awaits(c) = Program[op[c]][pc[c] + 1]
  <2>1. op[c] \in DOMAIN Program \cup {"none"} /\ pc[c] \in 0..Over
      BY DEF TypeOK
  <2>2. op[c] \in DOMAIN Program
      BY <2>1 DEF UnderWay
  <2>3. pc[c] \in Nat
      BY <2>1 DEF Over
  <2>4. pc[c] < Len(Program[op[c]])
      BY DEF Placed
  <2>5. Awaits(c) = Program[op[c]][pc[c] + 1]
      BY DEF Awaits
  <2> QED
      BY <2>2, <2>3, <2>4, <2>5
<1>2. CASE op[c] = "txCreate"
  <2>1. Program[op[c]] = <<"findStore", "saveTx", "saveDeposit", "findActivity",
                           "writeActivity", "schedule">>
      BY <1>2 DEF Program
  <2>2. pc[c] \in 0..5
      BY <1>1, <2>1
  <2>3. \/ pc[c] = 0 /\ Awaits(c) = "findStore"
        \/ pc[c] = 1 /\ Awaits(c) = "saveTx"
        \/ pc[c] = 2 /\ Awaits(c) = "saveDeposit"
        \/ pc[c] = 3 /\ Awaits(c) = "findActivity"
        \/ pc[c] = 4 /\ Awaits(c) = "writeActivity"
        \/ pc[c] = 5 /\ Awaits(c) = "schedule"
      BY <1>1, <2>1, <2>2
  <2> QED
      BY <1>2, <2>3 DEF Writers, SaveAt, WriteAt
<1>3. CASE op[c] = "deposit"
  <2>1. Program[op[c]] = <<"saveDeposit", "findActivity", "writeActivity">>
      BY <1>3 DEF Program
  <2>2. pc[c] \in 0..2
      BY <1>1, <2>1
  <2>3. \/ pc[c] = 0 /\ Awaits(c) = "saveDeposit"
        \/ pc[c] = 1 /\ Awaits(c) = "findActivity"
        \/ pc[c] = 2 /\ Awaits(c) = "writeActivity"
      BY <1>1, <2>1, <2>2
  <2> QED
      BY <1>3, <2>3 DEF Writers, SaveAt, WriteAt
<1>4. CASE op[c] = "withdraw"
  <2>1. Program[op[c]] = <<"saveWithdraw", "findActivity", "writeActivity">>
      BY <1>4 DEF Program
  <2>2. pc[c] \in 0..2
      BY <1>1, <2>1
  <2>3. \/ pc[c] = 0 /\ Awaits(c) = "saveWithdraw"
        \/ pc[c] = 1 /\ Awaits(c) = "findActivity"
        \/ pc[c] = 2 /\ Awaits(c) = "writeActivity"
      BY <1>1, <2>1, <2>2
  <2> QED
      BY <1>4, <2>3 DEF Writers, SaveAt, WriteAt
<1>5. CASE op[c] = "trigger"
  <2>1. Program[op[c]] = <<"findPending", "findStore", "saveDeposit", "markTx",
                           "findActivity", "writeActivity", "schedule",
                           "setTransfer">>
      BY <1>5 DEF Program
  <2>2. pc[c] \in 0..7
      BY <1>1, <2>1
  <2>3. \/ pc[c] = 0 /\ Awaits(c) = "findPending"
        \/ pc[c] = 1 /\ Awaits(c) = "findStore"
        \/ pc[c] = 2 /\ Awaits(c) = "saveDeposit"
        \/ pc[c] = 3 /\ Awaits(c) = "markTx"
        \/ pc[c] = 4 /\ Awaits(c) = "findActivity"
        \/ pc[c] = 5 /\ Awaits(c) = "writeActivity"
        \/ pc[c] = 6 /\ Awaits(c) = "schedule"
        \/ pc[c] = 7 /\ Awaits(c) = "setTransfer"
      BY <1>1, <2>1, <2>2
  <2> QED
      BY <1>5, <2>3 DEF Writers, SaveAt, WriteAt
<1>6. CASE op[c] = "confirm"
  <2>1. Program[op[c]] = <<"setTransfer", "findTx", "findStore", "saveDeposit",
                           "markTx", "findActivity", "writeActivity",
                           "schedule">>
      BY <1>6 DEF Program
  <2>2. pc[c] \in 0..7
      BY <1>1, <2>1
  <2>3. \/ pc[c] = 0 /\ Awaits(c) = "setTransfer"
        \/ pc[c] = 1 /\ Awaits(c) = "findTx"
        \/ pc[c] = 2 /\ Awaits(c) = "findStore"
        \/ pc[c] = 3 /\ Awaits(c) = "saveDeposit"
        \/ pc[c] = 4 /\ Awaits(c) = "markTx"
        \/ pc[c] = 5 /\ Awaits(c) = "findActivity"
        \/ pc[c] = 6 /\ Awaits(c) = "writeActivity"
        \/ pc[c] = 7 /\ Awaits(c) = "schedule"
      BY <1>1, <2>1, <2>2
  <2> QED
      BY <1>6, <2>3 DEF Writers, SaveAt, WriteAt
<1>7. CASE op[c] = "confirmTx"
  <2>1. Program[op[c]] = <<"markTx", "setTransfer">>
      BY <1>7 DEF Program
  <2>2. pc[c] \in 0..1
      BY <1>1, <2>1
  <2>3. \/ pc[c] = 0 /\ Awaits(c) = "markTx"
        \/ pc[c] = 1 /\ Awaits(c) = "setTransfer"
      BY <1>1, <2>1, <2>2
  <2> QED
      BY <1>7, <2>3 DEF Writers, SaveAt, WriteAt
<1>8. CASE op[c] = "newStore"
  <2>1. Program[op[c]] = <<"saveStore", "saveCreds", "saveActivity">>
      BY <1>8 DEF Program
  <2>2. pc[c] \in 0..2
      BY <1>1, <2>1
  <2>3. \/ pc[c] = 0 /\ Awaits(c) = "saveStore"
        \/ pc[c] = 1 /\ Awaits(c) = "saveCreds"
        \/ pc[c] = 2 /\ Awaits(c) = "saveActivity"
      BY <1>1, <2>1, <2>2
  <2> QED
      BY <1>8, <2>3 DEF Writers, SaveAt, WriteAt
<1>9. CASE op[c] = "removeStore"
  <2>1. Program[op[c]] = <<"deleteStore", "deleteCreds">>
      BY <1>9 DEF Program
  <2>2. pc[c] \in 0..1
      BY <1>1, <2>1
  <2>3. \/ pc[c] = 0 /\ Awaits(c) = "deleteStore"
        \/ pc[c] = 1 /\ Awaits(c) = "deleteCreds"
      BY <1>1, <2>1, <2>2
  <2> QED
      BY <1>9, <2>3 DEF Writers, SaveAt, WriteAt
<1>10. CASE op[c] = "switchStore"
  <2>1. Program[op[c]] = <<"switch", "switchActivity">>
      BY <1>10 DEF Program
  <2>2. pc[c] \in 0..1
      BY <1>1, <2>1
  <2>3. \/ pc[c] = 0 /\ Awaits(c) = "switch"
        \/ pc[c] = 1 /\ Awaits(c) = "switchActivity"
      BY <1>1, <2>1, <2>2
  <2> QED
      BY <1>10, <2>3 DEF Writers, SaveAt, WriteAt
<1>11. CASE op[c] = "addCallback"
  <2>1. Program[op[c]] = <<"upsert">>
      BY <1>11 DEF Program
  <2>2. pc[c] \in 0..0
      BY <1>1, <2>1
  <2>3. \/ pc[c] = 0 /\ Awaits(c) = "upsert"
      BY <1>1, <2>1, <2>2
  <2> QED
      BY <1>11, <2>3 DEF Writers, SaveAt, WriteAt
<1>12. CASE op[c] = "removeDeposits"
  <2>1. Program[op[c]] = <<"deleteDeposits">>
      BY <1>12 DEF Program
  <2>2. pc[c] \in 0..0
      BY <1>1, <2>1
  <2>3. \/ pc[c] = 0 /\ Awaits(c) = "deleteDeposits"
      BY <1>1, <2>1, <2>2
  <2> QED
      BY <1>12, <2>3 DEF Writers, SaveAt, WriteAt
<1>13. CASE op[c] = "removeWithdraws"
  <2>1. Program[op[c]] = <<"deleteWithdraws">>
      BY <1>13 DEF Program
  <2>2. pc[c] \in 0..0
      BY <1>1, <2>1
  <2>3. \/ pc[c] = 0 /\ Awaits(c) = "deleteWithdraws"
      BY <1>1, <2>1, <2>2
  <2> QED
      BY <1>13, <2>3 DEF Writers, SaveAt, WriteAt
<1>14. CASE op[c] = "removeActivity"
  <2>1. Program[op[c]] = <<"deleteActivity">>
      BY <1>14 DEF Program
  <2>2. pc[c] \in 0..0
      BY <1>1, <2>1
  <2>3. \/ pc[c] = 0 /\ Awaits(c) = "deleteActivity"
      BY <1>1, <2>1, <2>2
  <2> QED
      BY <1>14, <2>3 DEF Writers, SaveAt, WriteAt
<1> QED
    BY Handlers, <1>1, <1>2, <1>3, <1>4, <1>5, <1>6, <1>7, <1>8, <1>9, <1>10,
       <1>11, <1>12, <1>13, <1>14

TypeInv == TypeOK /\ \A c \in Call : Placed(c) /\ Named(c)

LEMMA HandlersAreShort ==
    \A o \in DOMAIN Program : Len(Program[o]) \in 1..8 /\ 0 < Len(Program[o])
BY DEF Program

LEMMA Advances ==
    ASSUME TypeInv, NEW c \in Call, UnderWay(c), Advance(c) \/ Answer(c), op' = op
    PROVE  /\ pc' \in [Call -> 0..Over]
           /\ \A d \in Call : Placed(d)'
           /\ \A d \in Call \ {c} : pc'[d] = pc[d]
           /\ pc'[c] = Over \/ (Advance(c) /\ pc'[c] = pc[c] + 1)
<1>1. /\ op[c] \in DOMAIN Program
      /\ pc \in [Call -> 0..Over]
      /\ pc[c] \in 0..Over /\ pc[c] < Len(Program[op[c]])
  <2>1. op \in [Call -> DOMAIN Program \cup {"none"}] /\ pc \in [Call -> 0..Over]
      BY DEF TypeInv, TypeOK
  <2>2. Placed(c)
      BY DEF TypeInv
  <2> QED
      BY <2>1, <2>2 DEF UnderWay, Placed
<1>2. Len(Program[op[c]]) \in 1..8
    BY <1>1, HandlersAreShort
<1>3. CASE Answer(c)
  <2>1. pc' = [pc EXCEPT ![c] = Over]
      BY <1>3 DEF Answer
  <2>2. ASSUME NEW d \in Call PROVE Placed(d)'
    <3>1. Placed(d)
        BY DEF TypeInv
    <3> QED
        BY <1>1, <2>1, <3>1 DEF Placed, UnderWay
  <2> QED
      BY <1>1, <2>1, <2>2 DEF Over
<1>4. CASE Advance(c)
  <2>1. pc' = [pc EXCEPT ![c] = IF pc[c] + 1 = Len(Program[op[c]])
                               THEN Over ELSE pc[c] + 1]
      BY <1>4 DEF Advance
  <2>2. /\ pc'[c] = Over \/ (pc'[c] = pc[c] + 1 /\ pc'[c] < Len(Program[op[c]]))
        /\ pc'[c] \in 0..Over
        /\ \A d \in Call \ {c} : pc'[d] = pc[d]
    <3> DEFINE length == Len(Program[op[c]])
    <3>1. pc[c] \in 0..99 /\ length \in 1..8 /\ pc[c] < length
        BY <1>1, <1>2 DEF Over
    <3>2. /\ pc'[c] = IF pc[c] + 1 = length THEN 99 ELSE pc[c] + 1
          /\ \A d \in Call \ {c} : pc'[d] = pc[d]
        BY <1>1, <2>1 DEF Over
    <3> HIDE DEF length
    <3>3. /\ pc'[c] = 99 \/ (pc'[c] = pc[c] + 1 /\ pc'[c] < length)
          /\ pc'[c] \in 0..99
        BY <3>1, <3>2
    <3> QED
        BY <3>2, <3>3 DEF Over, length
  <2>3. ASSUME NEW d \in Call PROVE Placed(d)'
    <3>1. Placed(d)
        BY DEF TypeInv
    <3> QED
        BY <1>1, <2>2, <3>1 DEF Placed, UnderWay
  <2>4. pc' \in [Call -> 0..Over]
      BY <1>1, <2>1, <2>2
  <2> QED
      BY <1>4, <2>2, <2>3, <2>4
<1> QED
    BY <1>3, <1>4

\* A nonempty set of transactions has a latest one: take the one that fewest
\* of the set are as late as.
LEMMA Latest ==
    ASSUME NEW S, S \subseteq Tx, S # {}
    PROVE  Max(S) \in S
<1>1. S \subseteq Nat /\ IsFiniteSet(S)
    BY TxAssumption, FS_Subset
<1> DEFINE Later(x) == {y \in S : y >= x}
           Sets == {Later(x) : x \in S}
<1>2. IsWellFoundedOn(StrictSubsetOrdering(S), SUBSET S)
    BY <1>1, FS_StrictSubsetOrderingWellFounded, FS_FiniteSubsetsOfFinite
<1>3. Sets \subseteq SUBSET S /\ Sets # {}
    OBVIOUS
<1>4. PICK U \in Sets : \A V \in Sets : <<V, U>> \notin StrictSubsetOrdering(S)
  <2> HIDE DEF Sets
  <2> QED
      BY <1>2, <1>3, WFMin
<1>5. PICK x \in S : U = Later(x)
    BY <1>4
<1>6. ASSUME NEW y \in S PROVE x >= y
  <2> SUFFICES ASSUME ~(x >= y) PROVE FALSE
      OBVIOUS
  <2>1. x \in Nat /\ y \in Nat /\ y > x
      BY <1>1
  <2>2. Later(y) \subseteq Later(x) /\ x \in Later(x) /\ x \notin Later(y)
    <3>1. \A z \in S : z \in Nat /\ (z >= y => z >= x)
        BY <1>1, <2>1
    <3>2. x >= x /\ ~(x >= y)
        BY <2>1
    <3> QED
        BY <3>1, <3>2
  <2>3. <<Later(y), U>> \in StrictSubsetOrdering(S)
      BY <1>5, <2>2 DEF StrictSubsetOrdering
  <2> QED
      BY <1>4, <2>3
<1> QED
    BY <1>6 DEF Max

\* What the handlers store is a record of totals.
LEMMA TotalsStored ==
    ASSUME TypeOK, NEW c \in Call
    PROVE  /\ FirstTotals(c) \in Totals
           /\ /\ seen[c] \in Totals
              /\ op[c] \in {"txCreate", "trigger", "confirm", "deposit", "withdraw"}
              => \A doc \in Totals : Sum(c, doc) \in Totals
<1>1. FirstTotals(c) \in Totals
    BY DEF FirstTotals, Totals
<1>2. ASSUME seen[c] \in Totals, NEW doc \in Totals,
             op[c] \in {"txCreate", "trigger", "confirm", "deposit", "withdraw"}
      PROVE  Sum(c, doc) \in Totals
  <2> DEFINE n == seen[c].total + 1
             d == seen[c].deposits + 1
             w == seen[c].withdraws + 1
             v == seen[c].withdraws
  <2>1. n \in Nat /\ d \in Nat /\ w \in Nat /\ v \in Nat
      BY <1>2 DEF Totals
  <2>2. \/ Sum(c, doc) = [doc EXCEPT !.total = n, !.deposits = n]
        \/ Sum(c, doc) = [doc EXCEPT !.total = n, !.deposits = d, !.withdraws = v]
        \/ Sum(c, doc) = [doc EXCEPT !.total = n, !.deposits = d]
        \/ Sum(c, doc) = [doc EXCEPT !.total = n, !.withdraws = w]
      BY <1>2 DEF Sum
  <2> HIDE DEF n, d, w, v
  <2> QED
      BY <1>2, <2>1, <2>2 DEF Totals
<1> QED
    BY <1>1, <1>2

LEMMA Appended ==
    ASSUME NEW s \in Seq(Totals), NEW doc \in Totals
    PROVE  Append(s, doc) \in Seq(Totals)
OBVIOUS

LEMMA Rewritten ==
    ASSUME NEW n \in Nat, NEW docs \in [1..n -> Totals]
    PROVE  docs \in Seq(Totals)
OBVIOUS

LEMMA TypeInit == Init => TypeInv
<1> SUFFICES ASSUME Init PROVE TypeInv
    OBVIOUS
<1>1. activity \in Seq(Totals)
  <2> DEFINE doc == [id |-> None, total |-> 0, deposits |-> 0, withdraws |-> 0]
  <2>1. doc \in Totals
      BY DEF Totals
  <2>2. activity = <<doc>> \/ activity = <<>>
      BY DEF Init
  <2> HIDE DEF doc
  <2>3. <<doc>> = Append(<<>>, doc) /\ <<>> \in Seq(Totals)
      OBVIOUS
  <2> QED
      BY <2>1, <2>2, <2>3, Appended
<1>2. TypeOK
  <2>1. /\ store \in Enviroment \cup {"absent"} /\ creds \in BOOLEAN
        /\ transfer \in [Tx -> {"Started", "Received", "Complete"}]
        /\ status \in [TxId -> Status]
      BY DEF Init, Status
  <2>2. /\ op \in [Call -> DOMAIN Program \cup {"none"}]
        /\ tx \in [Call -> TxId \cup {None}]
        /\ env \in [Call -> Enviroment \cup {"absent"}]
        /\ seen \in [Call -> Totals \cup {None}]
        /\ pc \in [Call -> 0..Over]
      BY DEF Init, Over
  <2> QED
      BY <1>1, <2>1, <2>2 DEF Init, TypeOK
<1>3. \A c \in Call : Placed(c) /\ Named(c)
    BY DEF Init, Placed, Named, UnderWay
<1> QED
    BY <1>2, <1>3 DEF TypeInv

\* A step of a handler goes on to the next await or ends the call.
LEMMA StepAdvances ==
    ASSUME NEW c \in Call, Step(c)
    PROVE  op' = op /\ (Advance(c) \/ Answer(c))
BY DEF Step, FindStore, FindPending, FindTx, MarkTx, SaveTx, SetTransfer,
       Schedule, SaveDeposit, SaveWithdraw, FindActivity, WriteActivity, Remove,
       SaveStore, SaveCreds, SaveActivity, DeleteStore, DeleteCreds, Switch,
       SwitchActivity, Upsert, Fail, local

\* What each step writes has the type of the variable it writes.
LEMMA StepTypes ==
    ASSUME TypeInv, NEW c \in Call, UnderWay(c), Step(c)
    PROVE  TypeOK'
<1> USE DEF stores, books, txs, local, ghosts
<1>1. /\ TypeOK /\ Placed(c) /\ Named(c)
      /\ op \in [Call -> DOMAIN Program \cup {"none"}]
      /\ tx[c] \in TxId \cup {None} /\ tx \in [Call -> TxId \cup {None}]
      /\ activity \in Seq(Totals) /\ Len(activity) \in Nat
      /\ seen[c] \in Totals \cup {None} /\ seen \in [Call -> Totals \cup {None}]
      /\ status \in [TxId -> Status]
    BY DEF TypeInv, TypeOK
<1>2. /\ pc' \in [Call -> 0..Over] /\ op' = op
    BY Advances, StepAdvances
<1> HIDE DEF Totals
<1> USE DEF TypeOK
<1>3. CASE FindStore(c)
    BY <1>1, <1>2, <1>3 DEF FindStore
<1>4. CASE FindPending(c)
  <2>1. races' \subseteq SUBSET Call
    <3>1. races' = races \/ \E C \in SUBSET Call :
                               races' = races \cup {{c, d} : d \in C}
        BY <1>4 DEF FindPending, Running
    <3>2. \A C \in SUBSET Call : {{c, d} : d \in C} \subseteq SUBSET Call
        OBVIOUS
    <3>3. races \subseteq SUBSET Call
        BY <1>1
    <3> HIDE DEF TypeOK
    <3> QED
        BY <3>1, <3>2, <3>3
  <2>2. tx' \in [Call -> TxId \cup {None}]
    <3> DEFINE pending == {t \in Tx : status[t] = "Pending"}
    <3>1. pending # {} => Max(pending) \in pending
        BY Latest
    <3>2. tx' = tx \/ (pending # {} /\ tx' = [tx EXCEPT ![c] = Max(pending)])
        BY <1>4 DEF FindPending
    <3> HIDE DEF pending
    <3>3. pending \subseteq TxId
        BY DEF pending, TxId
    <3>4. tx' = tx \/ \E t \in TxId : tx' = [tx EXCEPT ![c] = t]
        BY <3>1, <3>2, <3>3
    <3> HIDE DEF TypeOK
    <3> QED
        BY <1>1, <3>4
  <2> QED
      BY <1>1, <1>2, <1>4, <2>1, <2>2 DEF FindPending
<1>5. CASE FindTx(c)
  <2>1. tx' \in [Call -> TxId \cup {None}]
    <3>1. {d \in Call : status[d] # "absent"} \subseteq TxId
        BY DEF TxId
    <3>2. tx' = tx \/ \E t \in TxId \cup {None} : tx' = [tx EXCEPT ![c] = t]
        BY <1>1, <1>5, <3>1 DEF FindTx
    <3> HIDE DEF TypeOK
    <3>3. CASE tx' = tx
        BY <1>1, <3>3
    <3>4. ASSUME NEW t \in TxId \cup {None}, tx' = [tx EXCEPT ![c] = t]
          PROVE  tx' \in [Call -> TxId \cup {None}]
      <4>1. tx \in [Call -> TxId \cup {None}]
          BY <1>1
      <4> QED
          BY <3>4, <4>1
    <3> QED
        BY <3>2, <3>3, <3>4
  <2> QED
      BY <1>1, <1>2, <1>5, <2>1 DEF FindTx
<1>6. CASE MarkTx(c)
  <2>1. status' \in [TxId -> Status]
      BY <1>1, <1>6 DEF MarkTx, Status
  <2> QED
      BY <1>1, <1>2, <1>6, <2>1 DEF MarkTx
<1>7. CASE \E s \in {"Pending", "Done"} : SaveTx(c, s)
  <2>1. /\ status' \in [TxId -> Status]
        /\ tx' \in [Call -> TxId \cup {None}]
      BY <1>1, <1>7 DEF SaveTx, Status, TxId
  <2> QED
      BY <1>1, <1>2, <1>7, <2>1 DEF SaveTx
<1>8. CASE SetTransfer(c)
    BY <1>1, <1>2, <1>8 DEF SetTransfer
<1>9. CASE Schedule(c)
  <2>1. timers' \subseteq TxId
    <3>1. tx[c] \in TxId
        BY <1>1, <1>9, Where DEF Schedule, At, Named, TxId
    <3> QED
        BY <1>1, <1>9, <3>1 DEF Schedule
  <2> QED
      BY <1>1, <1>2, <1>9, <2>1 DEF Schedule, Forget
<1>10. CASE SaveDeposit(c)
    BY <1>1, <1>2, <1>10 DEF SaveDeposit
<1>11. CASE SaveWithdraw(c)
    BY <1>1, <1>2, <1>11 DEF SaveWithdraw
<1>12. CASE FindActivity(c)
  <2>1. activity # <<>> => Head(activity) \in Totals
      BY <1>1
  <2>2. seen' \in [Call -> Totals \cup {None}]
      BY <1>1, <1>12, <2>1 DEF FindActivity
  <2>3. disturbed' \in BOOLEAN
      BY <1>12 DEF FindActivity
  <2> QED
      BY <1>1, <1>2, <1>12, <2>2, <2>3 DEF FindActivity
<1>13. CASE WriteActivity(c)
  <2>1. /\ FirstTotals(c) \in Totals
        /\ seen[c] # None => \A doc \in Totals : Sum(c, doc) \in Totals
    <3>1. op[c] \in {"txCreate", "trigger", "confirm", "deposit", "withdraw"}
        BY <1>1, <1>13, Where DEF WriteActivity, At
    <3> QED
        BY <1>1, <3>1, TotalsStored
  <2>2. activity' \in Seq(Totals)
    <3>1. CASE seen[c] = None
      <4>1. activity' = Append(activity, FirstTotals(c))
          BY <1>13, <3>1 DEF WriteActivity
      <4> HIDE DEF TypeOK
      <4>2. activity \in Seq(Totals) /\ FirstTotals(c) \in Totals
          BY <1>1, <2>1
      <4> QED
          BY <4>1, <4>2, Appended
    <3>2. CASE seen[c] # None
      <4>1. activity' = [i \in 1..Len(activity) |->
                IF i \in Replaced(c) THEN Sum(c, activity[i]) ELSE activity[i]]
          BY <1>13, <3>2 DEF WriteActivity
      <4>2. \A i \in 1..Len(activity) : activity[i] \in Totals
          BY <1>1
      <4>3. activity' \in [1..Len(activity) -> Totals]
          BY <2>1, <3>2, <4>1, <4>2
      <4> QED
          BY <1>1, <4>3, Rewritten
    <3> QED
        BY <3>1, <3>2
  <2>3. seen' \in [Call -> Totals \cup {None}]
      BY <1>1, <1>13 DEF WriteActivity
  <2> QED
      BY <1>1, <1>2, <1>13, <2>2, <2>3 DEF WriteActivity
<1>14. CASE Remove(c)
  <2>1. activity' \in Seq(Totals)
      BY <1>1, <1>14 DEF Remove
  <2>2. disturbed' \in BOOLEAN
      BY <1>14 DEF Remove
  <2> QED
      BY <1>1, <1>2, <1>14, <2>1, <2>2 DEF Remove
<1>15. CASE SaveStore(c) \/ SaveCreds(c) \/ DeleteCreds(c)
    BY <1>1, <1>2, <1>15 DEF SaveStore, SaveCreds, DeleteCreds, Enviroment
<1>16. CASE SaveActivity(c)
  <2> DEFINE doc == [id |-> c, total |-> 0, deposits |-> 0, withdraws |-> 0]
  <2>1. doc \in Totals
      BY DEF Totals
  <2>2. activity' = Append(activity, doc)
      BY <1>16 DEF SaveActivity
  <2> HIDE DEF doc
  <2>3. activity' \in Seq(Totals)
      BY <1>1, <2>1, <2>2, Appended
  <2>4. disturbed' \in BOOLEAN
      BY <1>16 DEF SaveActivity
  <2> QED
      BY <1>1, <1>2, <1>16, <2>3, <2>4 DEF SaveActivity
<1>17. CASE DeleteStore(c)
  <2>1. \E C \in SUBSET Call : races' = races \cup {{c, d} : d \in C}
      BY <1>17 DEF DeleteStore
  <2>2. races' \subseteq SUBSET Call
    <3>1. \A C \in SUBSET Call : {{c, d} : d \in C} \subseteq SUBSET Call
        OBVIOUS
    <3>2. races \subseteq SUBSET Call
        BY <1>1
    <3> HIDE DEF TypeOK
    <3> QED
        BY <2>1, <3>1, <3>2
  <2> QED
      BY <1>1, <1>2, <1>17, <2>2 DEF DeleteStore
<1>18. CASE Switch(c) \/ SwitchActivity(c) \/ Upsert(c)
    BY <1>1, <1>2, <1>18 DEF Switch, SwitchActivity, Upsert, Enviroment
<1>19. CASE Fail(c)
    BY <1>1, <1>2, <1>19 DEF Fail, Forget
<1> QED
    BY <1>3, <1>4, <1>5, <1>6, <1>7, <1>8, <1>9, <1>10, <1>11, <1>12, <1>13,
       <1>14, <1>15, <1>16, <1>17, <1>18, <1>19 DEF Step

\* Which transaction a call is about.
LEMMA StepNames ==
    ASSUME TypeInv, NEW c \in Call, UnderWay(c), Step(c)
    PROVE  Named(c)'
<1>1. TypeOK /\ Placed(c) /\ Named(c) /\ pc[c] \in 0..Over /\ pc' \in [Call -> 0..Over]
    BY Advances, StepAdvances DEF TypeInv, TypeOK
<1>2. op' = op /\ (pc'[c] = Over \/ (Advance(c) /\ pc'[c] = pc[c] + 1))
    BY Advances, StepAdvances
<1>3. CASE FindPending(c)
  <2>1. op[c] = "trigger"
      BY <1>1, <1>3, Where DEF FindPending, At
  <2>2. pc'[c] # Over => tx'[c] \in Tx
    <3> DEFINE pending == {t \in Tx : status[t] = "Pending"}
    <3>1. pending # {} => Max(pending) \in Tx
      <4>1. pending \subseteq Tx
          OBVIOUS
      <4> HIDE DEF pending
      <4> QED
          BY <4>1, Latest
    <3>2. Answer(c) \/ (pending # {} /\ tx' = [tx EXCEPT ![c] = Max(pending)])
        BY <1>3 DEF FindPending
    <3> HIDE DEF pending
    <3> QED
        BY <1>1, <3>1, <3>2 DEF Answer, TypeOK
  <2> QED
      BY <1>2, <2>1, <2>2 DEF Named, Over
<1>4. CASE FindTx(c)
  <2>1. op[c] = "confirm"
      BY <1>1, <1>4, Where DEF FindTx, At
  <2>2. tx'[c] \in TxId
    <3>1. {d \in Call : status[d] # "absent"} \subseteq TxId
        BY DEF TxId
    <3>2. tx' = tx \/ \E t \in TxId : tx' = [tx EXCEPT ![c] = t]
        BY <1>1, <1>4, <2>1, <3>1 DEF FindTx, Named
    <3> QED
        BY <1>1, <2>1, <3>2 DEF Named, TypeOK
  <2> QED
      BY <1>2, <2>1, <2>2 DEF Named
<1>5. ASSUME NEW s, SaveTx(c, s) PROVE Named(c)'
  <2>1. op[c] = "txCreate" /\ tx'[c] = c
      BY <1>1, <1>5, Where DEF SaveTx, At, TypeOK
  <2> QED
      BY <1>2, <2>1 DEF Named
<1>6. CASE /\ ~FindPending(c) /\ ~FindTx(c)
           /\ \A s \in {"Pending", "Done"} : ~SaveTx(c, s)
  <2>1. tx' = tx
      BY <1>6 DEF Step, FindStore, MarkTx, SetTransfer, Schedule, SaveDeposit,
         SaveWithdraw, FindActivity, WriteActivity, Remove, SaveStore, SaveCreds,
         SaveActivity, DeleteStore, DeleteCreds, Switch, SwitchActivity, Upsert,
         Fail, local
  <2>2. op[c] = "trigger" /\ pc[c] = 0 => pc'[c] = Over
    <3> SUFFICES ASSUME op[c] = "trigger", pc[c] = 0, pc'[c] # Over PROVE FALSE
        OBVIOUS
    <3>1. Awaits(c) = "findPending"
        BY <1>1, Where
    <3>2. pc \in [Call -> 0..Over]
        BY <1>1 DEF TypeOK
    <3> QED
        BY <1>6, <3>1, <3>2 DEF Step, At, FindStore, MarkTx, SetTransfer, Schedule,
           SaveDeposit, SaveWithdraw, FindActivity, WriteActivity, Remove,
           SaveStore, SaveCreds, SaveActivity, DeleteStore, DeleteCreds, Switch,
           SwitchActivity, Upsert, Fail, Answer
  <2>3. op[c] = "txCreate" /\ pc[c] = 1 => pc'[c] = Over
    <3> SUFFICES ASSUME op[c] = "txCreate", pc[c] = 1, pc'[c] # Over PROVE FALSE
        OBVIOUS
    <3>1. Awaits(c) = "saveTx"
        BY <1>1, Where
    <3>2. pc \in [Call -> 0..Over]
        BY <1>1 DEF TypeOK
    <3> QED
        BY <1>6, <3>1, <3>2 DEF Step, At, FindStore, MarkTx, SetTransfer, Schedule,
           SaveDeposit, SaveWithdraw, FindActivity, WriteActivity, Remove,
           SaveStore, SaveCreds, SaveActivity, DeleteStore, DeleteCreds, Switch,
           SwitchActivity, Upsert, Fail, Answer
  <2> QED
      BY <1>1, <1>2, <2>1, <2>2, <2>3 DEF Named, Over
<1> QED
    BY <1>3, <1>4, <1>5, <1>6

\* A step changes the transaction of its own call only.
LEMMA OthersNamed ==
    ASSUME TypeInv, NEW c \in Call, UnderWay(c), Step(c), NEW d \in Call \ {c}
    PROVE  tx'[d] = tx[d] /\ pc'[d] = pc[d] /\ op'[d] = op[d]
<1>1. pc'[d] = pc[d] /\ op' = op
    BY Advances, StepAdvances
<1>2. tx'[d] = tx[d]
    BY DEF TypeInv, TypeOK, Step, FindStore, FindPending, FindTx, MarkTx, SaveTx,
       SetTransfer, Schedule, SaveDeposit, SaveWithdraw, FindActivity,
       WriteActivity, Remove, SaveStore, SaveCreds, SaveActivity, DeleteStore,
       DeleteCreds, Switch, SwitchActivity, Upsert, Fail, local
<1> QED
    BY <1>1, <1>2

LEMMA TypeNext == TypeInv /\ [Next]_vars => TypeInv'
<1> SUFFICES ASSUME TypeInv, [Next]_vars PROVE TypeInv'
    OBVIOUS
<1> USE DEF stores, books, txs, local, ghosts
<1>1. ASSUME NEW c \in Call, NEW o \in Ops, NEW t \in TxId \cup {None}, Start(c, o, t)
      PROVE  TypeInv'
  <2>1. TypeOK'
      BY <1>1, OpsAssumption DEF Start, TypeInv, TypeOK
  <2>2. ASSUME NEW d \in Call PROVE Placed(d)' /\ Named(d)'
    <3>1. o \in DOMAIN Program /\ op \in [Call -> DOMAIN Program \cup {"none"}]
        BY <1>1, OpsAssumption DEF TypeInv, TypeOK
    <3>2. Len(Program[o]) \in 1..8 /\ Placed(d)
        BY <3>1, HandlersAreShort DEF TypeInv
    <3>3. d = c => pc[d] = 0
        BY <1>1, <3>2 DEF Start, Placed
    <3>4. pc' = pc /\ op' = [op EXCEPT ![c] = o] /\ tx' = [tx EXCEPT ![c] = t]
        BY <1>1 DEF Start
    <3>5. Placed(d)'
      <4>1. CASE d = c
        <5>1. op'[d] = o /\ pc'[d] = 0 /\ o # "none"
            BY <3>1, <3>3, <3>4, <4>1, Handlers
        <5>2. 0 < Len(Program[o])
            BY <3>1, HandlersAreShort
        <5>3. 0 < Len(Program[op'[d]])
            BY <5>1, <5>2
        <5> QED
            BY <5>1, <5>3 DEF Placed
      <4>2. CASE d # c
          BY <3>1, <3>2, <3>4, <4>2 DEF Placed, UnderWay
      <4> QED
          BY <4>1, <4>2
    <3>6. Named(d)'
      <4>1. CASE d = c
        <5>1. op'[d] = o /\ pc'[d] = 0 /\ tx'[d] = t
            BY <3>1, <3>3, <3>4, <4>1 DEF TypeInv, TypeOK
        <5>2. o = "confirm" => t \in Tx
            BY <1>1 DEF Start
        <5> QED
            BY <5>1, <5>2 DEF Named, TxId
      <4>2. CASE d # c
        <5>1. op'[d] = op[d] /\ tx'[d] = tx[d] /\ Named(d)
            BY <3>1, <3>4, <4>2 DEF TypeInv, TypeOK
        <5> QED
            BY <3>4, <5>1 DEF Named
      <4> QED
          BY <4>1, <4>2
    <3> QED
        BY <3>5, <3>6
  <2> QED
      BY <2>1, <2>2 DEF TypeInv
<1>2. ASSUME NEW c \in Running, Step(c) PROVE TypeInv'
  <2>1. UnderWay(c)
      BY DEF Running
  <2>2. TypeOK' /\ Named(c)' /\ \A d \in Call : Placed(d)'
      BY <1>2, <2>1, StepTypes, StepNames, StepAdvances, Advances DEF Running
  <2>3. ASSUME NEW d \in Call \ {c} PROVE Named(d)'
      BY <1>2, <2>1, OthersNamed DEF Running, TypeInv, Named
  <2> QED
      BY <2>2, <2>3 DEF TypeInv
<1>3. ASSUME NEW t \in TxId, Callback(t) PROVE TypeInv'
  <2>1. status' \in [TxId -> Status]
      BY <1>3 DEF Callback, TypeInv, TypeOK, Status
  <2> QED
      BY <1>3, <2>1 DEF Callback, TypeInv, TypeOK, Placed, Named, UnderWay
<1>4. CASE Crash
  <2>1. TypeOK'
      BY <1>4 DEF Crash, Forget, Running, TypeInv, TypeOK, Over
  <2>2. ASSUME NEW d \in Call PROVE Placed(d)' /\ Named(d)'
    <3>1. Placed(d) /\ Named(d)
        BY DEF TypeInv
    <3>2. /\ op' = op /\ tx' = tx
          /\ (pc'[d] = Over /\ UnderWay(d)) \/ pc'[d] = pc[d]
        BY <1>4 DEF Crash, Running
    <3> QED
        BY <3>1, <3>2 DEF Placed, Named, UnderWay, Over
  <2> QED
      BY <2>1, <2>2 DEF TypeInv
<1>5. CASE UNCHANGED vars
    BY <1>5 DEF vars, TypeInv, TypeOK, Placed, Named, UnderWay
<1> QED
    BY <1>1, <1>2, <1>3, <1>4, <1>5 DEF Next

LEMMA TypeInvariance == Spec => []TypeInv
<1> QED
    BY TypeInit, TypeNext, PTL DEF Spec

\* The books of a store keep their types in every behaviour.
THEOREM Typed == Spec => []TypeOK
<1>1. TypeInv => TypeOK
    BY DEF TypeInv
<1> QED
    BY <1>1, TypeInvariance, PTL

-----------------------------------------------------------------------------
(***************************************************************************)
(* Deposits of the webhook.                                                *)
(***************************************************************************)
Kept(d) ==
    /\ op'[d] = op[d] /\ tx'[d] = tx[d] /\ pc'[d] = pc[d]
    /\ \A t \in TxId \cup {None} : <<d, t>> \in deposits' => <<d, t>> \in deposits

Grow == races \subseteq races' /\ cut \subseteq cut'

LEMMA StepGrows == [Next]_vars => Grow
<1> SUFFICES ASSUME [Next]_vars PROVE Grow
    OBVIOUS
<1> USE DEF Grow, ghosts
<1>1. ASSUME NEW c \in Call, Step(c) PROVE Grow
    BY <1>1 DEF Step, FindStore, FindPending, FindTx, MarkTx, SaveTx, SetTransfer,
       Schedule, SaveDeposit, SaveWithdraw, FindActivity, WriteActivity, Remove,
       SaveStore, SaveCreds, SaveActivity, DeleteStore, DeleteCreds, Switch,
       SwitchActivity, Upsert, Fail
<1>2. ASSUME NEW c \in Call, NEW o \in Ops, NEW t \in TxId \cup {None}, Start(c, o, t)
      PROVE  Grow
    BY <1>2 DEF Start
<1>3. CASE Crash \/ \E t \in TxId : Callback(t)
    BY <1>3 DEF Crash, Callback
<1>4. CASE UNCHANGED vars
    BY <1>4 DEF vars
<1> QED
    BY <1>1, <1>2, <1>3, <1>4 DEF Next, Running

LEMMA OthersKept ==
    ASSUME TypeInv, NEW c \in Call, UnderWay(c), Step(c), NEW d \in Call \ {c}
    PROVE  Kept(d)
<1>1. CASE SaveDeposit(c)
    BY <1>1, OthersNamed DEF SaveDeposit, Kept
<1>2. CASE Remove(c)
    BY <1>2, OthersNamed DEF Remove, Kept
<1>3. CASE ~SaveDeposit(c) /\ ~Remove(c)
  <2>1. deposits' = deposits
      BY <1>3 DEF Step, FindStore, FindPending, FindTx, MarkTx, SaveTx,
         SetTransfer, Schedule, SaveWithdraw, FindActivity, WriteActivity,
         SaveStore, SaveCreds, SaveActivity, DeleteStore, DeleteCreds, Switch,
         SwitchActivity, Upsert, Fail, books
  <2> QED
      BY <2>1, OthersNamed DEF Kept
<1> QED
    BY <1>1, <1>2, <1>3

\* A transaction that was paid is never Pending again.
LEMMA PaidStays ==
    ASSUME TypeInv, [Next]_vars, NEW t \in Tx, status[t] # "Pending"
    PROVE  status'[t] # "Pending"
<1>1. status \in [TxId -> Status] /\ t \in TxId
    BY DEF TypeInv, TypeOK, TxId
<1>2. ASSUME NEW c \in Call, Step(c) PROVE status'[t] # "Pending"
  <2>1. CASE MarkTx(c)
      BY <1>1, <2>1 DEF MarkTx
  <2>2. ASSUME NEW s, SaveTx(c, s) PROVE status'[t] # "Pending"
      BY <1>1, <2>2, CallAssumption DEF SaveTx
  <2>3. CASE ~MarkTx(c) /\ \A s \in {"Pending", "Done"} : ~SaveTx(c, s)
      BY <1>2, <2>3 DEF Step, FindStore, FindPending, FindTx, SetTransfer,
         Schedule, SaveDeposit, SaveWithdraw, FindActivity, WriteActivity,
         Remove, SaveStore, SaveCreds, SaveActivity, DeleteStore, DeleteCreds,
         Switch, SwitchActivity, Upsert, Fail, txs
  <2> QED
      BY <2>1, <2>2, <2>3
<1>3. ASSUME NEW u \in TxId, Callback(u) PROVE status'[t] # "Pending"
    BY <1>1, <1>3 DEF Callback
<1> QED
    BY <1>2, <1>3 DEF Next, Running, Crash, Start, vars, txs

\* What a step does to the call whose step it is, when that is a webhook's.
LEMMA TriggerStep ==
    ASSUME TypeInv, NEW c \in Call, UnderWay(c), Step(c), op[c] = "trigger"
    PROVE  /\ op'[c] = "trigger"
           /\ pc'[c] = Over \/ pc'[c] = pc[c] + 1
           /\ pc[c] \in 0..7
           /\ pc[c] = 0 => FindPending(c) \/ pc'[c] = Over
           /\ pc[c] # 0 => tx'[c] = tx[c]
           /\ pc[c] = 2 => pc'[c] # Over \/ c \in cut'
           /\ pc[c] = 3 => \/ tx[c] \in Tx /\ status'[tx[c]] # "Pending"
                           \/ c \in cut'
           /\ \A t \in TxId \cup {None} :
                 <<c, t>> \in deposits' /\ <<c, t>> \notin deposits =>
                    t = tx[c] /\ pc[c] = 2 /\ pc'[c] = 3
<1>1. TypeOK /\ Placed(c) /\ Named(c) /\ pc[c] \in 0..Over
    BY DEF TypeInv, TypeOK
<1>2. /\ op' = op
      /\ pc'[c] = Over \/ (Advance(c) /\ pc'[c] = pc[c] + 1)
    BY Advances, StepAdvances
<1>3. \/ pc[c] = 0 /\ Awaits(c) = "findPending"
      \/ pc[c] = 1 /\ Awaits(c) = "findStore"
      \/ pc[c] = 2 /\ Awaits(c) = "saveDeposit"
      \/ pc[c] = 3 /\ Awaits(c) = "markTx"
      \/ pc[c] \in 4..7 /\ Awaits(c) \in {"findActivity",
             "writeActivity", "schedule", "setTransfer"}
    BY <1>1, Where
<1>4. Len(Program[op[c]]) = 8
    BY DEF Program
<1>5. pc \in [Call -> 0..Over]
    BY <1>1 DEF TypeOK
<1>6. CASE Fail(c)
    BY <1>2, <1>3, <1>5, <1>6 DEF Fail, Answer, local, books
<1>7. CASE pc[c] = 0 /\ ~Fail(c)
  <2>1. FindPending(c)
      BY <1>3, <1>7 DEF Step, At, FindStore, FindTx, MarkTx, SaveTx, SetTransfer,
         Schedule, SaveDeposit, SaveWithdraw, FindActivity, WriteActivity, Remove,
         SaveStore, SaveCreds, SaveActivity, DeleteStore, DeleteCreds, Switch,
         SwitchActivity, Upsert
  <2> QED
      BY <1>2, <1>7, <2>1 DEF FindPending, books
<1>8. CASE pc[c] = 1 /\ ~Fail(c)
  <2>1. FindStore(c)
      BY <1>3, <1>8 DEF Step, At, FindPending, FindTx, MarkTx, SaveTx,
         SetTransfer, Schedule, SaveDeposit, SaveWithdraw, FindActivity,
         WriteActivity, Remove, SaveStore, SaveCreds, SaveActivity, DeleteStore,
         DeleteCreds, Switch, SwitchActivity, Upsert
  <2> QED
      BY <1>2, <1>8, <2>1 DEF FindStore, books
<1>9. CASE pc[c] = 2 /\ ~Fail(c)
  <2>1. SaveDeposit(c)
      BY <1>3, <1>9 DEF Step, At, FindStore, FindPending, FindTx, MarkTx, SaveTx,
         SetTransfer, Schedule, SaveWithdraw, FindActivity, WriteActivity,
         Remove, SaveStore, SaveCreds, SaveActivity, DeleteStore, DeleteCreds,
         Switch, SwitchActivity, Upsert
  <2>2. pc'[c] = 3
      BY <1>4, <1>5, <1>9, <2>1 DEF SaveDeposit, Advance
  <2> QED
      BY <1>2, <1>9, <2>1, <2>2 DEF SaveDeposit, local, Over
<1>10. CASE pc[c] = 3 /\ ~Fail(c)
  <2>1. MarkTx(c)
      BY <1>3, <1>10 DEF Step, At, FindStore, FindPending, FindTx, SaveTx,
         SetTransfer, Schedule, SaveDeposit, SaveWithdraw, FindActivity,
         WriteActivity, Remove, SaveStore, SaveCreds, SaveActivity, DeleteStore,
         DeleteCreds, Switch, SwitchActivity, Upsert
  <2>2. tx[c] \in Tx
      BY <1>1, <1>10 DEF Named
  <2>3. status'[tx[c]] = "Progress"
      BY <1>1, <2>1, <2>2 DEF MarkTx, TypeOK, TxId
  <2> QED
      BY <1>2, <1>10, <2>1, <2>2, <2>3 DEF MarkTx, local, books
<1>11. CASE pc[c] \in 4..7 /\ ~Fail(c)
  <2>1. FindActivity(c) \/ WriteActivity(c) \/ Schedule(c) \/ SetTransfer(c)
      BY <1>3, <1>11 DEF Step, At, FindStore, FindPending, FindTx, MarkTx,
         SaveTx, SaveDeposit, SaveWithdraw, Remove, SaveStore, SaveCreds,
         SaveActivity, DeleteStore, DeleteCreds, Switch, SwitchActivity, Upsert
  <2>2. tx' = tx /\ deposits' = deposits
      BY <2>1 DEF FindActivity, WriteActivity, Schedule, SetTransfer, local, books
  <2> QED
      BY <1>2, <1>11, <2>2
<1> QED
    BY <1>3, <1>6, <1>7, <1>8, <1>9, <1>10, <1>11

DepositInv == TypeInv /\ (\A c \in Call : Deposited(c)) /\ PairInv

LEMMA KeptKeepsDeposited ==
    ASSUME TypeInv, [Next]_vars, NEW c \in Call, Kept(c), Deposited(c)
    PROVE  Deposited(c)'
<1> SUFFICES ASSUME NEW t \in TxId \cup {None}, <<c, t>> \in deposits'
             PROVE  /\ op'[c] # "none"
                    /\ op'[c] = "trigger" =>
                          /\ t = tx'[c] /\ t \in Tx
                          /\ pc'[c] \notin 0..2
                          /\ c \in cut' \/ pc'[c] = 3 \/ status'[t] # "Pending"
    BY DEF Deposited
<1>1. /\ op[c] # "none"
      /\ op[c] = "trigger" =>
            /\ t = tx[c] /\ t \in Tx
            /\ pc[c] \notin 0..2
            /\ c \in cut \/ pc[c] = 3 \/ status[t] # "Pending"
    BY DEF Kept, Deposited
<1> QED
    BY <1>1, PaidStays, StepGrows DEF Kept, Grow

LEMMA KeptKeepsPairwise ==
    ASSUME NEW c \in Call, NEW d \in Call, Grow, Kept(c), Kept(d), Pairwise(c, d)
    PROVE  Pairwise(c, d)'
<1>1. ASSUME NEW e \in Call, Kept(e), Pays(e)' PROVE Pays(e)
    BY <1>1 DEF Pays, Kept
<1> QED
    BY <1>1 DEF Pairwise, Kept, Grow

LEMMA StepKeepsDeposited ==
    ASSUME TypeInv, [Next]_vars, NEW c \in Call, UnderWay(c), Step(c), Deposited(c)
    PROVE  Deposited(c)'
<1>1. CASE op[c] # "trigger"
    BY <1>1, StepAdvances DEF Deposited, UnderWay
<1>2. CASE op[c] = "trigger"
  <2> SUFFICES ASSUME NEW t \in TxId \cup {None}, <<c, t>> \in deposits'
               PROVE  /\ t = tx'[c] /\ t \in Tx
                      /\ pc'[c] \notin 0..2
                      /\ c \in cut' \/ pc'[c] = 3 \/ status'[t] # "Pending"
      BY <1>2, TriggerStep DEF Deposited
  <2>1. Named(c) /\ cut \subseteq cut'
      BY StepGrows DEF TypeInv, Grow
  <2>2. CASE <<c, t>> \in deposits
    <3>1. /\ t = tx[c] /\ t \in Tx /\ pc[c] \notin 0..2
          /\ c \in cut \/ pc[c] = 3 \/ status[t] # "Pending"
        BY <1>2, <2>2 DEF Deposited
    <3>2. tx'[c] = tx[c] /\ pc'[c] \notin 0..2
        BY <1>2, <3>1, TriggerStep DEF Over
    <3> QED
        BY <1>2, <2>1, <3>1, <3>2, TriggerStep, PaidStays
  <2>3. CASE <<c, t>> \notin deposits
    <3>1. t = tx[c] /\ pc[c] = 2 /\ pc'[c] = 3
        BY <1>2, <2>3, TriggerStep
    <3>2. tx'[c] = tx[c] /\ tx[c] \in Tx
        BY <1>2, <2>1, <3>1, TriggerStep DEF Named
    <3> QED
        BY <3>1, <3>2
  <2> QED
      BY <2>2, <2>3
<1> QED
    BY <1>1, <1>2

\* The case the pair of deliveries is about: c finds a transaction, and d has
\* deposited it or is about to.
LEMMA FindsHeld ==
    ASSUME TypeInv, NEW c \in Call, NEW d \in Call \ {c}, Deposited(d),
           FindPending(c), pc'[c] # Over, Pays(d), tx'[c] = tx[d]
    PROVE  {c, d} \in races' \/ {c, d} \cap cut # {}
<1> DEFINE pending == {t \in Tx : status[t] = "Pending"}
           held == {e \in Running \ {c} : op[e] = "trigger" /\ pc[e] > 0
                                          /\ tx[e] = Max(pending)}
<1>1. pc \in [Call -> 0..Over] /\ tx \in [Call -> TxId \cup {None}]
    BY DEF TypeInv, TypeOK
<1>2. /\ pending # {}
      /\ tx' = [tx EXCEPT ![c] = Max(pending)]
      /\ races' = races \cup {{c, e} : e \in held}
    BY <1>1 DEF FindPending, Answer
<1>3. tx[d] = Max(pending)
    BY <1>1, <1>2
<1>4. Max(pending) \in pending
  <2>1. pending \subseteq Tx
      OBVIOUS
  <2> HIDE DEF pending
  <2> QED
      BY <1>2, <2>1, Latest
<1>5. status[tx[d]] = "Pending"
    BY <1>3, <1>4
<1>6. CASE pc[d] \in 1..3
  <2>1. d \in Running /\ pc[d] > 0
      BY <1>1, <1>6 DEF Running, UnderWay, Pays, Over
  <2>2. d \in held
      BY <1>3, <2>1 DEF Pays
  <2> HIDE DEF held
  <2> QED
      BY <1>2, <2>2
<1>7. CASE pc[d] \notin 1..3
  <2>1. PICK t \in TxId \cup {None} : <<d, t>> \in deposits
      BY <1>7 DEF Pays
  <2>2. d \in cut
      BY <1>5, <1>7, <2>1 DEF Deposited, Pays
  <2> QED
      BY <2>2
<1> QED
    BY <1>6, <1>7

LEMMA StepKeepsPairwise ==
    ASSUME DepositInv, [Next]_vars, NEW c \in Call, UnderWay(c), Step(c),
           NEW d \in Call \ {c}
    PROVE  Pairwise(c, d)'
<1> SUFFICES ASSUME Pays(c)', Pays(d)', tx'[c] = tx'[d]
             PROVE  {c, d} \in races' \/ {c, d} \cap cut' # {}
    BY DEF Pairwise
<1>1. /\ TypeInv /\ Grow /\ Kept(d) /\ Deposited(c) /\ Deposited(d)
      /\ Pairwise(c, d)
    BY OthersKept, StepGrows DEF DepositInv, PairInv
<1>2. Pays(d) /\ tx'[d] = tx[d]
    BY <1>1 DEF Pays, Kept
<1>3. op[c] = "trigger"
    BY StepAdvances DEF Pays
<1>4. CASE Pays(c)
  <2>1. pc[c] # 0
    <3>1. ASSUME NEW t \in TxId \cup {None}, <<c, t>> \in deposits
          PROVE  pc[c] \notin 0..2
        BY <1>1, <1>3, <3>1 DEF Deposited
    <3>2. pc[c] \in 1..2 \/ pc[c] \notin 0..2
        BY <1>4, <3>1 DEF Pays
    <3> QED
        BY <3>2
  <2>2. tx'[c] = tx[c]
      BY <1>1, <1>3, <2>1, TriggerStep
  <2> QED
      BY <1>1, <1>2, <1>4, <2>2 DEF Pairwise, Grow
<1>5. CASE ~Pays(c)
  <2>1. \A t \in TxId \cup {None} : <<c, t>> \notin deposits'
      BY <1>1, <1>3, <1>5, TriggerStep DEF Pays
  <2>2. pc'[c] \in 1..2 /\ pc[c] \notin 1..2
      BY <1>3, <1>5, <2>1 DEF Pays
  <2>3. pc[c] = 0 /\ pc'[c] # Over
      BY <1>1, <1>3, <2>2, TriggerStep DEF Over
  <2>4. FindPending(c)
      BY <1>1, <1>3, <2>3, TriggerStep
  <2> QED
      BY <1>1, <1>2, <2>3, <2>4, FindsHeld DEF Grow
<1> QED
    BY <1>4, <1>5

LEMMA DepositInit == Init => DepositInv
BY TypeInit DEF Init, DepositInv, Deposited, PairInv, Pairwise, Pays

LEMMA DepositNext == DepositInv /\ [Next]_vars => DepositInv'
<1> SUFFICES ASSUME DepositInv, [Next]_vars PROVE DepositInv'
    OBVIOUS
<1>1. TypeInv /\ TypeInv' /\ Grow
    BY TypeNext, StepGrows DEF DepositInv
<1>2. ASSUME NEW c \in Call, UnderWay(c), Step(c) PROVE DepositInv'
  <2>1. ASSUME NEW d \in Call PROVE Deposited(d)'
      BY <1>1, <1>2, <2>1, OthersKept, KeptKeepsDeposited, StepKeepsDeposited
      DEF DepositInv
  <2>2. ASSUME NEW d \in Call, NEW e \in Call, d # e
        PROVE  Pairwise(d, e)'
    <3>1. CASE d = c
        BY <1>2, <2>2, <3>1, StepKeepsPairwise
    <3>2. CASE e = c
      <4>1. Pairwise(e, d)'
          BY <1>2, <2>2, <3>2, StepKeepsPairwise
      <4>2. {e, d} = {d, e}
          OBVIOUS
      <4> QED
          BY <4>1, <4>2 DEF Pairwise
    <3>3. CASE d # c /\ e # c
      <4>1. Kept(d) /\ Kept(e) /\ Pairwise(d, e)
          BY <1>1, <1>2, <2>2, <3>3, OthersKept DEF DepositInv, PairInv
      <4> QED
          BY <1>1, <4>1, KeptKeepsPairwise
    <3> QED
        BY <3>1, <3>2, <3>3
  <2> QED
      BY <1>1, <2>1, <2>2 DEF DepositInv, PairInv
<1>3. ASSUME NEW c \in Call, NEW o \in Ops, NEW t \in TxId \cup {None}, Start(c, o, t)
      PROVE  DepositInv'
  <2>1. op[c] = "none" /\ pc[c] = 0 /\ pc' = pc /\ deposits' = deposits
      BY <1>1, <1>3 DEF Start, TypeInv, Placed, books
  <2>2. \A u \in TxId \cup {None} : <<c, u>> \notin deposits
      BY <2>1 DEF DepositInv, Deposited
  <2>3. ASSUME NEW d \in Call \ {c} PROVE Kept(d)
      BY <1>1, <1>3, <2>1 DEF Start, Kept, TypeInv, TypeOK
  <2>4. ASSUME NEW d \in Call PROVE Deposited(d)'
    <3>1. CASE d = c
        BY <2>1, <2>2, <3>1 DEF Deposited
    <3>2. CASE d # c
        BY <1>1, <2>3, <3>2, KeptKeepsDeposited DEF DepositInv
    <3> QED
        BY <3>1, <3>2
  <2>5. ~Pays(c)'
    <3>1. pc'[c] \notin 1..2
        BY <2>1
    <3> QED
        BY <2>1, <2>2, <3>1 DEF Pays
  <2>6. ASSUME NEW d \in Call, NEW e \in Call, d # e
        PROVE  Pairwise(d, e)'
    <3>1. CASE d = c \/ e = c
        BY <2>5, <3>1 DEF Pairwise
    <3>2. CASE d # c /\ e # c
      <4>1. Kept(d) /\ Kept(e) /\ Pairwise(d, e)
          BY <2>3, <2>6, <3>2 DEF DepositInv, PairInv
      <4> QED
          BY <1>1, <4>1, KeptKeepsPairwise
    <3> QED
        BY <3>1, <3>2
  <2> QED
      BY <1>1, <2>4, <2>6 DEF DepositInv, PairInv
<1>4. CASE Crash
  <2>1. /\ op' = op /\ tx' = tx /\ deposits' = deposits
        /\ cut' = cut \cup Running
        /\ \A d \in Call : IF UnderWay(d) THEN pc'[d] = Over ELSE pc'[d] = pc[d]
      BY <1>4 DEF Crash, Running, books
  <2>2. ASSUME NEW d \in Call PROVE Deposited(d)'
    <3> SUFFICES ASSUME NEW t \in TxId \cup {None}, <<d, t>> \in deposits
                 PROVE  /\ op[d] # "none"
                        /\ op[d] = "trigger" =>
                              /\ t = tx[d] /\ t \in Tx
                              /\ pc'[d] \notin 0..2
                              /\ d \in cut' \/ pc'[d] = 3 \/ status'[t] # "Pending"
        BY <2>1 DEF Deposited
    <3>1. /\ op[d] # "none"
          /\ op[d] = "trigger" =>
                /\ t = tx[d] /\ t \in Tx
                /\ pc[d] \notin 0..2
                /\ d \in cut \/ pc[d] = 3 \/ status[t] # "Pending"
        BY DEF DepositInv, Deposited
    <3> QED
        BY <1>1, <2>1, <3>1, PaidStays DEF Running, Over
  <2>3. ASSUME NEW d \in Call, Pays(d)' PROVE Pays(d)
      BY <2>1, <2>3 DEF Pays, Over
  <2>4. PairInv'
      BY <1>1, <2>1, <2>3 DEF DepositInv, PairInv, Pairwise, Grow
  <2> QED
      BY <1>1, <2>2, <2>4 DEF DepositInv
<1>5. CASE UNCHANGED vars \/ \E t \in TxId : Callback(t)
  <2>1. \A d \in Call : Kept(d)
      BY <1>5 DEF Callback, vars, local, books, Kept
  <2>2. \A d \in Call : Deposited(d)'
      BY <1>1, <2>1, KeptKeepsDeposited DEF DepositInv
  <2>3. PairInv'
      BY <1>1, <2>1, KeptKeepsPairwise DEF DepositInv, PairInv
  <2> QED
      BY <1>1, <2>2, <2>3 DEF DepositInv
<1> QED
    BY <1>2, <1>3, <1>4, <1>5 DEF Next, Running

\* However many deliveries of the webhook come, a transaction is deposited
\* twice only when two that found it Pending overlapped or one was cut before
\* it marked it.
THEOREM DepositsOnce == Spec => []TransactionDepositedOnce
<1>1. DepositInv => TransactionDepositedOnce
  <2> SUFFICES ASSUME DepositInv, NEW x \in deposits, NEW y \in deposits,
                      x # y, x[2] = y[2],
                      op[x[1]] = "trigger", op[y[1]] = "trigger"
               PROVE  {x[1], y[1]} \in races \/ {x[1], y[1]} \cap cut # {}
      BY DEF TransactionDepositedOnce
  <2>1. deposits \subseteq Call \X (TxId \cup {None})
      BY DEF DepositInv, TypeInv, TypeOK
  <2>2. /\ x[1] \in Call /\ x[2] \in TxId \cup {None} /\ x = <<x[1], x[2]>>
        /\ y[1] \in Call /\ y[2] \in TxId \cup {None} /\ y = <<y[1], y[2]>>
      BY <2>1
  <2>3. x[1] # y[1]
      BY <2>2
  <2>4. <<x[1], x[2]>> \in deposits /\ <<y[1], y[2]>> \in deposits
      BY <2>2
  <2>5. x[2] = tx[x[1]] /\ y[2] = tx[y[1]]
      BY <2>2, <2>4 DEF DepositInv, Deposited
  <2>6. Pays(x[1]) /\ Pays(y[1])
      BY <2>2, <2>4 DEF Pays
  <2> QED
      BY <2>2, <2>3, <2>5, <2>6 DEF DepositInv, PairInv, Pairwise
<1>2. Spec => []DepositInv
    BY DepositInit, DepositNext, PTL DEF Spec
<1> QED
    BY <1>1, <1>2, PTL

-----------------------------------------------------------------------------
(***************************************************************************)
(* A store's keys.                                                         *)
(***************************************************************************)
KeysInv == TypeInv /\ (\A c \in Call : KeysLate(c)) /\ KeysGo

SameAwait(d) == (\A await : At(d, await)' <=> At(d, await)) /\ op'[d] = op[d]

LEMMA OthersAwait ==
    ASSUME TypeInv, NEW c \in Call, UnderWay(c), Step(c), NEW d \in Call \ {c}
    PROVE  SameAwait(d)
BY OthersNamed DEF SameAwait, At, Awaits, UnderWay

\* Only removeStore makes a store absent, and it notes whose keys were being
\* saved then.
LEMMA OnlyDeleteStore ==
    ASSUME NEW c \in Call, Step(c), store # "absent", store' = "absent"
    PROVE  DeleteStore(c)
<1> SUFFICES ASSUME ~DeleteStore(c) PROVE FALSE
    OBVIOUS
<1>1. CASE SaveStore(c) \/ Switch(c) \/ Upsert(c)
    BY <1>1 DEF SaveStore, Switch, Upsert, Enviroment
<1>2. CASE ~SaveStore(c) /\ ~Switch(c) /\ ~Upsert(c)
    BY <1>2 DEF Step, FindStore, FindPending, FindTx, MarkTx, SaveTx,
       SetTransfer, Schedule, SaveDeposit, SaveWithdraw, FindActivity,
       WriteActivity, Remove, SaveCreds, SaveActivity, DeleteCreds,
       SwitchActivity, Fail, stores
<1> QED
    BY <1>1, <1>2

LEMMA KeysComeSecond ==
    ASSUME NEW o \in DOMAIN Program, NEW n \in Nat, n < Len(Program[o]),
           Program[o][n + 1] = "saveCreds"
    PROVE  o = "newStore" /\ n = 1
<1>1. CASE o = "txCreate"
  <2>1. Len(Program[o]) = 6
      BY <1>1 DEF Program
  <2>2. n \in 0..5
      BY <2>1
  <2> QED
      BY <1>1, <2>2 DEF Program
<1>2. CASE o = "deposit" \/ o = "withdraw"
  <2>1. Len(Program[o]) = 3
      BY <1>2 DEF Program
  <2>2. n \in 0..2
      BY <2>1
  <2> QED
      BY <1>2, <2>2 DEF Program
<1>3. CASE o = "trigger"
  <2>1. Len(Program[o]) = 8
      BY <1>3 DEF Program
  <2>2. n \in 0..7
      BY <2>1
  <2> QED
      BY <1>3, <2>2 DEF Program
<1>4. CASE o = "confirm"
  <2>1. Len(Program[o]) = 8
      BY <1>4 DEF Program
  <2>2. n \in 0..7
      BY <2>1
  <2> QED
      BY <1>4, <2>2 DEF Program
<1>5. CASE o = "confirmTx"
  <2>1. Len(Program[o]) = 2
      BY <1>5 DEF Program
  <2>2. n \in 0..1
      BY <2>1
  <2> QED
      BY <1>5, <2>2 DEF Program
<1>6. CASE o = "newStore"
  <2>1. Len(Program[o]) = 3
      BY <1>6 DEF Program
  <2>2. n \in 0..2
      BY <2>1
  <2> QED
      BY <1>6, <2>2 DEF Program
<1>7. CASE o = "removeStore"
  <2>1. Len(Program[o]) = 2
      BY <1>7 DEF Program
  <2>2. n \in 0..1
      BY <2>1
  <2> QED
      BY <1>7, <2>2 DEF Program
<1>8. CASE o = "switchStore"
  <2>1. Len(Program[o]) = 2
      BY <1>8 DEF Program
  <2>2. n \in 0..1
      BY <2>1
  <2> QED
      BY <1>8, <2>2 DEF Program
<1>9. CASE o \in {"addCallback", "removeDeposits", "removeWithdraws",
                   "removeActivity"}
  <2>1. Len(Program[o]) = 1
      BY <1>9 DEF Program
  <2>2. n \in 0..0
      BY <2>1
  <2> QED
      BY <1>9, <2>2 DEF Program
<1> QED
    BY <1>1, <1>2, <1>3, <1>4, <1>5, <1>6, <1>7, <1>8, <1>9,
       Handlers

\* A call comes to save the keys of a store from saving the store.
LEMMA SavesStoreFirst ==
    ASSUME TypeInv, TypeInv', NEW c \in Call, UnderWay(c), Step(c),
           At(c, "saveCreds")'
    PROVE  store' = "DEV"
<1>1. /\ TypeOK /\ Placed(c) /\ Placed(c)'
      /\ op' \in [Call -> DOMAIN Program \cup {"none"}]
      /\ pc' \in [Call -> 0..Over] /\ pc[c] \in 0..Over
    BY DEF TypeInv, TypeOK
<1>2. /\ op'[c] # "none" /\ pc'[c] # Over
      /\ Program[op'[c]][pc'[c] + 1] = "saveCreds"
    BY DEF At, Awaits, UnderWay
<1>3. op'[c] = "newStore" /\ pc'[c] = 1
  <2>1. op'[c] \in DOMAIN Program /\ pc'[c] \in Nat
      BY <1>1, <1>2 DEF Over
  <2>2. pc'[c] < Len(Program[op'[c]])
      BY <1>1, <1>2 DEF Placed, UnderWay
  <2> QED
      BY <1>2, <2>1, <2>2, KeysComeSecond
<1>4. op[c] = "newStore" /\ pc[c] = 0 /\ ~Fail(c)
    BY <1>1, <1>2, <1>3, StepAdvances, Advances DEF Fail, Answer, TypeOK
<1>5. Awaits(c) = "saveStore"
    BY <1>1, <1>4, Where
<1>6. SaveStore(c)
    BY <1>4, <1>5 DEF Step, At, FindStore, FindPending, FindTx, MarkTx, SaveTx,
       SetTransfer, Schedule, SaveDeposit, SaveWithdraw, FindActivity,
       WriteActivity, Remove, SaveCreds, SaveActivity, DeleteStore, DeleteCreds,
       Switch, SwitchActivity, Upsert
<1> QED
    BY <1>6 DEF SaveStore

LEMMA StepKeepsLate ==
    ASSUME KeysInv, [Next]_vars, NEW c \in Call, UnderWay(c), Step(c), NEW d \in Call
    PROVE  KeysLate(d)'
<1> SUFFICES ASSUME At(d, "saveCreds")', store' = "absent"
             PROVE  \E e \in Call : {e, d} \in races'
    BY DEF KeysLate
<1>1. TypeInv /\ TypeInv' /\ Grow
    BY TypeNext, StepGrows DEF KeysInv
<1>2. d # c
    BY <1>1, SavesStoreFirst
<1>3. At(d, "saveCreds")
    BY <1>1, <1>2, OthersAwait DEF SameAwait
<1>4. CASE store = "absent"
    BY <1>1, <1>3, <1>4 DEF KeysInv, KeysLate, Grow
<1>5. CASE store # "absent"
  <2>1. DeleteStore(c)
      BY <1>5, OnlyDeleteStore
  <2> QED
      BY <1>3, <2>1 DEF DeleteStore
<1> QED
    BY <1>4, <1>5

\* The witnesses of KeysGo outlast a step of another call, and of their own.
LEMMA WitnessStays ==
    ASSUME KeysInv, [Next]_vars, NEW c \in Call, UnderWay(c), Step(c), ~DeleteCreds(c),
           store = "absent", creds = TRUE
    PROVE  \/ \E e \in Call :
                  op'[e] = "removeStore" /\ (At(e, "deleteCreds")' \/ e \in cut')
           \/ \E e, d \in Call : op'[d] = "newStore" /\ {e, d} \in races'
<1>1. TypeInv /\ Grow /\ op' = op
    BY StepGrows, StepAdvances DEF KeysInv
<1>2. ASSUME NEW e \in Call, op[e] = "removeStore", At(e, "deleteCreds")
      PROVE  At(e, "deleteCreds")' \/ e \in cut'
  <2>1. CASE e # c
      BY <1>1, <1>2, <2>1, OthersAwait DEF SameAwait
  <2>2. CASE e = c
    <3>1. Fail(c)
        BY <1>2, <2>2 DEF Step, At, FindStore, FindPending, FindTx, MarkTx,
           SaveTx, SetTransfer, Schedule, SaveDeposit, SaveWithdraw,
           FindActivity, WriteActivity, Remove, SaveStore, SaveCreds,
           SaveActivity, DeleteStore, Switch, SwitchActivity, Upsert
    <3> QED
        BY <2>2, <3>1 DEF Fail
  <2> QED
      BY <2>1, <2>2
<1> QED
    BY <1>1, <1>2 DEF KeysInv, KeysGo, Grow

LEMMA StepKeepsKeys ==
    ASSUME KeysInv, [Next]_vars, NEW c \in Call, UnderWay(c), Step(c)
    PROVE  KeysGo'
<1> SUFFICES ASSUME store' = "absent", creds' = TRUE
             PROVE  \/ \E e \in Call :
                           op'[e] = "removeStore" /\ (At(e, "deleteCreds")' \/ e \in cut')
                    \/ \E e, d \in Call : op'[d] = "newStore" /\ {e, d} \in races'
    BY DEF KeysGo
<1>1. /\ TypeInv /\ Grow /\ op' = op
      /\ TypeOK /\ Placed(c) /\ pc \in [Call -> 0..Over]
      /\ KeysLate(c)
    BY StepGrows, StepAdvances DEF KeysInv, TypeInv, TypeOK
<1>2. ~DeleteCreds(c)
    BY DEF DeleteCreds
<1>3. CASE store # "absent"
  <2>1. DeleteStore(c)
      BY <1>3, OnlyDeleteStore
  <2>2. op[c] = "removeStore" /\ pc[c] = 0
      BY <1>1, <2>1, Where DEF DeleteStore, At
  <2>3. pc'[c] = 1
    <3>1. pc' = [pc EXCEPT ![c] = IF pc[c] + 1 = Len(Program[op[c]])
                                 THEN Over ELSE pc[c] + 1]
        BY <1>3, <2>1 DEF DeleteStore, Advance
    <3>2. Len(Program[op[c]]) = 2
        BY <2>2 DEF Program
    <3> QED
        BY <1>1, <2>2, <3>1, <3>2
  <2>4. At(c, "deleteCreds")'
    <3>1. Program["removeStore"][2] = "deleteCreds"
        BY DEF Program
    <3> QED
        BY <1>1, <2>2, <2>3, <3>1 DEF At, Awaits, UnderWay, Over
  <2> QED
      BY <1>1, <2>2, <2>4
<1>4. CASE store = "absent" /\ creds = TRUE
    BY <1>2, <1>4, WitnessStays
<1>5. CASE store = "absent" /\ creds # TRUE
  <2>1. SaveCreds(c)
    <3> SUFFICES ASSUME ~SaveCreds(c) PROVE FALSE
        OBVIOUS
    <3>1. CASE SaveStore(c) \/ DeleteStore(c) \/ Switch(c) \/ Upsert(c)
        BY <1>5, <3>1 DEF SaveStore, DeleteStore, Switch, Upsert
    <3>2. CASE ~SaveStore(c) /\ ~DeleteStore(c) /\ ~Switch(c) /\ ~Upsert(c)
        BY <1>2, <1>5, <3>2 DEF Step, FindStore, FindPending, FindTx, MarkTx,
           SaveTx, SetTransfer, Schedule, SaveDeposit, SaveWithdraw,
           FindActivity, WriteActivity, Remove, SaveActivity, SwitchActivity,
           Fail, stores
    <3> QED
        BY <3>1, <3>2
  <2>2. op[c] = "newStore" /\ At(c, "saveCreds")
      BY <1>1, <2>1, Where DEF SaveCreds, At
  <2> QED
      BY <1>1, <1>5, <2>2 DEF KeysLate, Grow
<1> QED
    BY <1>3, <1>4, <1>5

LEMMA KeysInit == Init => KeysInv
BY TypeInit DEF Init, Enviroment, KeysInv, KeysLate, KeysGo, At, Awaits,
   UnderWay

LEMMA KeysNext == KeysInv /\ [Next]_vars => KeysInv'
<1> SUFFICES ASSUME KeysInv, [Next]_vars PROVE KeysInv'
    OBVIOUS
<1>1. TypeInv /\ TypeInv' /\ Grow
    BY TypeNext, StepGrows DEF KeysInv
<1>2. ASSUME NEW c \in Call, UnderWay(c), Step(c) PROVE KeysInv'
    BY <1>1, <1>2, StepKeepsLate, StepKeepsKeys DEF KeysInv
<1>3. ASSUME NEW c \in Call, NEW o \in Ops, NEW t \in TxId \cup {None}, Start(c, o, t)
      PROVE  KeysInv'
  <2>1. /\ op[c] = "none" /\ pc[c] = 0 /\ pc' = pc
        /\ op \in [Call -> DOMAIN Program \cup {"none"}]
        /\ op' = [op EXCEPT ![c] = o]
        /\ UNCHANGED <<store, creds, races, cut>>
      BY <1>1, <1>3 DEF Start, TypeInv, TypeOK, Placed, stores, ghosts
  <2>2. \A d \in Call \ {c} : SameAwait(d)
      BY <2>1 DEF SameAwait, At, Awaits, UnderWay
  <2>3. ~At(c, "saveCreds")'
    <3> SUFFICES ASSUME At(c, "saveCreds")' PROVE FALSE
        OBVIOUS
    <3>1. op'[c] = o /\ pc'[c] = 0 /\ o \in DOMAIN Program
        BY <2>1, OpsAssumption
    <3>2. Program[o][0 + 1] = "saveCreds"
        BY <3>1 DEF At, Awaits
    <3>3. 0 < Len(Program[o])
        BY <3>1, HandlersAreShort
    <3> QED
        BY <3>1, <3>2, <3>3, KeysComeSecond
  <2>4. ASSUME NEW d \in Call PROVE KeysLate(d)'
      BY <2>1, <2>2, <2>3 DEF KeysInv, KeysLate, SameAwait
  <2>5. KeysGo'
    <3> SUFFICES ASSUME store = "absent", creds = TRUE
                 PROVE  \/ \E e \in Call :
                               op'[e] = "removeStore" /\ (At(e, "deleteCreds")' \/ e \in cut)
                        \/ \E e, d \in Call : op'[d] = "newStore" /\ {e, d} \in races
        BY <2>1 DEF KeysGo
    <3>1. \A e \in Call : op[e] \in {"removeStore", "newStore"} => e # c
        BY <2>1
    <3> QED
        BY <2>2, <3>1 DEF KeysInv, KeysGo, SameAwait
  <2> QED
      BY <1>1, <2>4, <2>5 DEF KeysInv
<1>4. CASE Crash
  <2>1. /\ op' = op /\ UNCHANGED <<store, creds, races>>
        /\ cut' = cut \cup Running
        /\ \A d \in Call : UnderWay(d) => pc'[d] = Over
        /\ \A d \in Call : ~UnderWay(d) => pc'[d] = pc[d]
      BY <1>4 DEF Crash, Running, stores
  <2>2. \A d \in Call : ~At(d, "saveCreds")'
      BY <2>1 DEF At, Awaits, UnderWay
  <2>3. \A e \in Call : At(e, "deleteCreds") => e \in cut'
      BY <2>1 DEF At, Awaits, Running
  <2>4. KeysGo'
      BY <1>1, <2>1, <2>3 DEF KeysInv, KeysGo, Grow
  <2> QED
      BY <1>1, <2>2, <2>4 DEF KeysInv, KeysLate
<1>5. CASE UNCHANGED vars \/ \E t \in TxId : Callback(t)
    BY <1>1, <1>5 DEF Callback, vars, stores, local, ghosts, KeysInv, KeysLate,
       KeysGo, At, Awaits, UnderWay
<1> QED
    BY <1>2, <1>3, <1>4, <1>5 DEF Next, Running

\* A store that is gone leaves no keys behind, unless its removal was cut
\* short or came while its creation was saving them.
THEOREM KeysGoWithStore == Spec => []CredsGoWithStore
<1>1. KeysInv => CredsGoWithStore
  <2>1. KeysInv => creds \in BOOLEAN
      BY DEF KeysInv, TypeInv, TypeOK
  <2> QED
      BY <2>1 DEF KeysInv, KeysGo, CredsGoWithStore, At, Awaits, Running
<1>2. Spec => []KeysInv
    BY KeysInit, KeysNext, PTL DEF Spec
<1> QED
    BY <1>1, <1>2, PTL

-----------------------------------------------------------------------------
(***************************************************************************)
(* The total the store is shown.                                           *)
(*                                                                         *)
(* A handler saves its record at SaveAt and adds it to the totals at       *)
(* WriteAt.  Booked ties the records to how far their calls are, and Wrote *)
(* are the records that may have been added.  While nothing is disturbed,  *)
(* one call at a time holds totals to write back and they are the stored   *)
(* ones (Current), so that the first totals count Wrote and nothing else.  *)
(* A failure alone leaves Current true, but nobody knows whether what      *)
(* failed was added.                                                       *)
(***************************************************************************)
Past(c) == op[c] \in Writers /\ pc[c] > WriteAt[op[c]]
Wrote == {c \in saved : Past(c)}
Writing(c) == At(c, "writeActivity")

Booked(c) ==
    /\ c \in saved => op[c] \in Writers /\ pc[c] > SaveAt[op[c]]
    /\ op[c] \in Writers /\ UnderWay(c) /\ pc[c] > SaveAt[op[c]] => c \in saved

Current(c) ==
    Writing(c) =>
      /\ seen[c] = IF activity = <<>> THEN None ELSE Head(activity)
      /\ \A d \in Call : Writing(d) => d = c

Records == 1..Len(activity)
FirstTotal == IF activity = <<>> THEN 0 ELSE Head(activity).total

BookedInv == TypeInv /\ IsFiniteSet(saved) /\ \A c \in Call : Booked(c)

ExactInv ==
    /\ BookedInv
    /\ ~disturbed => \A c \in Call : Current(c)
    /\ ~disturbed /\ cut = {} => Cardinality(Wrote) = FirstTotal

\* A call whose totals may be stored.
Made(c) == Past(c) \/ (op[c] = "newStore" /\ pc[c] = Over)

LEMMA Marks ==
    ASSUME NEW o \in Writers
    PROVE  /\ o \in DOMAIN Program /\ o # "none" /\ o # "newStore"
           /\ SaveAt[o] \in 0..3 /\ WriteAt[o] \in 2..6
           /\ SaveAt[o] + 1 < WriteAt[o] /\ WriteAt[o] < Len(Program[o])
<1>1. CASE o = "txCreate"
  <2>1. SaveAt[o] = 2 /\ WriteAt[o] = 4
      BY <1>1 DEF SaveAt, WriteAt
  <2>2. o \in DOMAIN Program /\ Len(Program[o]) = 6
      BY <1>1 DEF Program
  <2> QED
      BY <1>1, <2>1, <2>2
<1>2. CASE o = "trigger"
  <2>1. SaveAt[o] = 2 /\ WriteAt[o] = 5
      BY <1>2 DEF SaveAt, WriteAt
  <2>2. o \in DOMAIN Program /\ Len(Program[o]) = 8
      BY <1>2 DEF Program
  <2> QED
      BY <1>2, <2>1, <2>2
<1>3. CASE o = "confirm"
  <2>1. SaveAt[o] = 3 /\ WriteAt[o] = 6
      BY <1>3 DEF SaveAt, WriteAt
  <2>2. o \in DOMAIN Program /\ Len(Program[o]) = 8
      BY <1>3 DEF Program
  <2> QED
      BY <1>3, <2>1, <2>2
<1>4. CASE o \in {"deposit", "withdraw"}
  <2>1. SaveAt[o] = 0 /\ WriteAt[o] = 2
      BY <1>4 DEF SaveAt, WriteAt
  <2>2. o \in DOMAIN Program /\ Len(Program[o]) = 3
      BY <1>4 DEF Program
  <2> QED
      BY <1>4, <2>1, <2>2
<1> QED
    BY <1>1, <1>2, <1>3, <1>4 DEF Writers

\* Which call awaits which of the steps that keep the books.
Awaited(c) ==
    /\ Writing(c) <=>
         UnderWay(c) /\ op[c] \in Writers /\ pc[c] = WriteAt[op[c]]
    /\ At(c, "findActivity") <=>
         UnderWay(c) /\ op[c] \in Writers /\ pc[c] = WriteAt[op[c]] - 1
    /\ (At(c, "saveDeposit") \/ At(c, "saveWithdraw")) <=>
         UnderWay(c) /\ op[c] \in Writers /\ pc[c] = SaveAt[op[c]]
    /\ (At(c, "findStore") \/ At(c, "findPending") \/ At(c, "findTx")) =>
         pc[c] < SaveAt[op[c]]
    /\ At(c, "saveActivity") =>
         UnderWay(c) /\ op[c] = "newStore" /\ pc[c] = 2
    /\ At(c, "deleteStore") => op[c] \notin Writers

LEMMA AllAwaited == TypeInv => \A c \in Call : Awaited(c)
<1> SUFFICES ASSUME TypeInv, NEW c \in Call PROVE Awaited(c)
    OBVIOUS
<1>1. CASE ~UnderWay(c)
    BY <1>1 DEF Awaits, At, Writing, Awaited
<1>2. CASE UnderWay(c)
  <2>1. TypeOK /\ Placed(c)
      BY DEF TypeInv
  <2>2. Awaits(c) = "deleteStore" => op[c] = "removeStore"
      BY <1>2, <2>1, Where
  <2>3. Awaits(c) = "deleteStore" => op[c] \notin Writers
      BY <2>2 DEF Writers
  <2> QED
      BY <1>2, <2>1, <2>3, Where DEF At, Writing, Awaited
<1> QED
    BY <1>1, <1>2

LEMMA AwaitedThen == TypeInv' => \A c \in Call : Awaited(c)'
<1>1. TypeInv' => (\A c \in Call : Awaited(c))'
    BY AllAwaited, PTL
<1> QED
    BY <1>1

\* How far a step takes the call of a handler that keeps the books.
LEMMA Moves ==
    ASSUME TypeInv, NEW c \in Call, UnderWay(c), Step(c), op[c] \in Writers
    PROVE  /\ pc[c] \in 0..98 /\ pc'[c] \in 0..99 /\ pc'[c] > pc[c]
           /\ op'[c] = op[c]
           /\ pc'[c] = Over \/ pc'[c] = pc[c] + 1
           /\ Advance(c) /\ pc[c] < WriteAt[op[c]] => pc'[c] = pc[c] + 1
<1> DEFINE o == op[c]
<1>1. op' = op /\ (Advance(c) \/ Answer(c))
    BY StepAdvances
<1>2. /\ pc' \in [Call -> 0..Over]
      /\ pc'[c] = Over \/ (Advance(c) /\ pc'[c] = pc[c] + 1)
    BY <1>1, Advances
<1>3. pc \in [Call -> 0..Over] /\ pc[c] < Len(Program[o])
    BY DEF TypeInv, TypeOK, Placed
<1>4. o \in DOMAIN Program /\ Len(Program[o]) \in 1..8
      /\ WriteAt[o] \in 2..6 /\ WriteAt[o] < Len(Program[o])
    BY Marks, HandlersAreShort
<1>5. Advance(c) => pc'[c] = IF pc[c] + 1 = Len(Program[o]) THEN Over
                             ELSE pc[c] + 1
    BY <1>3 DEF Advance
<1> DEFINE length == Len(Program[o])
           write == WriteAt[o]
<1>6. /\ pc[c] \in 0..99 /\ pc[c] < length /\ length \in 1..8
      /\ write \in 2..6 /\ write < length /\ pc'[c] \in 0..99
      /\ pc'[c] = 99 \/ pc'[c] = pc[c] + 1
      /\ Advance(c) => pc'[c] = IF pc[c] + 1 = length THEN 99 ELSE pc[c] + 1
    BY <1>2, <1>3, <1>4, <1>5 DEF Over
<1> HIDE DEF length, write, o
<1>7. /\ pc[c] \in 0..98 /\ pc'[c] \in 0..99 /\ pc'[c] > pc[c]
      /\ Advance(c) /\ pc[c] < write => pc'[c] = pc[c] + 1
    BY <1>6
<1> QED
    BY <1>1, <1>2, <1>7 DEF write, o

LEMMA OthersStay ==
    ASSUME TypeInv, NEW c \in Call, UnderWay(c), Step(c), NEW d \in Call \ {c}
    PROVE  /\ Past(d)' <=> Past(d)
           /\ Writing(d)' <=> Writing(d)
           /\ Made(d)' <=> Made(d)
           /\ UnderWay(d)' <=> UnderWay(d)
           /\ op'[d] = op[d] /\ pc'[d] = pc[d]
<1>1. op'[d] = op[d] /\ pc'[d] = pc[d]
    BY OthersNamed
<1> QED
    BY <1>1 DEF Past, Writing, Made, UnderWay, At, Awaits

\* What a call awaits is what its next step does, or the step fails.
LEMMA StepIsAwaited ==
    ASSUME NEW c \in Call, Step(c)
    PROVE  /\ Writing(c) => WriteActivity(c) \/ Fail(c)
           /\ At(c, "findActivity") => FindActivity(c) \/ Fail(c)
           /\ At(c, "saveDeposit") => SaveDeposit(c) \/ Fail(c)
           /\ At(c, "saveWithdraw") => SaveWithdraw(c) \/ Fail(c)
           /\ At(c, "saveActivity") => SaveActivity(c) \/ Fail(c)
           /\ Advance(c) \/ Fail(c) \/ WriteActivity(c) \/ At(c, "findStore")
                \/ At(c, "findPending") \/ At(c, "findTx") \/ At(c, "deleteStore")
BY DEF Step, FindStore, FindPending, FindTx, MarkTx, SaveTx, SetTransfer,
       Schedule, SaveDeposit, SaveWithdraw, FindActivity, WriteActivity, Remove,
       SaveStore, SaveCreds, SaveActivity, DeleteStore, DeleteCreds, Switch,
       SwitchActivity, Upsert, At, Writing

\* What the steps of a call do to the books, besides what they are for.
LEMMA StepBooks ==
    ASSUME NEW c \in Call, Step(c)
    PROVE  /\ \A d \in Call \ {c} : TypeInv => seen'[d] = seen[d]
           /\ saved' = IF SaveDeposit(c) \/ SaveWithdraw(c) THEN saved \cup {c}
                       ELSE saved
           /\ disturbed => disturbed'
           /\ cut \subseteq cut' /\ (Fail(c) => c \in cut')
           /\ ~Fail(c) => cut' = cut
           /\ \/ FindActivity(c) \/ WriteActivity(c) \/ SaveActivity(c)
              \/ Remove(c) /\ At(c, "deleteActivity")
              \/ activity' = activity
<1> USE DEF books, local, ghosts
<1>1. CASE \/ FindStore(c) \/ FindPending(c) \/ FindTx(c) \/ MarkTx(c)
           \/ \E s \in {"Pending", "Done"} : SaveTx(c, s)
           \/ SetTransfer(c)
    BY <1>1 DEF FindStore, FindPending, FindTx, MarkTx, SaveTx, SetTransfer,
       SaveDeposit, SaveWithdraw, Fail
<1>2. CASE Schedule(c) \/ Fail(c)
    BY <1>2 DEF Schedule, Fail, Forget, SaveDeposit, SaveWithdraw
<1>3. CASE SaveDeposit(c) \/ SaveWithdraw(c)
    BY <1>3 DEF SaveDeposit, SaveWithdraw, Fail
<1>4. CASE FindActivity(c) \/ WriteActivity(c) \/ SaveActivity(c) \/ Remove(c)
  <2>1. \A d \in Call \ {c} : TypeInv => seen'[d] = seen[d]
    <3>1. TypeInv => seen \in [Call -> Totals \cup {None}]
        BY DEF TypeInv, TypeOK
    <3> QED
        BY <1>4, <3>1 DEF FindActivity, WriteActivity, SaveActivity, Remove
  <2>2. saved' = saved /\ cut' = cut
      BY <1>4 DEF FindActivity, WriteActivity, SaveActivity, Remove
  <2>3. disturbed => disturbed'
      BY <1>4, Zenon DEF FindActivity, WriteActivity, SaveActivity, Remove
  <2>4. Remove(c) /\ ~At(c, "deleteActivity") => activity' = activity
      BY DEF Remove
  <2> QED
      BY <1>4, <2>1, <2>2, <2>3, <2>4 DEF SaveDeposit, SaveWithdraw, Fail
<1>5. CASE \/ SaveStore(c) \/ SaveCreds(c) \/ DeleteStore(c) \/ DeleteCreds(c)
           \/ Switch(c) \/ SwitchActivity(c) \/ Upsert(c)
    BY <1>5 DEF SaveStore, SaveCreds, DeleteStore, DeleteCreds, Switch,
       SwitchActivity, Upsert,
       SaveDeposit, SaveWithdraw, Fail
<1> QED
    BY <1>1, <1>2, <1>3, <1>4, <1>5 DEF Step

\* A handler adds to the totals once, at WriteAt.
LEMMA WriterPrograms ==
    ASSUME NEW o \in Writers
    PROVE  \A i \in 1..Len(Program[o]) :
             Program[o][i] = "writeActivity" <=> i = WriteAt[o] + 1
<1>1. CASE o = "txCreate"
  <2>1. Program[o] = <<"findStore", "saveTx", "saveDeposit", "findActivity",
                       "writeActivity", "schedule">>
      BY <1>1 DEF Program
  <2>2. WriteAt[o] = 4
      BY <1>1 DEF WriteAt
  <2> QED
      BY <2>1, <2>2
<1>2. CASE o = "trigger"
  <2>1. Program[o] = <<"findPending", "findStore", "saveDeposit", "markTx",
                       "findActivity", "writeActivity", "schedule",
                       "setTransfer">>
      BY <1>2 DEF Program
  <2>2. WriteAt[o] = 5
      BY <1>2 DEF WriteAt
  <2> QED
      BY <2>1, <2>2
<1>3. CASE o = "confirm"
  <2>1. Program[o] = <<"setTransfer", "findTx", "findStore", "saveDeposit",
                       "markTx", "findActivity", "writeActivity", "schedule">>
      BY <1>3 DEF Program
  <2>2. WriteAt[o] = 6
      BY <1>3 DEF WriteAt
  <2> QED
      BY <2>1, <2>2
<1>4. CASE o = "deposit"
  <2>1. Program[o] = <<"saveDeposit", "findActivity", "writeActivity">>
      BY <1>4 DEF Program
  <2>2. WriteAt[o] = 2
      BY <1>4 DEF WriteAt
  <2> QED
      BY <2>1, <2>2
<1>5. CASE o = "withdraw"
  <2>1. Program[o] = <<"saveWithdraw", "findActivity", "writeActivity">>
      BY <1>5 DEF Program
  <2>2. WriteAt[o] = 2
      BY <1>5 DEF WriteAt
  <2> QED
      BY <2>1, <2>2
<1> QED
    BY <1>1, <1>2, <1>3, <1>4, <1>5 DEF Writers

LEMMA OwnMarks ==
    ASSUME TypeInv, TypeInv', NEW c \in Call, UnderWay(c), Step(c)
    PROVE  /\ Past(c) => Past(c)'
           /\ Writing(c) => Past(c)' /\ ~Past(c)
           /\ Made(c) => Made(c)'
           /\ Writing(c)' => FindActivity(c)
           /\ SaveActivity(c) => ~Made(c) /\ Made(c)' /\ ~Past(c) /\ ~Writing(c)
<1>1. Awaited(c) /\ Awaited(c)' /\ op'[c] = op[c]
    BY AllAwaited, AwaitedThen, StepAdvances
<1>2. pc \in [Call -> 0..Over] /\ pc[c] # Over
    BY DEF TypeInv, TypeOK, UnderWay
<1>3. Fail(c) => pc'[c] = Over
    BY <1>2 DEF Fail, Answer
<1>4. CASE op[c] \in Writers
  <2> DEFINE o == op[c]
             write == WriteAt[o]
  <2>1. /\ pc[c] \in 0..98 /\ pc'[c] \in 0..99 /\ pc'[c] > pc[c]
        /\ pc'[c] = 99 \/ pc'[c] = pc[c] + 1
      BY <1>4, Moves DEF Over
  <2>2. write \in 2..6 /\ o # "newStore"
      BY <1>4, Marks
  <2>3. /\ Past(c) <=> pc[c] > write
        /\ Past(c)' <=> pc'[c] > write
        /\ Writing(c) <=> pc[c] = write
        /\ Writing(c)' => pc'[c] = write
        /\ At(c, "findActivity") <=> pc[c] = write - 1
      BY <1>1, <1>4 DEF Past, Awaited
  <2>4. /\ Past(c) => Past(c)'
        /\ Writing(c) => Past(c)' /\ ~Past(c)
        /\ Writing(c)' => At(c, "findActivity") /\ pc'[c] # 99
    <3> HIDE DEF write
    <3> QED
        BY <2>1, <2>2, <2>3
  <2>5. (Made(c) <=> Past(c)) /\ (Made(c)' <=> Past(c)')
      BY <1>1, <2>2 DEF Made
  <2>6. Writing(c)' => FindActivity(c)
      BY <1>3, <2>4, StepIsAwaited DEF Over
  <2>7. ~SaveActivity(c)
      BY <1>1, <2>2 DEF Awaited, SaveActivity
  <2> QED
      BY <2>4, <2>5, <2>6, <2>7
<1>5. CASE op[c] \notin Writers
  <2>1. ~Past(c) /\ ~Writing(c) /\ ~Writing(c)'
      BY <1>1, <1>5 DEF Past, Awaited
  <2>2. ~Made(c)
      BY <1>2, <2>1 DEF Made
  <2>3. SaveActivity(c) => Made(c)'
    <3> SUFFICES ASSUME SaveActivity(c) PROVE Made(c)'
        OBVIOUS
    <3>1. op[c] = "newStore" /\ pc[c] = 2 /\ Advance(c)
        BY <1>1 DEF Awaited, SaveActivity
    <3>2. Len(Program[op[c]]) = 3
        BY <3>1 DEF Program
    <3>3. pc'[c] = Over
        BY <1>2, <3>1, <3>2 DEF Advance
    <3> QED
        BY <1>1, <3>1, <3>3 DEF Made
  <2> QED
      BY <2>1, <2>2, <2>3
<1> QED
    BY <1>4, <1>5

\* Only a look that finds nothing ends a call before it has written.
LEMMA EarlyEnd ==
    ASSUME TypeInv, NEW c \in Call, UnderWay(c), Step(c), op[c] \in Writers,
           pc[c] < WriteAt[op[c]], pc'[c] = Over, ~Fail(c)
    PROVE  pc[c] < SaveAt[op[c]]
<1>1. pc[c] \in 0..98 /\ Awaited(c) /\ WriteAt[op[c]] \in 2..6
    BY AllAwaited, Moves, Marks
<1>2. ~Advance(c)
    BY <1>1, Moves DEF Over
<1>3. ~WriteActivity(c)
    BY <1>1 DEF WriteActivity, Writing, Awaited
<1> QED
    BY <1>1, <1>2, <1>3, StepIsAwaited DEF Awaited

LEMMA BookedStep ==
    ASSUME BookedInv, TypeInv', NEW c \in Call, UnderWay(c), Step(c)
    PROVE  BookedInv'
<1>1. TypeInv /\ IsFiniteSet(saved) /\ \A d \in Call : Booked(d)
    BY DEF BookedInv
<1>2. Awaited(c) /\ op'[c] = op[c]
    BY <1>1, AllAwaited, StepAdvances
<1>3. saved' = IF SaveDeposit(c) \/ SaveWithdraw(c) THEN saved \cup {c} ELSE saved
    BY StepBooks
<1>4. IsFiniteSet(saved')
    BY <1>1, <1>3, FS_AddElement
<1>5. SaveDeposit(c) \/ SaveWithdraw(c) =>
        op[c] \in Writers /\ pc[c] = SaveAt[op[c]]
    BY <1>2 DEF Awaited, SaveDeposit, SaveWithdraw
<1>6. ASSUME NEW d \in Call \ {c} PROVE Booked(d)'
  <2>1. Booked(d) /\ (d \in saved' <=> d \in saved)
      BY <1>1, <1>3
  <2> QED
      BY <1>1, <2>1, OthersStay DEF Booked
<1>7. Booked(c)'
  <2>1. CASE op[c] \notin Writers
      BY <1>1, <1>2, <1>3, <1>5, <2>1 DEF Booked
  <2>2. CASE op[c] \in Writers
    <3> DEFINE save == SaveAt[op[c]]
    <3>1. save \in 0..3
        BY <2>2, Marks
    <3>2. /\ pc[c] \in 0..98 /\ pc'[c] \in 0..99 /\ pc'[c] > pc[c]
          /\ pc'[c] = 99 \/ pc'[c] = pc[c] + 1
        BY <1>1, <2>2, Moves DEF Over
    <3>3. /\ c \in saved => pc[c] > save
          /\ pc[c] > save => c \in saved
          /\ c \in saved' => c \in saved \/ pc[c] = save
          /\ c \in saved => c \in saved'
        BY <1>1, <1>3, <1>5, <2>2 DEF Booked
    <3>4. pc[c] = save /\ pc'[c] # 99 => c \in saved'
      <4> SUFFICES ASSUME pc[c] = save, pc'[c] # 99 PROVE c \in saved'
          OBVIOUS
      <4>1. pc \in [Call -> 0..Over]
          BY <1>1 DEF TypeInv, TypeOK
      <4>2. ~Fail(c)
          BY <4>1 DEF Fail, Answer, Over
      <4>3. At(c, "saveDeposit") \/ At(c, "saveWithdraw")
          BY <1>2, <2>2 DEF Awaited
      <4> QED
          BY <1>3, <4>2, <4>3, StepIsAwaited
    <3>5. (op[c] \in Writers /\ UnderWay(c) /\ pc[c] > save)'
            => op'[c] \in Writers /\ pc'[c] # 99 /\ pc'[c] > save
        BY <1>2 DEF UnderWay, Over
    <3>6. SaveAt[op'[c]] = save
        BY <1>2
    <3> HIDE DEF save
    <3>7. /\ c \in saved' => pc'[c] > save
          /\ pc'[c] # 99 /\ pc'[c] > save => c \in saved'
        BY <3>1, <3>2, <3>3, <3>4
    <3> QED
        BY <1>2, <2>2, <3>6, <3>7 DEF Booked, UnderWay, Over
  <2> QED
      BY <2>1, <2>2
<1> QED
    BY <1>4, <1>6, <1>7 DEF BookedInv

\* The records added grow with a write and with nothing else, but for a
\* failure, after which nobody knows.
LEMMA WroteStep ==
    ASSUME BookedInv, TypeInv', NEW c \in Call, UnderWay(c), Step(c)
    PROVE  /\ Wrote \subseteq Wrote'
           /\ ~WriteActivity(c) /\ ~Fail(c) => Wrote' = Wrote
           /\ WriteActivity(c) => Wrote' = Wrote \cup {c} /\ c \notin Wrote
<1>1. TypeInv /\ Booked(c) /\ Awaited(c) /\ op'[c] = op[c]
    BY AllAwaited, StepAdvances DEF BookedInv
<1>2. /\ saved \subseteq saved' /\ saved' \subseteq saved \cup {c}
      /\ saved' \subseteq Call
      /\ c \in saved' => c \in saved \/ SaveDeposit(c) \/ SaveWithdraw(c)
    BY StepBooks DEF TypeInv, TypeOK
<1>3. ASSUME NEW d \in Call \ {c} PROVE d \in Wrote' <=> d \in Wrote
    BY <1>1, <1>2, OthersStay DEF Wrote
<1>4. c \in Wrote => c \in Wrote'
    BY <1>1, <1>2, OwnMarks DEF Wrote
<1>5. Wrote \subseteq Call /\ Wrote' \subseteq Call
    BY <1>2 DEF Wrote
<1>6. WriteActivity(c) => c \in Wrote' /\ c \notin Wrote
  <2> SUFFICES ASSUME WriteActivity(c) PROVE c \in Wrote' /\ c \notin Wrote
      OBVIOUS
  <2>1. Writing(c)
      BY DEF Writing, WriteActivity
  <2>2. op[c] \in Writers /\ pc[c] = WriteAt[op[c]]
      BY <1>1, <2>1 DEF Awaited
  <2>3. pc[c] > SaveAt[op[c]]
      BY <2>2, Marks
  <2>4. c \in saved
      BY <1>1, <2>2, <2>3 DEF Booked
  <2> QED
      BY <1>1, <1>2, <2>1, <2>4, OwnMarks DEF Wrote
<1>7. ~WriteActivity(c) /\ ~Fail(c) /\ c \in Wrote' => c \in Wrote
  <2> SUFFICES ASSUME ~WriteActivity(c), ~Fail(c), c \in Wrote', c \notin Wrote
               PROVE  FALSE
      OBVIOUS
  <2>1. op[c] \in Writers /\ pc'[c] > WriteAt[op[c]] /\ c \in saved'
      BY <1>1 DEF Wrote, Past
  <2> DEFINE write == WriteAt[op[c]]
             save == SaveAt[op[c]]
  <2>2. write \in 2..6 /\ save \in 0..3 /\ save + 1 < write
      BY <2>1, Marks
  <2>3. /\ pc[c] \in 0..98 /\ pc'[c] \in 0..99 /\ pc'[c] > pc[c]
        /\ pc'[c] = 99 \/ pc'[c] = pc[c] + 1
      BY <1>1, <2>1, Moves DEF Over
  <2>4. /\ c \in saved' => c \in saved \/ pc[c] = save
        /\ pc[c] > save => c \in saved
        /\ c \in saved => pc[c] > save
        /\ c \in saved => ~(pc[c] > write)
        /\ pc[c] # write
    <3>1. ~Writing(c)
        BY StepIsAwaited
    <3> QED
        BY <1>1, <1>2, <2>1, <3>1
           DEF Awaited, SaveDeposit, SaveWithdraw, Booked, Wrote, Past
  <2>5. pc[c] < write /\ pc'[c] = 99 => pc[c] < save
      BY <1>1, <2>1, EarlyEnd DEF Over
  <2>6. pc'[c] > write
      BY <2>1
  <2> HIDE DEF write, save
  <2> QED
      BY <2>1, <2>2, <2>3, <2>4, <2>5, <2>6
<1> QED
    BY <1>3, <1>4, <1>5, <1>6, <1>7

\* A step that neither looks at the totals nor touches them.
Quiet ==
    /\ activity' = activity
    /\ Wrote \subseteq Wrote'
    /\ cut' = {} => cut = {} /\ Wrote' = Wrote
    /\ disturbed => disturbed'
    /\ \A c \in Call : /\ Made(c) => Made(c)'
                       /\ Writing(c)' => Writing(c) /\ seen'[c] = seen[c]

Touches(c) ==
    \/ FindActivity(c) \/ WriteActivity(c) \/ SaveActivity(c)
    \/ Remove(c) /\ At(c, "deleteActivity")

LEMMA StepTouches ==
    ASSUME BookedInv, TypeInv', NEW c \in Call, UnderWay(c), Step(c)
    PROVE  Touches(c) \/ Quiet
<1>1. SUFFICES ASSUME ~Touches(c) PROVE Quiet
    OBVIOUS
<1>2. TypeInv
    BY DEF BookedInv
<1>3. activity' = activity /\ (disturbed => disturbed')
    BY <1>1, StepBooks DEF Touches
<1>4. /\ Wrote \subseteq Wrote'
      /\ cut' = {} => cut = {} /\ Wrote' = Wrote
    BY <1>1, WroteStep, StepBooks DEF Touches
<1>5. ASSUME NEW d \in Call
      PROVE  /\ Made(d) => Made(d)'
             /\ Writing(d)' => Writing(d) /\ seen'[d] = seen[d]
  <2>1. CASE d = c
      BY <1>1, <1>2, <2>1, OwnMarks DEF Touches
  <2>2. CASE d # c
      BY <1>2, <2>2, OthersStay, StepBooks
  <2> QED
      BY <2>1, <2>2
<1> QED
    BY <1>3, <1>4, <1>5 DEF Quiet

LEMMA NextTouches ==
    ASSUME BookedInv, TypeInv', [Next]_vars
    PROVE  /\ BookedInv'
           /\ \/ Quiet
              \/ \E c \in Call : UnderWay(c) /\ Step(c) /\ Touches(c)
<1> USE DEF stores, books, txs, local, ghosts
<1>1. TypeInv /\ IsFiniteSet(saved) /\ \A d \in Call : Booked(d)
    BY DEF BookedInv
<1>2. /\ pc \in [Call -> 0..Over] /\ seen \in [Call -> Totals \cup {None}]
      /\ op \in [Call -> DOMAIN Program \cup {"none"}] /\ saved \subseteq Call
      /\ \A d \in Call : op[d] = "none" => pc[d] = 0
    BY <1>1 DEF TypeInv, TypeOK, Placed
<1>3. ASSUME NEW c \in Call, NEW o \in Ops, NEW t \in TxId \cup {None}, Start(c, o, t)
      PROVE  BookedInv' /\ Quiet
  <2>1. /\ op[c] = "none" /\ op' = [op EXCEPT ![c] = o] /\ pc' = pc
        /\ saved' = saved /\ activity' = activity /\ seen' = seen
        /\ disturbed' = disturbed /\ cut' = cut
      BY <1>3 DEF Start
  <2>2. "none" \notin Writers /\ pc[c] = 0 /\ op'[c] = o
      BY <1>2, <2>1 DEF Writers
  <2>3. ASSUME NEW d \in Call \ {c}
        PROVE  /\ Booked(d)' <=> Booked(d)
               /\ Made(d)' <=> Made(d)
               /\ Past(d)' <=> Past(d)
               /\ Writing(d)' <=> Writing(d)
    <3>1. op'[d] = op[d] /\ pc'[d] = pc[d]
        BY <1>2, <2>1
    <3> QED
        BY <2>1, <3>1 DEF Booked, Made, Past, Writing, At, Awaits, UnderWay
  <2>4. c \notin saved /\ ~Made(c) /\ ~Past(c)
      BY <1>1, <2>1, <2>2 DEF Booked, Made, Past
  <2>5. ~Writing(c)' /\ ~Past(c)' /\ Booked(c)'
    <3>1. o \in Writers => SaveAt[o] \in 0..3 /\ WriteAt[o] \in 2..6
        BY Marks
    <3>2. Awaited(c)'
        BY AwaitedThen
    <3> QED
        BY <2>1, <2>2, <2>4, <3>1, <3>2 DEF Awaited, Past, Booked
  <2>6. Wrote' = Wrote
      BY <1>2, <2>1, <2>3, <2>4, <2>5 DEF Wrote
  <2> QED
      BY <1>1, <2>1, <2>3, <2>4, <2>5, <2>6 DEF BookedInv, Quiet
<1>4. ASSUME NEW c \in Call, UnderWay(c), Step(c)
      PROVE  BookedInv' /\ (Quiet \/ Touches(c))
    BY <1>4, BookedStep, StepTouches
<1>5. CASE (\E t \in TxId : Callback(t)) \/ UNCHANGED vars
  <2>1. /\ op' = op /\ pc' = pc /\ saved' = saved /\ activity' = activity
        /\ seen' = seen /\ disturbed' = disturbed /\ cut' = cut
      BY <1>5 DEF Callback, vars
  <2>2. ASSUME NEW d \in Call
        PROVE  /\ Booked(d)' <=> Booked(d)
               /\ Made(d)' <=> Made(d)
               /\ Past(d)' <=> Past(d)
               /\ Writing(d)' <=> Writing(d)
      BY <2>1 DEF Booked, Made, Past, Writing, At, Awaits, UnderWay
  <2>3. Wrote' = Wrote
      BY <1>2, <2>1, <2>2 DEF Wrote
  <2> QED
      BY <1>1, <2>1, <2>2, <2>3 DEF BookedInv, Quiet
<1>6. CASE Crash
  <2>1. /\ op' = op /\ saved' = saved /\ activity' = activity
        /\ disturbed' = disturbed /\ cut' = cut \cup Running
        /\ \A d \in Call : pc'[d] = IF UnderWay(d) THEN Over ELSE pc[d]
      BY <1>6 DEF Crash, Running
  <2>2. \A d \in Call : ~UnderWay(d)'
      BY <2>1 DEF UnderWay
  <2>3. ASSUME NEW d \in Call
        PROVE  /\ Booked(d)'
               /\ Made(d) => Made(d)'
               /\ Past(d) => Past(d)'
               /\ ~UnderWay(d) => (Past(d)' <=> Past(d))
               /\ ~Writing(d)'
    <3>1. ~Writing(d)'
      <4>1. Awaited(d)'
          BY AwaitedThen
      <4> QED
          BY <2>2, <4>1 DEF Awaited
    <3>2. op[d] \in Writers => SaveAt[op[d]] \in 0..3 /\ WriteAt[op[d]] \in 2..6
        BY Marks
    <3>3. /\ Booked(d) /\ op'[d] = op[d] /\ (d \in saved' <=> d \in saved)
          /\ pc'[d] = pc[d] \/ pc'[d] = 99
          /\ ~UnderWay(d) => pc'[d] = pc[d]
        BY <1>1, <2>1 DEF Over
    <3>4. Booked(d)'
        BY <2>2, <3>2, <3>3 DEF Booked
    <3>5. (Past(d) => Past(d)') /\ (Made(d) => Made(d)')
        BY <3>2, <3>3 DEF Past, Made, Over
    <3>6. ~UnderWay(d) => (Past(d)' <=> Past(d))
        BY <3>3 DEF Past
    <3> QED
        BY <3>1, <3>4, <3>5, <3>6
  <2>4. Wrote \subseteq Wrote'
      BY <1>2, <2>1, <2>3 DEF Wrote
  <2>5. cut' = {} => cut = {} /\ Wrote' = Wrote
    <3> SUFFICES ASSUME cut' = {} PROVE cut = {} /\ Wrote' = Wrote
        OBVIOUS
    <3>1. cut = {} /\ \A d \in Call : ~UnderWay(d)
        BY <2>1 DEF Running
    <3> QED
        BY <1>2, <2>1, <2>3, <3>1 DEF Wrote
  <2> QED
      BY <1>1, <2>1, <2>3, <2>4, <2>5 DEF BookedInv, Quiet
<1> QED
    BY <1>3, <1>4, <1>5, <1>6 DEF Next, Running

LEMMA QuietKeepsExact ==
    ASSUME ExactInv, BookedInv', Quiet
    PROVE  ExactInv'
<1>1. ASSUME ~disturbed', NEW c \in Call PROVE Current(c)'
    BY <1>1 DEF ExactInv, Quiet, Current
<1>2. ~disturbed' /\ cut' = {} => Cardinality(Wrote)' = FirstTotal'
    BY DEF ExactInv, Quiet, FirstTotal
<1> QED
    BY <1>1, <1>2 DEF ExactInv

\* What a written total is, when it is the first.
LEMMA Written ==
    ASSUME TypeInv, NEW c \in Call, WriteActivity(c)
    PROVE  /\ seen[c] = None => activity' = Append(activity, FirstTotals(c))
           /\ seen[c] # None =>
                /\ seen[c] \in Totals
                /\ Len(activity') = Len(activity)
                /\ \A i \in Records :
                     /\ activity'[i].id = activity[i].id
                     /\ activity'[i].total = IF i \in Replaced(c)
                                             THEN seen[c].total + 1
                                             ELSE activity[i].total
<1>1. /\ seen[c] \in Totals \cup {None} /\ activity \in Seq(Totals)
      /\ Len(activity) \in Nat
      /\ \A i \in Records : activity[i] \in Totals
    BY DEF TypeInv, TypeOK, Records
<1>2. seen[c] = None => activity' = Append(activity, FirstTotals(c))
    BY DEF WriteActivity
<1>3. op[c] \in Writers
    BY AllAwaited DEF Awaited, WriteActivity, Writing
<1>4. ASSUME seen[c] # None
      PROVE  /\ Len(activity') = Len(activity)
             /\ \A i \in Records :
                  /\ activity'[i].id = activity[i].id
                  /\ activity'[i].total = IF i \in Replaced(c)
                                          THEN seen[c].total + 1
                                          ELSE activity[i].total
  <2>1. activity' = [i \in Records |->
          IF i \in Replaced(c) THEN Sum(c, activity[i]) ELSE activity[i]]
      BY <1>4 DEF WriteActivity, Records
  <2>2. Len(activity') = Len(activity)
      BY <1>1, <2>1 DEF Records
  <2>3. ASSUME NEW doc \in Totals
        PROVE  Sum(c, doc).id = doc.id /\ Sum(c, doc).total = seen[c].total + 1
    <3>1. CASE op[c] \in {"txCreate", "trigger"}
        BY <3>1 DEF Sum, Totals
    <3>2. CASE op[c] = "confirm"
        BY <3>2 DEF Sum, Totals
    <3>3. CASE op[c] = "deposit"
        BY <3>3 DEF Sum, Totals
    <3>4. CASE op[c] = "withdraw"
        BY <3>4 DEF Sum, Totals
    <3> QED
        BY <1>3, <3>1, <3>2, <3>3, <3>4 DEF Writers
  <2> QED
      BY <1>1, <2>1, <2>2, <2>3
<1> QED
    BY <1>1, <1>2, <1>4

LEMMA TouchKeepsCurrent ==
    ASSUME ExactInv, TypeInv', NEW c \in Call, UnderWay(c), Step(c), Touches(c),
           ~disturbed', NEW d \in Call, Writing(d)'
    PROVE  /\ d = c /\ FindActivity(c)
           /\ seen'[d] = IF activity' = <<>> THEN None ELSE Head(activity')
<1>1. TypeInv /\ ~disturbed /\ \A e \in Call : Current(e)
    BY StepBooks DEF ExactInv, BookedInv
<1>2. \A e \in Call \ {c} : Writing(e)' <=> Writing(e)
    BY <1>1, OthersStay
<1>3. Writing(c)' => FindActivity(c)
    BY <1>1, OwnMarks
<1>4. CASE FindActivity(c)
  <2>1. \A e \in Call : ~Writing(e)
      BY <1>4 DEF FindActivity, Writing
  <2>2. /\ seen \in [Call -> Totals \cup {None}] /\ activity' = activity
        /\ seen' = [seen EXCEPT ![c] = IF activity = <<>> THEN None
                                       ELSE Head(activity)]
      BY <1>1, <1>4 DEF FindActivity, books, TypeInv, TypeOK
  <2> QED
      BY <1>2, <1>4, <2>1, <2>2
<1>5. CASE ~FindActivity(c)
  <2>1. d # c /\ Writing(d)
      BY <1>2, <1>3, <1>5
  <2>2. ~WriteActivity(c)
      BY <1>1, <2>1 DEF Current, WriteActivity, Writing
  <2>3. ~SaveActivity(c)
      BY <2>1 DEF SaveActivity, Writing
  <2>4. ~(Remove(c) /\ At(c, "deleteActivity"))
      BY DEF Remove
  <2> QED
      BY <1>5, <2>2, <2>3, <2>4 DEF Touches
<1> QED
    BY <1>4, <1>5

LEMMA TouchKeepsCount ==
    ASSUME ExactInv, BookedInv', NEW c \in Call, UnderWay(c), Step(c), Touches(c),
           ~disturbed', cut' = {}
    PROVE  Cardinality(Wrote)' = FirstTotal'
<1>1. /\ BookedInv /\ TypeInv /\ TypeInv' /\ IsFiniteSet(saved)
      /\ ~disturbed /\ cut = {} /\ ~Fail(c)
    BY StepBooks DEF ExactInv, BookedInv
<1>2. Cardinality(Wrote) = FirstTotal /\ Current(c)
    BY <1>1 DEF ExactInv
<1>3. /\ activity \in Seq(Totals) /\ Len(activity) \in Nat
      /\ activity # <<>> => Head(activity) \in Totals /\ Head(activity) = activity[1]
    BY <1>1 DEF TypeInv, TypeOK
<1>4. CASE FindActivity(c)
  <2>1. ~WriteActivity(c) /\ activity' = activity
      BY <1>4 DEF FindActivity, WriteActivity, books, At
  <2>2. Wrote' = Wrote
      BY <1>1, <2>1, WroteStep
  <2> QED
      BY <1>2, <2>1, <2>2 DEF FirstTotal
<1>5. CASE SaveActivity(c)
  <2> DEFINE doc == [id |-> c, total |-> 0, deposits |-> 0, withdraws |-> 0]
  <2>1. ~WriteActivity(c) /\ activity' = Append(activity, doc)
      BY <1>5 DEF SaveActivity, WriteActivity, At
  <2>2. Wrote' = Wrote
      BY <1>1, <2>1, WroteStep
  <2>3. doc.total = 0
      OBVIOUS
  <2> HIDE DEF doc
  <2>4. /\ activity' # <<>>
        /\ Head(activity') = IF activity = <<>> THEN doc ELSE Head(activity)
      BY <1>3, <2>1
  <2> QED
      BY <1>2, <2>2, <2>3, <2>4 DEF FirstTotal
<1>6. CASE WriteActivity(c)
  <2>1. seen[c] = IF activity = <<>> THEN None ELSE Head(activity)
      BY <1>2, <1>6 DEF Current, WriteActivity, Writing
  <2>2. Wrote' = Wrote \cup {c} /\ c \notin Wrote
      BY <1>1, <1>6, WroteStep
  <2>3. IsFiniteSet(Wrote)
      BY <1>1, FS_Subset DEF Wrote
  <2>4. Cardinality(Wrote') = Cardinality(Wrote) + 1
      BY <2>2, <2>3, FS_AddElement
  <2>5. FirstTotal' = FirstTotal + 1
    <3>1. CASE activity = <<>>
      <4>1. activity' = Append(activity, FirstTotals(c))
          BY <1>6, <2>1, <3>1 DEF WriteActivity
      <4>2. FirstTotals(c).total = 1
          BY DEF FirstTotals
      <4> HIDE DEF FirstTotals
      <4>3. activity' # <<>> /\ Head(activity') = FirstTotals(c)
          BY <1>3, <3>1, <4>1
      <4> QED
          BY <3>1, <4>2, <4>3 DEF FirstTotal
    <3>2. CASE activity # <<>>
      <4>1. 1 \in Records /\ seen[c] = activity[1] /\ seen[c] # None
          BY <1>3, <2>1, <3>2, NoneAssumption DEF Records
      <4>2. 1 \in Replaced(c)
          BY <4>1 DEF Replaced, Records
      <4>3. Len(activity') = Len(activity) /\ activity'[1].total = seen[c].total + 1
          BY <1>1, <1>6, <4>1, <4>2, Written
      <4>4. activity' \in Seq(Totals)
          BY <1>1 DEF TypeInv, TypeOK
      <4>5. activity' # <<>> /\ Head(activity') = activity'[1]
          BY <1>3, <3>2, <4>3, <4>4
      <4> QED
          BY <2>1, <3>2, <4>3, <4>5 DEF FirstTotal
    <3> QED
        BY <3>1, <3>2
  <2> QED
      BY <1>2, <2>4, <2>5
<1>7. ~(Remove(c) /\ At(c, "deleteActivity"))
    BY DEF Remove
<1> QED
    BY <1>4, <1>5, <1>6, <1>7 DEF Touches

LEMMA ExactInit == Init => ExactInv
<1> SUFFICES ASSUME Init PROVE ExactInv
    OBVIOUS
<1>1. /\ TypeInv /\ saved = {} /\ IsFiniteSet(saved) /\ Wrote = {}
      /\ \A c \in Call : ~Writing(c) /\ Booked(c)
  <2>1. TypeInv /\ saved = {} /\ \A c \in Call : op[c] = "none"
      BY TypeInit DEF Init
  <2>2. \A c \in Call : ~Writing(c) /\ Booked(c)
      BY <2>1 DEF Writing, At, Awaits, UnderWay, Booked, Writers
  <2> QED
      BY <2>1, <2>2, FS_EmptySet DEF Wrote
<1>2. Cardinality(Wrote) = FirstTotal
  <2> DEFINE doc == [id |-> None, total |-> 0, deposits |-> 0, withdraws |-> 0]
  <2>1. activity = <<doc>> \/ activity = <<>>
      BY DEF Init
  <2>2. FirstTotal = 0
      BY <2>1 DEF FirstTotal
  <2> QED
      BY <1>1, <2>2, FS_EmptySet
<1> QED
    BY <1>1, <1>2 DEF ExactInv, BookedInv, Current

LEMMA ExactNext == ExactInv /\ [Next]_vars => ExactInv'
<1> SUFFICES ASSUME ExactInv, [Next]_vars PROVE ExactInv'
    OBVIOUS
<1>1. BookedInv /\ TypeInv /\ TypeInv'
    BY TypeNext DEF ExactInv, BookedInv
<1>2. BookedInv' /\ (Quiet \/ \E c \in Call : UnderWay(c) /\ Step(c) /\ Touches(c))
    BY <1>1, NextTouches
<1>3. CASE Quiet
    BY <1>2, <1>3, QuietKeepsExact
<1>4. ASSUME NEW c \in Call, UnderWay(c), Step(c), Touches(c)
      PROVE  ExactInv'
  <2>1. ASSUME ~disturbed', NEW d \in Call PROVE Current(d)'
      BY <1>1, <1>4, <2>1, TouchKeepsCurrent DEF Current
  <2>2. ~disturbed' /\ cut' = {} => Cardinality(Wrote)' = FirstTotal'
      BY <1>2, <1>4, TouchKeepsCount
  <2> QED
      BY <1>2, <2>1, <2>2 DEF ExactInv
<1> QED
    BY <1>2, <1>3, <1>4

\* The total a store is shown, and what the calls in flight are yet to add,
\* is the number of all records ever saved, unless a write came between the
\* look and the write of another, a call failed, or the totals were removed.
THEOREM BooksExact == Spec => []LedgerIsExact
<1>1. ExactInv => LedgerIsExact
  <2> SUFFICES ASSUME ExactInv, ~disturbed, cut = {}
               PROVE  LET due == {c \in saved : c \in Running
                            /\ \E i \in (pc[c] + 1)..Len(Program[op[c]]) :
                                 Program[op[c]][i] = "writeActivity"}
                      IN  Cardinality(saved) =
                            (IF activity = <<>> THEN 0 ELSE Head(activity).total)
                              + Cardinality(due)
      BY DEF LedgerIsExact
  <2> DEFINE due == {c \in saved : c \in Running
                       /\ \E i \in (pc[c] + 1)..Len(Program[op[c]]) :
                            Program[op[c]][i] = "writeActivity"}
  <2>1. /\ TypeInv /\ IsFiniteSet(saved) /\ \A c \in Call : Booked(c)
        /\ Cardinality(Wrote) = FirstTotal
      BY DEF ExactInv, BookedInv
  <2>2. due = saved \ Wrote
    <3> SUFFICES ASSUME NEW c \in saved PROVE c \in due <=> ~Past(c)
        BY DEF Wrote
    <3>1. c \in Call /\ op[c] \in Writers /\ op[c] # "none"
        BY <2>1, Marks DEF TypeInv, TypeOK, Booked
    <3>2. pc[c] \in 0..99
        BY <2>1, <3>1 DEF TypeInv, TypeOK, Over
    <3>3. \A i \in 1..Len(Program[op[c]]) :
            Program[op[c]][i] = "writeActivity" <=> i = WriteAt[op[c]] + 1
        BY <3>1, WriterPrograms
    <3>4. WriteAt[op[c]] \in 2..6 /\ WriteAt[op[c]] < Len(Program[op[c]])
          /\ Len(Program[op[c]]) \in 1..8
        BY <3>1, Marks, HandlersAreShort
    <3> DEFINE write == WriteAt[op[c]]
               length == Len(Program[op[c]])
               last == Program[op[c]]
    <3>5. c \in due <=> /\ pc[c] # 99
                        /\ \E i \in (pc[c] + 1)..length : last[i] = "writeActivity"
        BY <3>1 DEF Running, UnderWay, Over
    <3>6. Past(c) <=> pc[c] > write
        BY <3>1 DEF Past
    <3> HIDE DEF due, write, length, last
    <3>7. /\ write \in 2..6 /\ write < length /\ length \in 1..8
          /\ \A i \in 1..length : last[i] = "writeActivity" <=> i = write + 1
        BY <3>3, <3>4 DEF write, length, last
    <3>8. (\E i \in (pc[c] + 1)..length : last[i] = "writeActivity")
            <=> pc[c] <= write
      <4>1. (pc[c] + 1)..length \subseteq 1..length
          BY <3>2, <3>7
      <4>2. (\E i \in (pc[c] + 1)..length : last[i] = "writeActivity")
              <=> write + 1 \in (pc[c] + 1)..length
          BY <3>7, <4>1
      <4> QED
          BY <3>2, <3>7, <4>2
    <3> QED
        BY <3>2, <3>5, <3>6, <3>7, <3>8
  <2>3. Wrote \subseteq saved
      BY DEF Wrote
  <2> HIDE DEF due
  <2>4. IsFiniteSet(Wrote) /\ IsFiniteSet(due)
      BY <2>1, <2>2, <2>3, FS_Subset
  <2>5. saved = Wrote \cup due /\ Wrote \cap due = {}
      BY <2>2, <2>3
  <2>6. /\ Cardinality(Wrote) \in Nat /\ Cardinality(due) \in Nat
        /\ Cardinality(Wrote \cup due) = Cardinality(Wrote) + Cardinality(due)
             - Cardinality(Wrote \cap due)
        /\ Cardinality(Wrote \cap due) = 0
      BY <2>4, <2>5, FS_CardinalityType, FS_Union, FS_EmptySet
  <2>7. Cardinality(saved) = FirstTotal + Cardinality(due)
      BY <2>1, <2>5, <2>6
  <2> QED
      BY <2>7 DEF due, FirstTotal
<1> QED
    BY <1>1, ExactInit, ExactNext, PTL DEF Spec

-----------------------------------------------------------------------------
(***************************************************************************)
(* The sum of all totals.                                                  *)
(*                                                                         *)
(* Without the hypotheses of ExactInv several totals may be stored, and    *)
(* some written back late.  They still count different records: R gives    *)
(* the records each stored total counts, S those counted by the totals     *)
(* that a call has read.  Totals are written back to the first only, which *)
(* IdsInv says, so what a call has read need only be apart from the        *)
(* others.  Each total is thus the size of a set of its own among the      *)
(* records saved, and their sum the size of the union.                     *)
(***************************************************************************)
\* A call that is to write back the totals it has read.
Carries(c) == Writing(c) /\ seen[c] # None

IdsInv ==
    /\ \A i, j \in Records : activity[i].id = activity[j].id => i = j
    /\ \A c \in Call : Carries(c) =>
         \A i \in Records : activity[i].id = seen[c].id => i = 1
    /\ \A d \in Call :
         \/ \E i \in Records : activity[i].id = d
         \/ \E c \in Call : Carries(c) /\ seen[c].id = d
         => Made(d)

Counts(R, S) ==
    /\ \A i \in Records : Cardinality(R[i]) = activity[i].total
    /\ \A i, j \in Records : i # j => R[i] \cap R[j] = {}
    /\ \A c \in Call : Carries(c) =>
         /\ Cardinality(S[c]) = seen[c].total
         /\ \A i \in Records : i # 1 => S[c] \cap R[i] = {}

CountedInv ==
    /\ BookedInv /\ IdsInv
    /\ \E R \in [Records -> SUBSET Wrote], S \in [Call -> SUBSET Wrote] :
         Counts(R, S)

\* What a step that keeps the records and their writers has kept.
Lasting ==
    /\ Wrote \subseteq Wrote'
    /\ \A d \in Call : Made(d) => Made(d)'

CarriesOn(d) == Carries(d)' => Carries(d) /\ seen'[d] = seen[d]

\* The totals stay, and a call may come to carry a copy of the first.
LEMMA LookKeepsCounted ==
    ASSUME CountedInv, BookedInv', Lasting, activity' = activity, NEW c \in Call,
           \A d \in Call \ {c} : CarriesOn(d),
           CarriesOn(c) \/ (activity # <<>> /\ seen'[c] = Head(activity))
                        \/ ~Carries(c)'
    PROVE  CountedInv'
<1>1. PICK R \in [Records -> SUBSET Wrote], S \in [Call -> SUBSET Wrote] :
             Counts(R, S)
    BY DEF CountedInv
<1>2. Records' = Records /\ IdsInv
    BY DEF Records, CountedInv
<1>3. Len(activity) \in Nat /\ activity \in Seq(Totals)
    BY DEF CountedInv, BookedInv, TypeInv, TypeOK
<1>4. CASE \A d \in Call : CarriesOn(d)
  <2>1. IdsInv'
      BY <1>2, <1>4 DEF IdsInv, CarriesOn, Lasting
  <2>2. Counts(R, S)'
      BY <1>1, <1>2, <1>4 DEF Counts, CarriesOn
  <2>3. R \in [Records' -> SUBSET Wrote'] /\ S \in [Call -> SUBSET Wrote']
      BY <1>1, <1>2 DEF Lasting
  <2> QED
      BY <2>1, <2>2, <2>3 DEF CountedInv
<1>5. CASE activity # <<>> /\ seen'[c] = Head(activity) /\ Carries(c)'
  <2>1. 1 \in Records /\ seen'[c] = activity[1]
      BY <1>3, <1>5 DEF Records
  <2>2. PICK T : T = [S EXCEPT ![c] = R[1]]
      OBVIOUS
  <2>3. /\ T[c] = R[1] /\ \A d \in Call \ {c} : T[d] = S[d]
        /\ T \in [Call -> SUBSET Wrote]
      BY <1>1, <2>1, <2>2
  <2>4. IdsInv'
    <3>1. \A d \in Call : Carries(d)' =>
            \A i \in Records : activity[i].id = seen'[d].id => i = 1
        BY <1>2, <2>1 DEF IdsInv, CarriesOn
    <3>2. ASSUME NEW d \in Call,
                 \/ \E i \in Records : activity[i].id = d
                 \/ \E e \in Call : Carries(e)' /\ seen'[e].id = d
          PROVE  Made(d)'
        BY <1>2, <2>1, <3>2 DEF IdsInv, CarriesOn, Lasting
    <3> QED
        BY <1>2, <3>1, <3>2 DEF IdsInv
  <2>5. Counts(R, T)'
    <3>1. ASSUME NEW d \in Call, Carries(d)'
          PROVE  /\ Cardinality(T[d]) = seen'[d].total
                 /\ \A i \in Records : i # 1 => T[d] \cap R[i] = {}
      <4>1. CASE d = c
          BY <1>1, <2>1, <2>3, <4>1 DEF Counts
      <4>2. CASE d # c
          BY <1>1, <2>3, <3>1, <4>2 DEF Counts, CarriesOn
      <4> QED
          BY <4>1, <4>2
    <3> QED
        BY <1>1, <1>2, <3>1 DEF Counts
  <2>6. R \in [Records' -> SUBSET Wrote'] /\ T \in [Call -> SUBSET Wrote']
      BY <1>1, <1>2, <2>3 DEF Lasting
  <2> QED
      BY <2>4, <2>5, <2>6 DEF CountedInv
<1>6. CASE ~Carries(c)'
    BY <1>4, <1>6 DEF CarriesOn
<1> QED
    BY <1>4, <1>5, <1>6

\* A call adds totals of its own record, or of none.
LEMMA NewTotalsKeepCounted ==
    ASSUME CountedInv, BookedInv', Lasting, NEW c \in Call, NEW doc \in Totals,
           activity' = Append(activity, doc), doc.id = c,
           ~Made(c), Made(c)', c \notin Wrote,
           NEW X \in SUBSET {c}, X \subseteq Wrote', Cardinality(X) = doc.total,
           \A d \in Call : CarriesOn(d)
    PROVE  CountedInv'
<1>1. PICK R \in [Records -> SUBSET Wrote], S \in [Call -> SUBSET Wrote] :
             Counts(R, S)
    BY DEF CountedInv
<1>2. IdsInv /\ activity \in Seq(Totals)
    BY DEF CountedInv, BookedInv, TypeInv, TypeOK
<1>3. PICK n \in Nat : n = Len(activity)
    BY <1>2
<1>4. /\ Records = 1..n /\ Records' = 1..(n + 1) /\ n + 1 \in Nat
      /\ activity'[n + 1] = doc
      /\ \A i \in 1..n : activity'[i] = activity[i]
    BY <1>2, <1>3 DEF Records
<1>5. \A i \in 1..(n + 1) : i \in 1..n \/ i = n + 1
    OBVIOUS
<1>6. n + 1 \notin 1..n /\ \A i \in 1..n : i \in 1..(n + 1)
    OBVIOUS
<1>7. \A i \in 1..n : activity[i].id # c
    BY <1>2, <1>4 DEF IdsInv
<1>8. \A d \in Call : Carries(d) => seen[d].id # c
    BY <1>2 DEF IdsInv
<1>9. IdsInv'
  <2>1. ASSUME NEW i \in 1..(n + 1), NEW j \in 1..(n + 1),
               activity'[i].id = activity'[j].id
        PROVE  i = j
      BY <1>2, <1>4, <1>5, <1>7, <2>1 DEF IdsInv
  <2>2. ASSUME NEW d \in Call, Carries(d)', NEW i \in 1..(n + 1),
               activity'[i].id = seen'[d].id
        PROVE  i = 1
    <3>1. Carries(d) /\ seen'[d] = seen[d]
        BY <2>2 DEF CarriesOn
    <3>2. i \in 1..n
        BY <1>4, <1>5, <1>8, <2>2, <3>1
    <3> QED
        BY <1>2, <1>4, <2>2, <3>1, <3>2 DEF IdsInv
  <2>3. ASSUME NEW d \in Call,
               \/ \E i \in 1..(n + 1) : activity'[i].id = d
               \/ \E e \in Call : Carries(e)' /\ seen'[e].id = d
        PROVE  Made(d)'
    <3>1. CASE d = c
        BY <3>1
    <3>2. CASE d # c
      <4>1. \/ \E i \in 1..n : activity[i].id = d
            \/ \E e \in Call : Carries(e) /\ seen[e].id = d
          BY <1>4, <1>5, <2>3, <3>2 DEF CarriesOn
      <4> QED
          BY <1>2, <1>4, <4>1 DEF IdsInv, Lasting
    <3> QED
        BY <3>1, <3>2
  <2> QED
      BY <1>4, <2>1, <2>2, <2>3 DEF IdsInv
<1>10. PICK Q : Q = [i \in 1..(n + 1) |-> IF i = n + 1 THEN X ELSE R[i]]
    OBVIOUS
<1>11. /\ Q[n + 1] = X /\ \A i \in 1..n : Q[i] = R[i]
    BY <1>6, <1>10
<1>12. \A i \in 1..n : R[i] \subseteq Wrote /\ R[i] \cap X = {}
    BY <1>1, <1>4
<1>13. \A d \in Call : S[d] \subseteq Wrote /\ S[d] \cap X = {}
    BY <1>1
<1>14. Q \in [Records' -> SUBSET Wrote'] /\ S \in [Call -> SUBSET Wrote']
  <2>1. \A i \in 1..(n + 1) : Q[i] \in SUBSET Wrote'
      BY <1>5, <1>11, <1>12 DEF Lasting
  <2> QED
      BY <1>1, <1>4, <1>10, <2>1 DEF Lasting
<1>15. Counts(Q, S)'
  <2>1. ASSUME NEW i \in 1..(n + 1) PROVE Cardinality(Q[i]) = activity'[i].total
      BY <1>1, <1>4, <1>5, <1>11 DEF Counts
  <2>2. ASSUME NEW i \in 1..(n + 1), NEW j \in 1..(n + 1), i # j
        PROVE  Q[i] \cap Q[j] = {}
    <3>1. CASE i = n + 1
        BY <1>5, <1>11, <1>12, <2>2, <3>1
    <3>2. CASE j = n + 1
        BY <1>5, <1>11, <1>12, <2>2, <3>2
    <3>3. CASE i \in 1..n /\ j \in 1..n
        BY <1>1, <1>4, <1>11, <2>2, <3>3 DEF Counts
    <3> QED
        BY <1>5, <3>1, <3>2, <3>3
  <2>3. ASSUME NEW d \in Call, Carries(d)'
        PROVE  /\ Cardinality(S[d]) = seen'[d].total
               /\ \A i \in 1..(n + 1) : i # 1 => S[d] \cap Q[i] = {}
    <3>1. Carries(d) /\ seen'[d] = seen[d]
        BY <2>3 DEF CarriesOn
    <3> QED
        BY <1>1, <1>4, <1>5, <1>11, <1>13, <3>1 DEF Counts
  <2> QED
      BY <1>4, <2>1, <2>2, <2>3 DEF Counts
<1> QED
    BY <1>9, <1>14, <1>15 DEF CountedInv

\* A call writes its totals back: the first then counts what the call had
\* read, and its own record.
LEMMA RewriteKeepsCounted ==
    ASSUME CountedInv, BookedInv', Lasting, NEW c \in Call, WriteActivity(c),
           seen[c] # None, c \notin Wrote, c \in Wrote',
           \A d \in Call : CarriesOn(d)
    PROVE  CountedInv'
<1>1. PICK R \in [Records -> SUBSET Wrote], S \in [Call -> SUBSET Wrote] :
             Counts(R, S)
    BY DEF CountedInv
<1>2. /\ IdsInv /\ TypeInv /\ IsFiniteSet(saved)
    BY DEF CountedInv, BookedInv
<1>3. /\ seen[c] \in Totals
      /\ Records' = Records
      /\ \A i \in Records :
           /\ activity'[i].id = activity[i].id
           /\ activity'[i].total = IF i \in Replaced(c)
                                   THEN seen[c].total + 1
                                   ELSE activity[i].total
    BY <1>2, Written DEF Records
<1>4. Carries(c)
    BY DEF Carries, Writing, WriteActivity
<1>5. Replaced(c) \subseteq Records /\ \A i \in Replaced(c) : i = 1
    BY <1>2, <1>4 DEF Replaced, IdsInv, Records
<1>6. IdsInv'
    BY <1>2, <1>3 DEF IdsInv, CarriesOn, Lasting
<1>7. CASE Replaced(c) = {}
  <2>1. Counts(R, S)'
      BY <1>1, <1>3, <1>7 DEF Counts, CarriesOn
  <2>2. R \in [Records' -> SUBSET Wrote'] /\ S \in [Call -> SUBSET Wrote']
      BY <1>1, <1>3 DEF Lasting
  <2> QED
      BY <1>6, <2>1, <2>2 DEF CountedInv
<1>8. CASE Replaced(c) # {}
  <2>1. Replaced(c) = {1} /\ 1 \in Records
      BY <1>5, <1>8
  <2>2. PICK X : X = S[c] \cup {c}
      OBVIOUS
  <2>3. /\ X \subseteq Wrote' /\ Cardinality(X) = seen[c].total + 1
        /\ \A i \in Records : i # 1 => X \cap R[i] = {}
    <3>1. S[c] \subseteq Wrote /\ Wrote \subseteq saved
        BY <1>1 DEF Wrote
    <3>2. IsFiniteSet(S[c]) /\ c \notin S[c]
        BY <1>2, <3>1, FS_Subset
    <3>3. Cardinality(X) = Cardinality(S[c]) + 1
        BY <2>2, <3>2, FS_AddElement
    <3>4. \A i \in Records : R[i] \subseteq Wrote
        BY <1>1
    <3>5. /\ Cardinality(S[c]) = seen[c].total
          /\ \A i \in Records : i # 1 => S[c] \cap R[i] = {}
        BY <1>1, <1>4 DEF Counts
    <3> QED
        BY <2>2, <3>1, <3>3, <3>4, <3>5 DEF Lasting
  <2>4. PICK Q : Q = [R EXCEPT ![1] = X]
      OBVIOUS
  <2>5. Q[1] = X /\ \A i \in Records : i # 1 => Q[i] = R[i]
      BY <1>1, <2>1, <2>4
  <2>6. Q \in [Records' -> SUBSET Wrote'] /\ S \in [Call -> SUBSET Wrote']
    <3>1. \A i \in Records : Q[i] \in SUBSET Wrote'
        BY <1>1, <2>3, <2>5 DEF Lasting
    <3> QED
        BY <1>1, <1>3, <2>4, <3>1 DEF Lasting
  <2>7. Counts(Q, S)'
    <3>1. ASSUME NEW i \in Records PROVE Cardinality(Q[i]) = activity'[i].total
        BY <1>1, <1>3, <2>1, <2>3, <2>5 DEF Counts
    <3>2. ASSUME NEW i \in Records, NEW j \in Records, i # j
          PROVE  Q[i] \cap Q[j] = {}
        BY <1>1, <2>3, <2>5, <3>2 DEF Counts
    <3>3. ASSUME NEW d \in Call, Carries(d)'
          PROVE  /\ Cardinality(S[d]) = seen'[d].total
                 /\ \A i \in Records : i # 1 => S[d] \cap Q[i] = {}
        BY <1>1, <2>5, <3>3 DEF Counts, CarriesOn
    <3> QED
        BY <1>3, <3>1, <3>2, <3>3 DEF Counts
  <2> QED
      BY <1>6, <2>6, <2>7 DEF CountedInv
<1> QED
    BY <1>7, <1>8

\* The records of different totals are counted one after another.
Union(R, s) == UNION {R[i] : i \in s}

LEMMA UnionGrows ==
    ASSUME NEW W, IsFiniteSet(W), NEW R \in [Records -> SUBSET W],
           \A i, j \in Records : i # j => R[i] \cap R[j] = {},
           NEW s \in SUBSET Records, NEW x \in s
    PROVE  /\ Cardinality(Union(R, s)) \in Nat
           /\ Cardinality(R[x]) \in Nat
           /\ Cardinality(Union(R, s)) =
                Cardinality(R[x]) + Cardinality(Union(R, s \ {x}))
<1> DEFINE rest == Union(R, s \ {x})
<1>1. Union(R, s) \subseteq W /\ rest \subseteq W /\ R[x] \subseteq W
    BY DEF Union
<1>2. IsFiniteSet(Union(R, s)) /\ IsFiniteSet(rest) /\ IsFiniteSet(R[x])
    BY <1>1, FS_Subset
<1>3. Union(R, s) = R[x] \cup rest
    BY DEF Union
<1>4. R[x] \cap rest = {}
    BY DEF Union
<1> HIDE DEF rest
<1>5. /\ Cardinality(R[x]) \in Nat /\ Cardinality(rest) \in Nat
      /\ Cardinality(Union(R, s)) \in Nat
    BY <1>2, FS_CardinalityType
<1>6. Cardinality(R[x] \cup rest) =
        Cardinality(R[x]) + Cardinality(rest) - Cardinality(R[x] \cap rest)
    BY <1>2, FS_Union
<1>7. Cardinality(R[x] \cap rest) = 0
    BY <1>4, FS_EmptySet
<1> QED
    BY <1>3, <1>5, <1>6, <1>7 DEF rest

LEMMA SumOfTotals ==
    ASSUME NEW W, IsFiniteSet(W), NEW R \in [Records -> SUBSET W],
           Len(activity) \in Nat,
           \A i \in Records : Cardinality(R[i]) = activity[i].total,
           \A i, j \in Records : i # j => R[i] \cap R[j] = {}
    PROVE  MapThenSumSet(LAMBDA i : activity[i].total, Records)
             = Cardinality(Union(R, Records))
<1> DEFINE pick(s) == CHOOSE x \in s : TRUE
           Body(f) == [s \in SUBSET Records |->
                         IF s = {} THEN 0
                         ELSE activity[pick(s)].total + f[s \ {pick(s)}]]
           iter == CHOOSE f : f = Body(f)
           count == [s \in SUBSET Records |-> Cardinality(Union(R, s))]
<1>1. MapThenSumSet(LAMBDA i : activity[i].total, Records) = iter[Records]
    BY DEF MapThenSumSet, MapThenFoldSet
<1>2. ASSUME NEW s \in SUBSET Records, s # {}
      PROVE  pick(s) \in s
    BY <1>2
<1>3. Union(R, {}) = {} /\ Cardinality(Union(R, {})) = 0
    BY FS_EmptySet DEF Union
<1>4. count = Body(count)
  <2> SUFFICES ASSUME NEW s \in SUBSET Records
               PROVE  count[s] = Body(count)[s]
      OBVIOUS
  <2>1. CASE s = {}
      BY <1>3, <2>1
  <2>2. CASE s # {}
    <3> DEFINE x == pick(s)
    <3>1. x \in s
        BY <1>2, <2>2
    <3> HIDE DEF x
    <3>2. count[s] = Cardinality(R[x]) + count[s \ {x}]
        BY <3>1, UnionGrows
    <3>3. Cardinality(R[x]) = activity[x].total
        BY <3>1
    <3> QED
        BY <2>2, <3>2, <3>3 DEF x
  <2> QED
      BY <2>1, <2>2
<1>5. iter = Body(iter)
  <2>1. \E f : f = Body(f)
      BY <1>4
  <2> QED
      BY <2>1
<1> HIDE DEF iter, count
<1>6. ASSUME NEW s \in SUBSET Records
      PROVE  iter[s] = IF s = {} THEN 0
                       ELSE activity[pick(s)].total + iter[s \ {pick(s)}]
    BY <1>5
<1> DEFINE wrong == {s \in SUBSET Records : iter[s] # count[s]}
<1>7. wrong = {}
  <2> SUFFICES ASSUME wrong # {} PROVE FALSE
      OBVIOUS
  <2>1. IsFiniteSet(Records)
      BY FS_Interval DEF Records
  <2>2. IsWellFoundedOn(StrictSubsetOrdering(Records), SUBSET Records)
      BY <2>1, FS_StrictSubsetOrderingWellFounded, FS_FiniteSubsetsOfFinite
  <2>3. PICK s \in wrong :
          \A r \in wrong : <<r, s>> \notin StrictSubsetOrdering(Records)
    <3>1. wrong \subseteq SUBSET Records
        OBVIOUS
    <3> HIDE DEF wrong
    <3> QED
        BY <2>2, <3>1, WFMin
  <2>4. s \in SUBSET Records /\ iter[s] # count[s]
      OBVIOUS
  <2>5. CASE s = {}
      BY <1>3, <1>6, <2>4, <2>5 DEF count
  <2>6. CASE s # {}
    <3> DEFINE x == pick(s)
    <3>1. x \in s
        BY <1>2, <2>4, <2>6
    <3>2. iter[s] = activity[x].total + iter[s \ {x}]
        BY <1>6, <2>4, <2>6
    <3> HIDE DEF x
    <3>3. s \ {x} \notin wrong
      <4>1. <<s \ {x}, s>> \in StrictSubsetOrdering(Records)
          BY <2>4, <3>1 DEF StrictSubsetOrdering
      <4> QED
          BY <2>3, <4>1
    <3>4. iter[s \ {x}] = count[s \ {x}]
        BY <2>4, <3>3
    <3>5. count[s] = Cardinality(R[x]) + count[s \ {x}]
        BY <2>4, <3>1, UnionGrows DEF count
    <3>6. Cardinality(R[x]) = activity[x].total
        BY <2>4, <3>1
    <3> QED
        BY <2>4, <3>2, <3>4, <3>5, <3>6
  <2> QED
      BY <2>5, <2>6
<1>8. Records \in SUBSET Records
    OBVIOUS
<1> QED
    BY <1>1, <1>7, <1>8 DEF count

LEMMA RemovalKeepsCounted ==
    ASSUME CountedInv, BookedInv', Lasting, activity' = <<>>,
           \A d \in Call : CarriesOn(d)
    PROVE  CountedInv'
<1>1. PICK R \in [Records -> SUBSET Wrote], S \in [Call -> SUBSET Wrote] :
             Counts(R, S)
    BY DEF CountedInv
<1>2. Records' = {}
    BY DEF Records
<1>3. PICK Q : Q = [i \in {} |-> {}]
    OBVIOUS
<1>4. IdsInv'
    BY <1>2 DEF CountedInv, IdsInv, CarriesOn, Lasting
<1>5. Counts(Q, S)'
    BY <1>1, <1>2 DEF Counts, CarriesOn
<1>6. Q \in [Records' -> SUBSET Wrote'] /\ S \in [Call -> SUBSET Wrote']
    BY <1>1, <1>2, <1>3 DEF Lasting
<1> QED
    BY <1>4, <1>5, <1>6 DEF CountedInv

LEMMA TouchKeepsCounted ==
    ASSUME CountedInv, BookedInv', NEW c \in Call, UnderWay(c), Step(c), Touches(c)
    PROVE  CountedInv'
<1>1. /\ BookedInv /\ TypeInv /\ TypeInv'
      /\ activity \in Seq(Totals) /\ seen \in [Call -> Totals \cup {None}]
    BY DEF CountedInv, BookedInv, TypeInv, TypeOK
<1>2. Lasting
  <2>1. Wrote \subseteq Wrote'
      BY <1>1, WroteStep
  <2>2. \A d \in Call : Made(d) => Made(d)'
      BY <1>1, OthersStay, OwnMarks
  <2> QED
      BY <2>1, <2>2 DEF Lasting
<1>3. \A d \in Call \ {c} : CarriesOn(d)
    BY <1>1, OthersStay, StepBooks DEF CarriesOn, Carries
<1>4. CASE FindActivity(c)
  <2>1. activity' = activity
      BY <1>4 DEF FindActivity, books
  <2>2. seen'[c] = IF activity = <<>> THEN None ELSE Head(activity)
      BY <1>1, <1>4 DEF FindActivity
  <2>3. (activity # <<>> /\ seen'[c] = Head(activity)) \/ ~Carries(c)'
      BY <2>2 DEF Carries
  <2> QED
      BY <1>2, <1>3, <2>1, <2>3, LookKeepsCounted
<1>5. CASE ~FindActivity(c)
  <2>1. \A d \in Call : CarriesOn(d)
      BY <1>1, <1>3, <1>5, OwnMarks DEF CarriesOn, Carries
  <2>2. CASE WriteActivity(c)
    <3>1. c \notin Wrote /\ c \in Wrote' /\ ~Made(c) /\ Made(c)'
      <4>1. Writing(c) /\ Awaited(c)
          BY <1>1, <2>2, AllAwaited DEF Writing, WriteActivity
      <4>2. op[c] \in Writers /\ op[c] # "newStore"
          BY <4>1, Marks DEF Awaited
      <4>3. Past(c)' /\ ~Past(c)
          BY <1>1, <4>1, OwnMarks
      <4> QED
          BY <1>1, <2>2, <4>2, <4>3, WroteStep DEF Made
    <3>2. CASE seen[c] = None
      <4>1. activity' = Append(activity, FirstTotals(c)) /\ FirstTotals(c) \in Totals
          BY <1>1, <2>2, <3>2, TotalsStored DEF WriteActivity, TypeInv
      <4>2. FirstTotals(c).id = c /\ FirstTotals(c).total = 1
          BY DEF FirstTotals
      <4>3. {c} \subseteq Wrote' /\ Cardinality({c}) = 1
          BY <3>1, FS_Singleton
      <4> HIDE DEF FirstTotals
      <4> QED
          BY <1>2, <2>1, <3>1, <4>1, <4>2, <4>3, NewTotalsKeepCounted
    <3>3. CASE seen[c] # None
        BY <1>2, <2>1, <2>2, <3>1, <3>3, RewriteKeepsCounted
    <3> QED
        BY <3>2, <3>3
  <2>3. CASE SaveActivity(c)
    <3> DEFINE doc == [id |-> c, total |-> 0, deposits |-> 0, withdraws |-> 0]
    <3>1. doc \in Totals /\ doc.id = c /\ doc.total = 0
        BY DEF Totals
    <3>2. activity' = Append(activity, doc)
        BY <2>3 DEF SaveActivity
    <3>3. ~Made(c) /\ Made(c)' /\ c \notin Wrote
        BY <1>1, <2>3, OwnMarks DEF Wrote
    <3>4. {} \in SUBSET {c} /\ {} \subseteq Wrote' /\ Cardinality({}) = 0
        BY FS_EmptySet
    <3> HIDE DEF doc
    <3> QED
        BY <1>2, <2>1, <3>1, <3>2, <3>3, <3>4, NewTotalsKeepCounted
  <2>4. CASE Remove(c) /\ At(c, "deleteActivity")
    <3>1. activity' = <<>>
        BY <2>4 DEF Remove
    <3> QED
        BY <1>2, <2>1, <3>1, RemovalKeepsCounted
  <2> QED
      BY <1>5, <2>2, <2>3, <2>4 DEF Touches
<1> QED
    BY <1>4, <1>5

LEMMA CountedInit == Init => CountedInv
<1> SUFFICES ASSUME Init PROVE CountedInv
    OBVIOUS
<1> DEFINE doc == [id |-> None, total |-> 0, deposits |-> 0, withdraws |-> 0]
<1>1. BookedInv
    BY ExactInit DEF ExactInv
<1>2. /\ \A c \in Call : ~Carries(c)
      /\ activity = <<doc>> \/ activity = <<>>
    BY DEF Init, Carries, Writing, At, Awaits, UnderWay
<1>3. doc.id = None /\ doc.total = 0
    OBVIOUS
<1> HIDE DEF doc
<1>4. \A i \in Records : i = 1 /\ activity[i] = doc
    BY <1>2 DEF Records
<1>5. IdsInv
    BY <1>2, <1>3, <1>4, NoneAssumption DEF IdsInv
<1>6. PICK R : R = [i \in Records |-> {}]
    OBVIOUS
<1>7. PICK S : S = [c \in Call |-> {}]
    OBVIOUS
<1>8. R \in [Records -> SUBSET Wrote] /\ S \in [Call -> SUBSET Wrote]
    BY <1>6, <1>7
<1>9. Counts(R, S)
  <2>1. \A i \in Records : R[i] = {} /\ Cardinality(R[i]) = activity[i].total
      BY <1>3, <1>4, <1>6, FS_EmptySet
  <2>2. \A i, j \in Records : i # j => R[i] \cap R[j] = {}
      BY <2>1
  <2> QED
      BY <1>2, <2>1, <2>2 DEF Counts
<1> QED
    BY <1>1, <1>5, <1>8, <1>9 DEF CountedInv

LEMMA CountedNext == CountedInv /\ [Next]_vars => CountedInv'
<1> SUFFICES ASSUME CountedInv, [Next]_vars PROVE CountedInv'
    OBVIOUS
<1>1. BookedInv /\ TypeInv /\ TypeInv'
    BY TypeNext DEF CountedInv, BookedInv
<1>2. BookedInv' /\ (Quiet \/ \E c \in Call : UnderWay(c) /\ Step(c) /\ Touches(c))
    BY <1>1, NextTouches
<1>3. CASE Quiet
  <2>1. /\ Lasting /\ activity' = activity
        /\ \A d \in Call : CarriesOn(d)
      BY <1>3 DEF Quiet, Lasting, CarriesOn, Carries
  <2>2. CASE Call = {}
    <3>1. PICK R \in [Records -> SUBSET Wrote], S \in [Call -> SUBSET Wrote] :
                 Counts(R, S)
        BY DEF CountedInv
    <3>2. /\ Records' = Records /\ Counts(R, S)' /\ IdsInv'
          /\ R \in [Records' -> SUBSET Wrote'] /\ S \in [Call -> SUBSET Wrote']
        BY <2>1, <2>2, <3>1 DEF Records, Counts, CountedInv, IdsInv, Lasting
    <3> QED
        BY <1>2, <3>2 DEF CountedInv
  <2>3. ASSUME NEW c \in Call PROVE CountedInv'
      BY <1>2, <2>1, LookKeepsCounted
  <2> QED
      BY <2>2, <2>3
<1>4. CASE \E c \in Call : UnderWay(c) /\ Step(c) /\ Touches(c)
    BY <1>2, <1>4, TouchKeepsCounted
<1> QED
    BY <1>2, <1>3, <1>4

\* However reads and writes of the totals interleave, and whatever fails or
\* is removed between them, the totals never add up to more than the records
\* that were saved.
THEOREM TotalsCounted == Spec => []TotalNeverOverstates
<1>1. CountedInv => TotalNeverOverstates
  <2> SUFFICES ASSUME CountedInv PROVE TotalNeverOverstates
      OBVIOUS
  <2>1. PICK R \in [Records -> SUBSET Wrote], S \in [Call -> SUBSET Wrote] :
               Counts(R, S)
      BY DEF CountedInv
  <2>2. /\ IsFiniteSet(saved) /\ Wrote \subseteq saved /\ Len(activity) \in Nat
      BY DEF CountedInv, BookedInv, TypeInv, TypeOK, Wrote
  <2>3. IsFiniteSet(Wrote)
      BY <2>2, FS_Subset
  <2>4. /\ \A i \in Records : Cardinality(R[i]) = activity[i].total
        /\ \A i, j \in Records : i # j => R[i] \cap R[j] = {}
      BY <2>1 DEF Counts
  <2>5. MapThenSumSet(LAMBDA i : activity[i].total, Records)
          = Cardinality(Union(R, Records))
      BY <2>2, <2>3, <2>4, SumOfTotals
  <2>6. Union(R, Records) \subseteq saved
      BY <2>2 DEF Union
  <2>7. Cardinality(Union(R, Records)) <= Cardinality(saved)
      BY <2>2, <2>6, FS_Subset
  <2> QED
      BY <2>5, <2>7 DEF TotalNeverOverstates, Records
<1> QED
    BY <1>1, CountedInit, CountedNext, PTL DEF Spec

=============================================================================
