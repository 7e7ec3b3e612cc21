-------------------------- MODULE OlderTransfersProofs -------------------------
(***************************************************************************)
(* Proofs about OlderTransfers, for any calls, quotes and keys, and any    *)
(* number of calls in flight.                                              *)
(***************************************************************************)
EXTENDS OlderTransfers, TLAPS

-----------------------------------------------------------------------------
(***************************************************************************)
(* The inductive invariant.                                                *)
(*                                                                         *)
(* Asked says what a call at a step must have been asked, so that the      *)
(* step's quote and key are there.  Wrote says which documents of its      *)
(* quote a call has written by the step it has reached; with               *)
(* RecordsAreTheTransfers it is inductive.  Between says that two calls    *)
(* between a look and its write, or one of them and a call that has        *)
(* written, were seen to overlap.                                          *)
(***************************************************************************)
QuoteSteps == {"findKey", "createKey", "findAccount", "findQuote",
               "findTransfer", "saveTransfer", "saveTx", "saveOrder",
               "saveUsed"}
CheckedSteps == {"findTransfer", "saveTransfer", "saveTx", "saveOrder",
                 "saveUsed"}
AccountSteps == {"lookAccount", "createAccount", "lookDelete", "delete"}

Asked(c) ==
    /\ pc[c] \in QuoteSteps => op[c] \in In \cup Out /\ quote[c] \in Quote
    /\ pc[c] \in {"findKey", "createKey"} => key[c] \in Key
    /\ pc[c] \in AccountSteps => op[c] \in {"account", "deleteAccount"}
    /\ pc[c] \in CheckedSteps => (op[c] \in In <=> quote[c] \in InQuote)
    /\ pc[c] = "saveOrder" => op[c] \in In
    /\ pc[c] = "saveUsed" => op[c] \in MarksUsed

Wrote(c) ==
    /\ pc[c] \in {"saveTx", "saveOrder", "saveUsed"} =>
          transfers[quote[c]] = c
    /\ pc[c] \in {"saveOrder", "saveUsed"} =>
          <<quote[c], c>> \in transactions
    /\ pc[c] = "saveUsed" /\ op[c] \in In => <<quote[c], c>> \in orders
    /\ pc[c] = "ok" /\ op[c] \in In => <<quote[c], c>> \in orders

SameKey(c, d) == pc[c] = "createKey" /\ pc[d] = "createKey" /\ key[c] = key[d]
SameLook(c, d) == pc[c] = "createAccount" /\ pc[d] = "createAccount"

Between ==
    /\ \A c, d \in Call : c # d /\ (SameKey(c, d) \/ SameLook(c, d)) =>
          {c, d} \in overlaps
    /\ \A c \in Call : \A r \in keys :
          pc[c] = "createKey" /\ r[1] = key[c] /\ r[2] # c =>
             {r[2], c} \in overlaps
    /\ \A c \in Call : \A a \in accounts :
          pc[c] = "createAccount" /\ a # c => {a, c} \in overlaps

Inv ==
    /\ TypeOK
    /\ \A c \in Call : Asked(c) /\ Wrote(c)
    /\ RecordsAreTheTransfers
    /\ UsedIsComplete
    /\ Between
    /\ DuplicatesOverlapped

-----------------------------------------------------------------------------
LEMMA Steps ==
    /\ PC = QuoteSteps \cup AccountSteps \cup {"idle", "ok", "refused", "lost"}
    /\ In \cap Out = {}
    /\ In \cup Out \subseteq AllOps
    /\ "account" \notin In \cup Out /\ "deleteAccount" \notin In \cup Out
BY DEF PC, QuoteSteps, AccountSteps, In, Out, AllOps

\* The first await of a handler is one of its own.
LEMMA First ==
    ASSUME NEW o \in AllOps
    PROVE  /\ FirstAwait(o) \in PC
           /\ FirstAwait(o) \in QuoteSteps => o \in In \cup Out
           /\ FirstAwait(o) \in {"findKey", "createKey"} => o \in Gated
           /\ FirstAwait(o) \in AccountSteps =>
                 o \in {"account", "deleteAccount"}
           /\ FirstAwait(o) \notin CheckedSteps \cup {"ok", "createKey",
                                                  "createAccount"}
BY DEF AllOps, FirstAwait, PC, QuoteSteps, AccountSteps, CheckedSteps, In, Out,
       Gated, MarksUsed

\* What follows a saved transaction suits the handler.
LEMMA After ==
    ASSUME NEW c \in Call, op[c] \in In \cup Out
    PROVE  /\ AfterTx(c) \in {"saveOrder", "saveUsed", "ok"}
           /\ AfterTx(c) = "saveOrder" <=> op[c] \in In
           /\ AfterTx(c) = "saveUsed" => op[c] = "fcOut"
BY DEF AfterTx, In, Out

LEMMA TypeInit == Init => TypeOK
BY DEF Init, TypeOK, AccountId, PC

LEMMA TypeNext ==
    ASSUME TypeOK, \A c \in Call : Asked(c), [Next]_vars
    PROVE  TypeOK'
<1> USE DEF TypeOK, At, Goto, Read, asked, records, AccountId
<1>1. CASE UNCHANGED vars
    BY <1>1 DEF vars
<1>2. CASE Crash
    BY <1>2 DEF Crash, PC
<1>3. ASSUME NEW c \in Call, NEW o \in Ops, NEW q \in Quote \cup {None},
             NEW k \in Key \cup {None}, NEW a \in AccountId \cup {None},
             Start(c, o, q, k, a)
      PROVE  TypeOK'
    BY <1>3, First, OpsAssumption DEF Start
<1>4. ASSUME NEW c \in Call, Step(c) PROVE TypeOK'
  <2>0. Asked(c)
      OBVIOUS
  <2>1. CASE FindKey(c) \/ LookAccount(c)
      BY <2>1 DEF FindKey, LookAccount, Look, PC
  <2>2. CASE CreateKey(c)
      BY <2>0, <2>2 DEF CreateKey, Asked, PC
  <2>3. CASE FindAccount(c)
      BY <2>3 DEF FindAccount, PC
  <2>4. CASE FindQuote(c) \/ FindTransfer(c) \/ LookDelete(c) \/ SaveFails(c)
      BY <2>4 DEF FindQuote, FindTransfer, LookDelete, SaveFails, PC
  <2>5. CASE SaveTransfer(c)
      BY <2>0, <2>5 DEF SaveTransfer, PC
  <2>6. CASE SaveTx(c)
      BY <2>0, <2>6, After DEF SaveTx, Asked, QuoteSteps, PC
  <2>7. CASE SaveOrder(c)
      BY <2>0, <2>7 DEF SaveOrder, Asked, QuoteSteps, PC
  <2>8. CASE SaveUsed(c)
      BY <2>0, <2>8 DEF SaveUsed, Asked, QuoteSteps, PC
  <2>9. CASE CreateAccount(c) \/ Delete(c)
      BY <2>9 DEF CreateAccount, Delete, PC
  <2> QED
      BY <1>4, <2>1, <2>2, <2>3, <2>4, <2>5, <2>6, <2>7, <2>8, <2>9 DEF Step
<1> QED
    BY <1>1, <1>2, <1>3, <1>4 DEF Next

-----------------------------------------------------------------------------
\* A step of one call leaves every other where it is, and a crash loses it.
LEMMA Others ==
    ASSUME TypeOK, [Next]_vars, NEW d \in Call
    PROVE  \/ Step(d)
           \/ \E o \in Ops, q \in Quote \cup {None}, k \in Key \cup {None},
                a \in AccountId \cup {None} : Start(d, o, q, k, a)
           \/ /\ pc'[d] \in {pc[d], "lost"}
              /\ op'[d] = op[d] /\ quote'[d] = quote[d] /\ key'[d] = key[d]
<1> USE DEF TypeOK, Goto, Read, asked, records
<1>1. CASE UNCHANGED vars
    BY <1>1 DEF vars
<1>2. CASE Crash
    BY <1>2 DEF Crash
<1>3. ASSUME NEW c \in Call, c # d, NEW o \in Ops,
             NEW q \in Quote \cup {None}, NEW k \in Key \cup {None},
             NEW a \in AccountId \cup {None}, Start(c, o, q, k, a)
      PROVE  /\ pc'[d] = pc[d] /\ op'[d] = op[d]
             /\ quote'[d] = quote[d] /\ key'[d] = key[d]
    BY <1>3 DEF Start
<1>4. ASSUME NEW c \in Call, c # d, Step(c)
      PROVE  /\ pc'[d] = pc[d] /\ op'[d] = op[d]
             /\ quote'[d] = quote[d] /\ key'[d] = key[d]
    BY <1>4 DEF Step, FindKey, LookAccount, Look, CreateKey, FindAccount,
       FindQuote, FindTransfer, LookDelete, SaveFails, SaveTransfer, SaveTx,
       SaveOrder, SaveUsed, CreateAccount, Delete
<1> HIDE DEF TypeOK, Goto, Read, asked, records
<1>5. CASE \E c \in Call, o \in Ops, q \in Quote \cup {None},
             k \in Key \cup {None}, a \in AccountId \cup {None} :
             Start(c, o, q, k, a)
    BY <1>3, <1>5
<1>6. CASE \E c \in Call : Step(c)
    BY <1>4, <1>6
<1> QED
    BY <1>1, <1>2, <1>5, <1>6 DEF Next

LEMMA AskedNext ==
    ASSUME TypeOK, [Next]_vars, NEW d \in Call, Asked(d)
    PROVE  Asked(d)'
<1> USE DEF TypeOK, At, Goto, Read, asked, Asked, QuoteSteps, CheckedSteps,
            AccountSteps
<1>1. CASE /\ pc'[d] \in {pc[d], "lost"}
           /\ op'[d] = op[d] /\ quote'[d] = quote[d] /\ key'[d] = key[d]
    BY <1>1
<1>2. ASSUME NEW o \in Ops, NEW q \in Quote \cup {None},
             NEW k \in Key \cup {None}, NEW a \in AccountId \cup {None},
             Start(d, o, q, k, a)
      PROVE  Asked(d)'
  <2>1. pc'[d] = FirstAwait(o) /\ op'[d] = o /\ quote'[d] = q /\ key'[d] = k
      BY <1>2 DEF Start
  <2>2. o \in In \cup Out => q \in Quote
      BY <1>2 DEF Start
  <2>3. o \in Gated => k \in Key
      BY <1>2 DEF Start
  <2> QED
      BY <2>1, <2>2, <2>3, First, OpsAssumption
<1>3. CASE FindKey(d) \/ LookAccount(d)
    BY <1>3 DEF FindKey, LookAccount, Look
<1>4. CASE CreateKey(d) \/ FindAccount(d)
    BY <1>4 DEF CreateKey, FindAccount
<1>5. CASE FindQuote(d)
    BY <1>5, Steps DEF FindQuote
<1>6. CASE FindTransfer(d) \/ LookDelete(d) \/ SaveFails(d) \/ SaveTransfer(d)
    BY <1>6 DEF FindTransfer, LookDelete, SaveFails, SaveTransfer
<1>7. CASE SaveTx(d)
    BY <1>7, After DEF SaveTx, MarksUsed
<1>8. CASE SaveOrder(d)
    BY <1>8 DEF SaveOrder, MarksUsed
<1>9. CASE SaveUsed(d) \/ CreateAccount(d) \/ Delete(d)
    BY <1>9 DEF SaveUsed, CreateAccount, Delete
<1> QED
    BY <1>1, <1>2, <1>3, <1>4, <1>5, <1>6, <1>7, <1>8, <1>9, Others DEF Step

-----------------------------------------------------------------------------
\* No handler takes a document of a transfer back, or gives it another owner.
LEMMA Grows ==
    ASSUME TypeOK, \A c \in Call : Asked(c), [Next]_vars
    PROVE  /\ transactions \subseteq transactions' /\ orders \subseteq orders'
           /\ \A q \in Quote :
                 transfers[q] # None => transfers'[q] = transfers[q]
<1> USE DEF TypeOK, Goto, Read, asked, records
<1>1. CASE UNCHANGED vars
    BY <1>1 DEF vars
<1>2. CASE Crash
    BY <1>2 DEF Crash
<1>3. CASE \E c \in Call, o \in Ops, q \in Quote \cup {None},
             k \in Key \cup {None}, a \in AccountId \cup {None} :
             Start(c, o, q, k, a)
    BY <1>3 DEF Start
<1>4. ASSUME NEW c \in Call, Step(c)
      PROVE  /\ transactions \subseteq transactions' /\ orders \subseteq orders'
             /\ \A q \in Quote :
                   transfers[q] # None => transfers'[q] = transfers[q]
    BY <1>4 DEF Step, FindKey, LookAccount, Look, CreateKey, FindAccount,
       FindQuote, FindTransfer, LookDelete, SaveFails, SaveTransfer, SaveTx,
       SaveOrder, SaveUsed, CreateAccount, Delete
<1> QED
    BY <1>1, <1>2, <1>3, <1>4 DEF Next

LEMMA WroteNext ==
    ASSUME TypeOK, \A c \in Call : Asked(c), [Next]_vars,
           NEW d \in Call, Wrote(d)
    PROVE  Wrote(d)'
<1>0. /\ transactions \subseteq transactions' /\ orders \subseteq orders'
      /\ \A q \in Quote : transfers[q] = d => transfers'[q] = d
    BY Grows, NoneAssumption
<1>1. Asked(d)
    OBVIOUS
<1> USE DEF TypeOK, At, Goto, Read, asked, Wrote
<1>2. CASE /\ pc'[d] \in {pc[d], "lost"}
           /\ op'[d] = op[d] /\ quote'[d] = quote[d] /\ key'[d] = key[d]
    BY <1>0, <1>1, <1>2 DEF Asked, QuoteSteps
<1>3. ASSUME NEW o \in Ops, NEW q \in Quote \cup {None},
             NEW k \in Key \cup {None}, NEW a \in AccountId \cup {None},
             Start(d, o, q, k, a)
      PROVE  Wrote(d)'
  <2>1. pc'[d] = FirstAwait(o)
      BY <1>3 DEF Start
  <2> QED
      BY <2>1, First, OpsAssumption DEF CheckedSteps
<1>4. CASE FindKey(d) \/ LookAccount(d)
    BY <1>4 DEF FindKey, LookAccount, Look
<1>5. CASE CreateKey(d) \/ FindAccount(d)
    BY <1>5 DEF CreateKey, FindAccount
<1>6. CASE FindQuote(d) \/ FindTransfer(d) \/ LookDelete(d) \/ SaveFails(d)
    BY <1>6 DEF FindQuote, FindTransfer, LookDelete, SaveFails
<1>7. CASE SaveTransfer(d)
    BY <1>1, <1>7 DEF SaveTransfer, Asked, QuoteSteps
<1>8. CASE SaveTx(d)
    BY <1>0, <1>1, <1>8, After, Steps DEF SaveTx, Asked, QuoteSteps, Out
<1>9. CASE SaveOrder(d)
    BY <1>0, <1>1, <1>9 DEF SaveOrder, Asked, QuoteSteps
<1>10. CASE SaveUsed(d)
    BY <1>0, <1>1, <1>10 DEF SaveUsed, Asked, QuoteSteps
<1>11. CASE CreateAccount(d) \/ Delete(d)
    BY <1>1, <1>11, Steps DEF CreateAccount, Delete, Asked, AccountSteps
<1> QED
    BY <1>2, <1>3, <1>4, <1>5, <1>6, <1>7, <1>8, <1>9, <1>10, <1>11, Others
    DEF Step

-----------------------------------------------------------------------------
LEMMA RecordsNext ==
    ASSUME TypeOK, \A c \in Call : Asked(c) /\ Wrote(c), [Next]_vars,
           RecordsAreTheTransfers
    PROVE  RecordsAreTheTransfers'
<1>1. ASSUME NEW r \in transactions \cup orders
      PROVE  transfers'[r[1]] = r[2]
  <2>1. r[1] \in Quote /\ r[2] \in Call /\ transfers[r[1]] = r[2]
      BY <1>1 DEF TypeOK, RecordsAreTheTransfers
  <2> QED
      BY <2>1, Grows, NoneAssumption
<1> USE DEF Goto, Read, asked, records
<1>2. CASE /\ transactions' = transactions
           /\ orders' = orders
    BY <1>1, <1>2 DEF RecordsAreTheTransfers
<1>3. ASSUME NEW c \in Call, SaveTx(c) \/ SaveOrder(c)
      PROVE  RecordsAreTheTransfers'
  <2>1. /\ transactions' \cup orders' = transactions \cup orders
                                            \cup {<<quote[c], c>>}
        /\ transfers' = transfers
      BY <1>3 DEF SaveTx, SaveOrder
  <2>2. transfers[quote[c]] = c
      BY <1>3 DEF SaveTx, SaveOrder, At, Wrote
  <2> QED
      BY <1>1, <2>1, <2>2 DEF RecordsAreTheTransfers
<1>4. ASSUME NEW c \in Call, Step(c)
      PROVE  SaveTx(c) \/ SaveOrder(c) \/ (transactions' = transactions
                                            /\ orders' = orders)
    BY <1>4 DEF Step, FindKey, LookAccount, Look, CreateKey, FindAccount,
       FindQuote, FindTransfer, LookDelete, SaveFails, SaveTransfer,
       SaveUsed, CreateAccount, Delete
<1>5. CASE UNCHANGED vars \/ Crash
    BY <1>2, <1>5 DEF vars, Crash
<1>6. CASE \E c \in Call, o \in Ops, q \in Quote \cup {None},
             k \in Key \cup {None}, a \in AccountId \cup {None} :
             Start(c, o, q, k, a)
    BY <1>2, <1>6 DEF Start
<1> QED
    BY <1>2, <1>3, <1>4, <1>5, <1>6 DEF Next

LEMMA UsedNext ==
    ASSUME TypeOK, \A c \in Call : Asked(c) /\ Wrote(c), [Next]_vars,
           UsedIsComplete
    PROVE  UsedIsComplete'
<1>1. transactions \subseteq transactions' /\ orders \subseteq orders'
    BY Grows
<1> USE DEF Goto, Read, asked, records
<1>2. CASE used' = used
    BY <1>1, <1>2 DEF UsedIsComplete
<1>3. ASSUME NEW c \in Call, SaveUsed(c)
      PROVE  UsedIsComplete'
  <2>1. /\ <<quote[c], c>> \in transactions
        /\ quote[c] \in InQuote => <<quote[c], c>> \in orders
      BY <1>3 DEF SaveUsed, At, Asked, Wrote, CheckedSteps
  <2>2. used' = used \cup {quote[c]}
      BY <1>3 DEF SaveUsed
  <2> QED
      BY <1>1, <2>1, <2>2 DEF UsedIsComplete
<1>4. ASSUME NEW c \in Call, Step(c)
      PROVE  SaveUsed(c) \/ used' = used
    BY <1>4 DEF Step, FindKey, LookAccount, Look, CreateKey, FindAccount,
       FindQuote, FindTransfer, LookDelete, SaveFails, SaveTransfer, SaveTx,
       SaveOrder, CreateAccount, Delete
<1>5. CASE UNCHANGED vars \/ Crash
    BY <1>2, <1>5 DEF vars, Crash
<1>6. CASE \E c \in Call, o \in Ops, q \in Quote \cup {None},
             k \in Key \cup {None}, a \in AccountId \cup {None} :
             Start(c, o, q, k, a)
    BY <1>2, <1>6 DEF Start
<1> QED
    BY <1>2, <1>3, <1>4, <1>5, <1>6 DEF Next

-----------------------------------------------------------------------------
\* A step that brings no call between a look and its write, and writes nothing
\* that is looked for.
Quiet ==
    /\ keys' = keys /\ accounts' \subseteq accounts /\ overlaps' = overlaps
    /\ \A d \in Call : pc'[d] \in {"createKey", "createAccount"} =>
          pc'[d] = pc[d] /\ key'[d] = key[d]

LEMMA QuietKeeps ==
    ASSUME Between, DuplicatesOverlapped, Quiet
    PROVE  Between' /\ DuplicatesOverlapped'
BY DEF Between, DuplicatesOverlapped, Quiet, SameKey, SameLook

LEMMA StepIsQuiet ==
    ASSUME TypeOK, NEW c \in Call, Step(c)
    PROVE  \/ FindKey(c) \/ CreateKey(c) \/ LookAccount(c) \/ CreateAccount(c)
           \/ Quiet
<1> USE DEF Quiet, TypeOK, At, Goto, Read, asked, records
<1>1. CASE FindAccount(c) \/ FindQuote(c) \/ FindTransfer(c)
    BY <1>1 DEF FindAccount, FindQuote, FindTransfer
<1>2. CASE LookDelete(c) \/ Delete(c) \/ SaveFails(c)
    BY <1>2 DEF LookDelete, Delete, SaveFails
<1>3. CASE SaveTransfer(c) \/ SaveOrder(c) \/ SaveUsed(c)
    BY <1>3 DEF SaveTransfer, SaveOrder, SaveUsed
<1>4. CASE SaveTx(c)
  <2>1. pc'[c] \notin {"createKey", "createAccount"}
      BY <1>4 DEF SaveTx, AfterTx
  <2> QED
      BY <1>4, <2>1 DEF SaveTx
<1> QED
    BY <1>1, <1>2, <1>3, <1>4 DEF Step

LEMMA LookKeeps ==
    ASSUME TypeOK, Between, DuplicatesOverlapped, NEW c \in Call,
           FindKey(c) \/ LookAccount(c)
    PROVE  Between' /\ DuplicatesOverlapped'
<1>1. /\ UNCHANGED <<records, asked>>
      /\ overlaps \subseteq overlaps'
      /\ \A d \in Call \ {c} : pc'[d] = pc[d]
    BY DEF TypeOK, FindKey, LookAccount, Look, Goto
<1>2. DuplicatesOverlapped'
    BY <1>1 DEF DuplicatesOverlapped, records
<1>3. CASE FindKey(c)
  <2>1. CASE pc'[c] = "createKey"
    <3>1. \A r \in keys : r[1] # key[c]
        BY <1>3, <2>1 DEF FindKey, Look, Goto, TypeOK
    <3>2. \A d \in Call : pc[d] = "createKey" /\ key[d] = key[c] =>
             {c, d} \in overlaps'
        BY <1>3, <3>1 DEF FindKey, Look, At
    <3> QED
        BY <1>1, <1>2, <2>1, <3>1, <3>2 DEF Between, SameKey, SameLook,
           records, asked
  <2>2. CASE pc'[c] = "refused"
      BY <1>1, <1>2, <2>2 DEF Between, SameKey, SameLook, records, asked
  <2>3. pc'[c] \in {"createKey", "refused"}
      BY <1>3 DEF FindKey, Look, Goto, TypeOK
  <2> QED
      BY <2>1, <2>2, <2>3
<1>4. CASE LookAccount(c)
  <2>1. CASE pc'[c] = "createAccount"
    <3>1. accounts = {}
        BY <1>4, <2>1 DEF LookAccount, Look, Goto, TypeOK
    <3>2. \A d \in Call : pc[d] = "createAccount" => {c, d} \in overlaps'
        BY <1>4, <3>1 DEF LookAccount, Look, At
    <3> QED
        BY <1>1, <1>2, <2>1, <3>1, <3>2 DEF Between, SameKey, SameLook,
           records, asked
  <2>2. CASE pc'[c] = "refused"
      BY <1>1, <1>2, <2>2 DEF Between, SameKey, SameLook, records, asked
  <2>3. pc'[c] \in {"createAccount", "refused"}
      BY <1>4 DEF LookAccount, Look, Goto, TypeOK
  <2> QED
      BY <2>1, <2>2, <2>3
<1> QED
    BY <1>2, <1>3, <1>4

LEMMA WriteKeeps ==
    ASSUME TypeOK, Between, DuplicatesOverlapped, NEW c \in Call,
           CreateKey(c) \/ CreateAccount(c)
    PROVE  Between' /\ DuplicatesOverlapped'
<1>1. /\ UNCHANGED <<asked, overlaps>>
      /\ pc'[c] \notin {"createKey", "createAccount"}
      /\ \A d \in Call \ {c} : pc'[d] = pc[d]
    BY DEF TypeOK, CreateKey, CreateAccount, Goto
<1>2. CASE CreateKey(c)
  <2>1. pc[c] = "createKey" /\ keys' = keys \cup {<<key[c], c>>}
        /\ accounts' = accounts
      BY <1>2 DEF CreateKey, At
  <2>2. \A r \in keys : r[1] = key[c] /\ r[2] # c => {r[2], c} \in overlaps
      BY <2>1 DEF Between
  <2>3. \A d \in Call : d # c /\ pc[d] = "createKey" /\ key[d] = key[c] =>
           {c, d} \in overlaps
      BY <2>1 DEF Between, SameKey
  <2>4. \A r \in keys : r = <<r[1], r[2]>>
      BY DEF TypeOK
  <2>5. Between'
      BY <1>1, <2>1, <2>3 DEF Between, SameKey, SameLook, asked
  <2>6. ASSUME NEW r \in keys', NEW s \in keys', r[1] = s[1], r # s
        PROVE  {r[2], s[2]} \in overlaps'
    <3>1. CASE r \in keys /\ s \in keys
        BY <1>1, <2>6, <3>1 DEF DuplicatesOverlapped
    <3>2. CASE r = <<key[c], c>> /\ s \in keys
        BY <1>1, <2>2, <2>4, <2>6, <3>2
    <3>3. CASE s = <<key[c], c>> /\ r \in keys
        BY <1>1, <2>2, <2>4, <2>6, <3>3
    <3> QED
        BY <2>1, <2>6, <3>1, <3>2, <3>3
  <2> QED
      BY <1>1, <2>1, <2>5, <2>6 DEF DuplicatesOverlapped
<1>3. CASE CreateAccount(c)
  <2>1. pc[c] = "createAccount" /\ accounts' = accounts \cup {c}
        /\ keys' = keys
      BY <1>3 DEF CreateAccount, At
  <2>2. \A a \in accounts : a # c => {a, c} \in overlaps
      BY <2>1 DEF Between
  <2>3. \A d \in Call : d # c /\ pc[d] = "createAccount" =>
           {c, d} \in overlaps
      BY <2>1 DEF Between, SameLook
  <2>4. Between'
      BY <1>1, <2>1, <2>3 DEF Between, SameKey, SameLook, asked
  <2>5. \A a, b \in accounts' : a # b => {a, b} \in overlaps'
      BY <1>1, <2>1, <2>2 DEF DuplicatesOverlapped
  <2> QED
      BY <1>1, <2>1, <2>4, <2>5 DEF DuplicatesOverlapped
<1> QED
    BY <1>2, <1>3

LEMMA BetweenNext ==
    ASSUME TypeOK, [Next]_vars, Between, DuplicatesOverlapped
    PROVE  Between' /\ DuplicatesOverlapped'
<1>1. CASE UNCHANGED vars \/ Crash
  <2>1. Quiet
      BY <1>1 DEF Quiet, vars, records, asked, Crash
  <2> QED
      BY <2>1, QuietKeeps
<1>2. ASSUME NEW c \in Call, NEW o \in Ops, NEW q \in Quote \cup {None},
             NEW k \in Key \cup {None}, NEW a \in AccountId \cup {None},
             Start(c, o, q, k, a)
      PROVE  Quiet
  <2>1. FirstAwait(o) \notin {"createKey", "createAccount"}
      BY First, OpsAssumption
  <2> QED
      BY <1>2, <2>1 DEF Start, Quiet, TypeOK, records
<1>3. ASSUME NEW c \in Call, Step(c)
      PROVE  Between' /\ DuplicatesOverlapped'
    BY <1>3, StepIsQuiet, QuietKeeps, LookKeeps, WriteKeeps
<1> QED
    BY <1>1, <1>2, <1>3, QuietKeeps DEF Next

-----------------------------------------------------------------------------
(* The theorems                                                            *)

LEMMA InvInit == Init => Inv
<1> SUFFICES ASSUME Init PROVE Inv
    OBVIOUS
<1>1. \A c \in Call : Asked(c) /\ Wrote(c)
    BY DEF Init, Asked, Wrote, QuoteSteps, AccountSteps, CheckedSteps
<1>2. RecordsAreTheTransfers /\ UsedIsComplete
    BY DEF Init, RecordsAreTheTransfers, UsedIsComplete
<1>3. Between /\ DuplicatesOverlapped
    BY DEF Init, Between, SameKey, SameLook, DuplicatesOverlapped
<1> QED
    BY <1>1, <1>2, <1>3, TypeInit DEF Inv

LEMMA InvNext == Inv /\ [Next]_vars => Inv'
BY TypeNext, AskedNext, WroteNext, RecordsNext, UsedNext, BetweenNext DEF Inv

LEMMA Invariant == Spec => []Inv
BY InvInit, InvNext, PTL DEF Spec

\* Every reachable state is well typed, for any calls, quotes and keys.
THEOREM TypeCorrect == Spec => []TypeOK
<1>1. Inv => TypeOK
    BY DEF Inv
<1> QED
    BY <1>1, Invariant, PTL

\* Whichever of the older handlers race for a quote, the transaction and the
\* order it has are of the call that saved its transfer.
THEOREM OneCallMakesTheRecords == Spec => []RecordsAreTheTransfers
<1>1. Inv => RecordsAreTheTransfers
    BY DEF Inv
<1> QED
    BY <1>1, Invariant, PTL

\* A quote is used only with all its records there, whatever failed.
THEOREM UsedComplete == Spec => []UsedIsComplete
<1>1. Inv => UsedIsComplete
    BY DEF Inv
<1> QED
    BY <1>1, Invariant, PTL

\* A purchase that was answered with success has its order.
THEOREM AcceptedOrdered == Spec => []AcceptedHasOrder
<1>1. Inv => AcceptedHasOrder
    BY DEF Inv, Wrote, AcceptedHasOrder, At
<1> QED
    BY <1>1, Invariant, PTL

\* Two keys or two accounts where one should be come only from two looks that
\* overlapped.
THEOREM OnlyOverlapsDuplicate == Spec => []DuplicatesOverlapped
<1>1. Inv => DuplicatesOverlapped
    BY DEF Inv
<1> QED
    BY <1>1, Invariant, PTL
=============================================================================
