----------------------------- MODULE RecordsProofs -----------------------------
(***************************************************************************)
(* Proofs about Emulator, Kyc and StoreKyc, for any users, sockets,        *)
(* deliveries, requests, stores and runs of the cron job.                  *)
(***************************************************************************)
EXTENDS Records, TLAPS

-----------------------------------------------------------------------------
(***************************************************************************)
(* The invariant of the registry.  FromJoins says that what it and the     *)
(* latest joins name is a socket the user has joined over: a disconnect    *)
(* that leaves a stale entry thus leaves the trace of the user whose entry *)
(* it removed.                                                             *)
(***************************************************************************)
SocketsOK ==
    /\ live \subseteq Socket
    /\ userConnections \in [User -> Socket \cup {None}]
    /\ latest \in [User -> Socket \cup {None}]

FromJoins ==
    \A u \in User :
        /\ userConnections[u] # None => <<u, userConnections[u]>> \in joined
        /\ latest[u] # None => <<u, latest[u]>> \in joined

SocketsInv == SocketsOK /\ FromJoins /\ NewerJoinSurvives /\ StaleOnlyIfShared

LEMMA SocketsInit == Init => SocketsInv
BY NoneAssumption DEF Init, SocketsInv, SocketsOK, FromJoins, NewerJoinSurvives,
   StaleOnlyIfShared

LEMMA ConnectKeeps ==
    ASSUME SocketsInv, NEW s \in Socket, Connect(s)
    PROVE  SocketsInv'
<1>1. SocketsOK' /\ FromJoins'
    BY DEF SocketsInv, SocketsOK, FromJoins, Connect
<1>2. NewerJoinSurvives'
  <2>1. \A u \in User : latest[u] # s
      BY NoneAssumption DEF SocketsInv, FromJoins, Connect
  <2> QED
      BY <2>1 DEF SocketsInv, NewerJoinSurvives, Connect
<1>3. StaleOnlyIfShared'
    BY DEF SocketsInv, StaleOnlyIfShared, Connect
<1> QED
    BY <1>1, <1>2, <1>3 DEF SocketsInv

LEMMA JoinKeeps ==
    ASSUME SocketsInv, NEW u \in User, NEW s \in Socket, Join(u, s)
    PROVE  SocketsInv'
<1>1. SocketsOK'
    BY DEF SocketsInv, SocketsOK, Join
<1>2. FromJoins'
    BY DEF SocketsInv, SocketsOK, FromJoins, Join
<1>3. NewerJoinSurvives'
    BY DEF SocketsInv, SocketsOK, NewerJoinSurvives, Join
<1>4. StaleOnlyIfShared'
    BY DEF SocketsInv, SocketsOK, StaleOnlyIfShared, Join
<1> QED
    BY <1>1, <1>2, <1>3, <1>4 DEF SocketsInv

\* The entry a disconnect removes is of the socket that is gone, so a newer
\* join stays; whoever else has an entry for it keeps a stale one.
LEMMA DisconnectKeeps ==
    ASSUME SocketsInv, NEW s \in Socket, Disconnect(s)
    PROVE  SocketsInv'
<1>1. CASE \E u \in User : userConnections[u] = s
  <2>1. PICK v \in User :
             /\ userConnections[v] = s
             /\ userConnections' = [userConnections EXCEPT ![v] = None]
      BY <1>1 DEF Disconnect
  <2>2. live' = live \ {s} /\ joined' = joined /\ latest' = latest
      BY DEF Disconnect
  <2>3. SocketsOK' /\ FromJoins'
      BY <2>1, <2>2 DEF SocketsInv, SocketsOK, FromJoins
  <2>4. NewerJoinSurvives'
      BY <2>1, <2>2 DEF SocketsInv, SocketsOK, NewerJoinSurvives
  <2>5. <<v, s>> \in joined
      BY <2>1, NoneAssumption DEF SocketsInv, FromJoins
  <2>6. StaleOnlyIfShared'
    <3> SUFFICES ASSUME NEW u \in User, userConnections'[u] \in Socket \ live'
                 PROVE  \E w \in User \ {u} :
                           <<w, userConnections'[u]>> \in joined'
        BY DEF StaleOnlyIfShared
    <3>1. u # v /\ userConnections'[u] = userConnections[u]
        BY <2>1, NoneAssumption DEF SocketsInv, SocketsOK
    <3>2. CASE userConnections[u] = s
        BY <2>2, <2>5, <3>1, <3>2
    <3>3. CASE userConnections[u] # s
        BY <2>2, <3>1, <3>3 DEF SocketsInv, StaleOnlyIfShared
    <3> QED
        BY <3>2, <3>3
  <2> QED
      BY <2>3, <2>4, <2>6 DEF SocketsInv
<1>2. CASE \A u \in User : userConnections[u] # s
  <2>1. /\ live' = live \ {s}
        /\ UNCHANGED <<userConnections, joined, latest>>
      BY <1>2 DEF Disconnect
  <2> QED
      BY <1>2, <2>1 DEF SocketsInv, SocketsOK, FromJoins, NewerJoinSurvives,
         StaleOnlyIfShared
<1> QED
    BY <1>1, <1>2

LEMMA SocketsNext == SocketsInv /\ [Next]_vars => SocketsInv'
<1> SUFFICES ASSUME SocketsInv, [Next]_vars PROVE SocketsInv'
    OBVIOUS
<1>1. CASE UNCHANGED sockets
    BY <1>1 DEF sockets, SocketsInv, SocketsOK, FromJoins, NewerJoinSurvives,
       StaleOnlyIfShared
<1>2. CASE Restart
    BY <1>2, NoneAssumption DEF Restart, SocketsInv, SocketsOK, FromJoins,
       NewerJoinSurvives, StaleOnlyIfShared
<1>3. ASSUME NEW c \in Call,
             FindPhone(c) \/ SaveEmulator(c) \/ SendEmulatorMomoMessage(c)
      PROVE  UNCHANGED sockets
    BY <1>3 DEF FindPhone, SaveEmulator, SendEmulatorMomoMessage
<1>4. ASSUME NEW c \in Call, NEW u \in User, NEW p \in Phone,
             CreateEmulator(c, u, p)
      PROVE  UNCHANGED sockets
    BY <1>4 DEF CreateEmulator
<1>5. CASE UNCHANGED vars
    BY <1>1, <1>5 DEF vars
<1> QED
    BY <1>1, <1>2, <1>3, <1>4, <1>5, ConnectKeeps, JoinKeeps, DisconnectKeeps
    DEF Next

LEMMA SocketsInvariant == Spec => []SocketsInv
BY SocketsInit, SocketsNext, PTL DEF Spec

-----------------------------------------------------------------------------
\* However late the server handles the disconnect of an older socket, a user
\* whose last join was over a socket that is up is notified over that one.
THEOREM NewerJoinStays == Spec => []NewerJoinSurvives
<1>1. SocketsInv => NewerJoinSurvives
    BY DEF SocketsInv
<1> QED
    BY <1>1, SocketsInvariant, PTL

\* A socket that is gone is in the registry only if another user joined over
\* it too.
THEOREM StaleShared == Spec => []StaleOnlyIfShared
<1>1. SocketsInv => StaleOnlyIfShared
    BY DEF SocketsInv
<1> QED
    BY <1>1, SocketsInvariant, PTL

-----------------------------------------------------------------------------
(***************************************************************************)
(* The inductive invariant of Kyc, for a user none of whose webhooks       *)
(* overlapped or was lost: at most one is under way, what it found still   *)
(* holds when it writes, its record is not deleted meanwhile, and the      *)
(* latest result is the one it carries or, when the map does not name      *)
(* that, the status there is.                                              *)
(***************************************************************************)
HooksOK ==
    /\ kycs \subseteq User
    /\ await \in [Event -> {"idle", "find", "write", "done", "lost"}]
    /\ user \in [Event -> User \cup {None}]
    /\ result \in [Event -> K!IdentityStatus \cup {"none"}]
    /\ found \in [Event -> BOOLEAN]
    /\ \A e \in stale : e \in Event /\ await[e] \in {"find", "write"}
    /\ status \in [User -> K!KYCSTATUS] /\ last \in [User -> K!KYCSTATUS]
    /\ \A e \in Event : await[e] # "idle" => user[e] \in User

Carried(e) == IF result[e] \in K!Mapped THEN K!verificationStatusMap[result[e]]
              ELSE status[user[e]]

Alone(u) ==
    /\ \A e, f \in K!UnderWay(u) : e = f
    /\ \A e \in K!UnderWay(u) :
          /\ last[u] = Carried(e)
          /\ e \notin stale
          /\ await[e] = "write" => (found[e] <=> u \in kycs)
    /\ K!UnderWay(u) = {} => status[u] = last[u]

KycInv == HooksOK /\ \A u \in User \ crossed : Alone(u)

LEMMA Results ==
    ASSUME NEW s \in K!Mapped
    PROVE  K!verificationStatusMap[s] \in K!KYCSTATUS
BY DEF K!Mapped, K!verificationStatusMap, K!KYCSTATUS

\* A step that leaves v, its webhooks and their results alone keeps Alone(v).
LEMMA Untouched ==
    ASSUME HooksOK, NEW v \in User, Alone(v), K!UnderWay(v)' = K!UnderWay(v),
           status'[v] = status[v], last'[v] = last[v],
           \A f \in K!UnderWay(v) : f \in stale' => f \in stale,
           \A f \in K!UnderWay(v) :
             /\ user'[f] = user[f] /\ result'[f] = result[f]
             /\ await'[f] = "write" => (found'[f] <=> v \in kycs')
    PROVE  Alone(v)'
<1>1. ASSUME NEW f \in K!UnderWay(v)
      PROVE  Carried(f)' = Carried(f)
  <2>1. user[f] = v /\ user'[f] = v /\ result'[f] = result[f]
      BY <1>1 DEF K!UnderWay
  <2>2. status'[user'[f]] = status[user[f]]
      BY <2>1
  <2> QED
      BY <2>1, <2>2 DEF Carried
<1>2. \A f, g \in K!UnderWay(v)' : f = g
    BY DEF Alone
<1>3. ASSUME NEW f \in K!UnderWay(v)'
      PROVE  /\ last'[v] = Carried(f)' /\ f \notin stale'
             /\ await'[f] = "write" => (found'[f] <=> v \in kycs')
    BY <1>1, <1>3 DEF Alone
<1>4. K!UnderWay(v)' = {} => status'[v] = last'[v]
    BY DEF Alone
<1> QED
    BY <1>2, <1>3, <1>4 DEF Alone

LEMMA KycInit == K!Init => KycInv
BY DEF K!Init, KycInv, HooksOK, Alone, K!UnderWay, K!KYCSTATUS

LEMMA ReceiveKeeps ==
    ASSUME KycInv, NEW e \in Event, NEW u \in User, NEW s \in K!IdentityStatus,
           K!ReceiveWebhook(e, u, s)
    PROVE  KycInv'
<1>1. HooksOK'
    BY Results DEF KycInv, HooksOK, K!ReceiveWebhook, K!records
<1>2. \A v \in User : K!UnderWay(v)' = IF v = u THEN K!UnderWay(u) \cup {e}
                                     ELSE K!UnderWay(v)
    BY DEF KycInv, HooksOK, K!ReceiveWebhook, K!UnderWay
<1>3. ASSUME NEW v \in User \ crossed', v # u
      PROVE  Alone(v)'
  <2>1. Alone(v) /\ K!UnderWay(v)' = K!UnderWay(v) /\ e \notin K!UnderWay(v)
      BY <1>2, <1>3 DEF KycInv, K!ReceiveWebhook, K!UnderWay
  <2>2. \A f \in K!UnderWay(v) : f \in Event /\ f # e /\ user[f] = v
      BY <2>1 DEF K!UnderWay
  <2>3. \A f \in K!UnderWay(v) :
           /\ await'[f] = await[f] /\ found'[f] = found[f] /\ user'[f] = v
           /\ result'[f] = result[f]
      BY <2>2 DEF KycInv, HooksOK, K!ReceiveWebhook
  <2>4. kycs' = kycs /\ status' = status /\ last'[v] = last[v]
      BY <1>3 DEF KycInv, HooksOK, K!ReceiveWebhook, K!records
  <2>5. \A f \in K!UnderWay(v) :
        /\ await'[f] = "write" => (found'[f] <=> v \in kycs')
        /\ f \in stale' => f \in stale
      BY <2>1, <2>3, <2>4 DEF Alone, K!ReceiveWebhook
  <2> QED
      BY <2>1, <2>2, <2>3, <2>4, <2>5, Untouched DEF KycInv
<1>4. ASSUME u \notin crossed'
      PROVE  Alone(u)'
  <2>1. K!UnderWay(u) = {} /\ Alone(u) /\ K!UnderWay(u)' = {e}
      BY <1>2, <1>4 DEF KycInv, K!ReceiveWebhook
  <2>2. /\ status'[u] = last[u] /\ await'[e] = "find" /\ user'[e] = u
        /\ result'[e] = s
        /\ last'[u] = IF s \in K!Mapped THEN K!verificationStatusMap[s]
                      ELSE last[u]
      BY <2>1 DEF KycInv, HooksOK, K!ReceiveWebhook, K!records, Alone
  <2>3. Carried(e)' = last'[u]
      BY <2>2 DEF Carried
  <2>4. e \notin stale'
      BY DEF KycInv, HooksOK, K!ReceiveWebhook
  <2> QED
      BY <2>1, <2>2, <2>3, <2>4 DEF Alone
<1> QED
    BY <1>1, <1>3, <1>4 DEF KycInv

\* A webhook that ends is under way no more, and the others stay.
LEMMA Ends ==
    ASSUME HooksOK, NEW e \in Event, await[e] \in {"find", "write"},
           NEW how \in {"done", "lost"}, K!Return(e, how)
    PROVE  /\ \A v \in User : K!UnderWay(v)' = K!UnderWay(v) \ {e}
           /\ \A f \in Event \ {e} :
                 /\ await'[f] = await[f] /\ found'[f] = found[f]
                 /\ result'[f] = result[f]
           /\ user' = user /\ stale' = stale \ {e}
           /\ await' \in [Event -> {"idle", "find", "write", "done", "lost"}]
           /\ result' \in [Event -> K!IdentityStatus \cup {"none"}]
           /\ found' \in [Event -> BOOLEAN]
           /\ \A f \in Event : await'[f] # "idle" => await[f] # "idle"
BY DEF HooksOK, K!Return, K!UnderWay

LEMMA GetUserKeeps ==
    ASSUME KycInv, NEW e \in Event, K!GetUserByEmail(e)
    PROVE  KycInv'
<1>1. HooksOK'
    BY DEF KycInv, HooksOK, K!GetUserByEmail, K!records, K!ghosts
<1>2. \A v \in User : K!UnderWay(v)' = K!UnderWay(v)
    BY DEF KycInv, HooksOK, K!GetUserByEmail, K!UnderWay
<1>3. /\ await'[e] = "write" /\ found'[e] = (user[e] \in kycs)
      /\ \A f \in Event \ {e} : await'[f] = await[f] /\ found'[f] = found[f]
      /\ UNCHANGED <<user, result, stale, kycs, status, last, crossed>>
    BY DEF KycInv, HooksOK, K!GetUserByEmail, K!records, K!ghosts
<1>4. ASSUME NEW v \in User \ crossed
      PROVE  Alone(v)'
  <2>1. Alone(v) /\ K!UnderWay(v)' = K!UnderWay(v)
      BY <1>2, <1>3, <1>4 DEF KycInv
  <2>2. ASSUME NEW f \in K!UnderWay(v)
        PROVE  await'[f] = "write" => (found'[f] <=> v \in kycs')
    <3>1. f \in Event /\ user[f] = v
        BY <2>2 DEF K!UnderWay
    <3>2. CASE f = e
        BY <1>3, <3>1, <3>2
    <3>3. CASE f # e
        BY <1>3, <2>1, <2>2, <3>1, <3>3 DEF Alone
    <3> QED
        BY <3>2, <3>3
  <2> QED
      BY <1>3, <1>4, <2>1, <2>2, Untouched DEF KycInv
<1> QED
    BY <1>1, <1>3, <1>4 DEF KycInv

\* Both ways to write leave the result the webhook carried.
LEMMA WriteKeeps ==
    ASSUME KycInv, NEW e \in Event, K!UpdateStatus(e) \/ K!CreateUser(e)
    PROVE  KycInv'
<1> DEFINE u == user[e]
<1>1. /\ await[e] = "write" /\ u \in User /\ e \in K!UnderWay(u)
      /\ K!Return(e, "done")
    BY DEF KycInv, HooksOK, K!UpdateStatus, K!CreateUser, K!UnderWay
<1>2. /\ \A v \in User : K!UnderWay(v)' = K!UnderWay(v) \ {e}
      /\ \A f \in Event \ {e} :
            /\ await'[f] = await[f] /\ found'[f] = found[f]
            /\ result'[f] = result[f]
      /\ user' = user /\ stale' = stale \ {e}
    BY <1>1, Ends DEF KycInv
<1>3. /\ last' = last
      /\ \A v \in User \ {u} : status'[v] = status[v]
                               /\ (v \in kycs' <=> v \in kycs)
      /\ crossed \subseteq crossed'
  <2>1. CASE K!UpdateStatus(e)
      BY <2>1 DEF KycInv, HooksOK, K!UpdateStatus, K!ghosts
  <2>2. CASE K!CreateUser(e)
      BY <2>2 DEF KycInv, HooksOK, K!CreateUser
  <2> QED
      BY <2>1, <2>2
<1>4. status' \in [User -> K!KYCSTATUS] /\ kycs' \subseteq User
    BY <1>1, Results DEF KycInv, HooksOK, K!UpdateStatus, K!CreateUser
<1>5. HooksOK'
    BY <1>1, <1>3, <1>4, Ends DEF KycInv, HooksOK
<1>6. ASSUME NEW v \in User \ crossed', v # u
      PROVE  Alone(v)'
  <2>1. Alone(v) /\ e \notin K!UnderWay(v) /\ K!UnderWay(v)' = K!UnderWay(v)
      BY <1>2, <1>3, <1>6 DEF KycInv, K!UnderWay
  <2>2. \A f \in K!UnderWay(v) : f \in Event \ {e} /\ user[f] = v
      BY <2>1 DEF K!UnderWay
  <2>3. \A f \in K!UnderWay(v) :
        await'[f] = "write" => (found'[f] <=> v \in kycs')
      BY <1>2, <1>3, <1>6, <2>1, <2>2 DEF Alone
  <2>4. v \in User /\ status'[v] = status[v] /\ last'[v] = last[v]
      BY <1>3, <1>6
  <2> QED
      BY <1>2, <2>1, <2>2, <2>3, <2>4, Untouched DEF KycInv
<1>7. ASSUME NEW v \in User \ crossed', v = u
      PROVE  Alone(v)'
  <2>1. Alone(v) /\ v \notin crossed
      BY <1>1, <1>3, <1>7 DEF KycInv
  <2>2. K!UnderWay(v)' = {}
      BY <1>1, <1>2, <1>7, <2>1 DEF Alone
  <2>3. status'[v] = Carried(e)
    <3>1. e \notin stale
        BY <1>1, <1>7, <2>1 DEF Alone
    <3> QED
        BY <1>1, <1>7, <3>1
        DEF KycInv, HooksOK, K!UpdateStatus, K!CreateUser, Carried
  <2>4. last'[v] = Carried(e)
      BY <1>1, <1>3, <1>7, <2>1 DEF Alone
  <2> QED
      BY <2>2, <2>3, <2>4 DEF Alone
<1> QED
    BY <1>1, <1>5, <1>6, <1>7 DEF KycInv

LEMMA LoseKeeps ==
    ASSUME KycInv, NEW e \in Event, K!LoseWebhook(e)
    PROVE  KycInv'
<1>1. /\ await[e] \in {"find", "write"} /\ K!Return(e, "lost")
      /\ crossed' = crossed \cup {user[e]}
      /\ UNCHANGED <<kycs, status, last>>
    BY DEF K!LoseWebhook, K!records
<1>2. HooksOK'
    BY <1>1, Ends DEF KycInv, HooksOK
<1>3. /\ \A v \in User : K!UnderWay(v)' = K!UnderWay(v) \ {e}
      /\ user' = user /\ stale' = stale \ {e}
      /\ \A f \in Event \ {e} :
            /\ await'[f] = await[f] /\ found'[f] = found[f]
            /\ result'[f] = result[f]
    BY <1>1, Ends DEF KycInv
<1>4. ASSUME NEW v \in User \ crossed'
      PROVE  Alone(v)'
  <2>1. Alone(v) /\ e \notin K!UnderWay(v)
      BY <1>1, <1>4 DEF KycInv, K!UnderWay
  <2>2. \A f \in K!UnderWay(v) : f \in Event \ {e} /\ user[f] = v
      BY <2>1 DEF K!UnderWay
  <2>3. K!UnderWay(v)' = K!UnderWay(v)
      BY <1>4, <1>3, <2>1
  <2>4. \A f \in K!UnderWay(v) :
        await'[f] = "write" => (found'[f] <=> v \in kycs')
      BY <1>1, <1>3, <2>1, <2>2, <2>3 DEF Alone
  <2>5. v \in User
      BY <1>4
  <2> QED
      BY <1>1, <1>3, <2>1, <2>2, <2>3, <2>4, <2>5, Untouched DEF KycInv
<1> QED
    BY <1>2, <1>4 DEF KycInv

\* The cron job writes document numbers, never a status.
LEMMA CronKeeps ==
    ASSUME KycInv, NEW r \in Run, K!CronStep(r)
    PROVE  UNCHANGED <<K!hooks, K!ghosts, kycs, status>>
BY DEF K!CronStep, K!Tick, K!GetToken, K!Query, K!FetchDocument,
   K!Fetch, K!Update, K!RunFails, K!records

\* A deleted record and the latest result start again together.
LEMMA DeleteKeeps ==
    ASSUME KycInv, NEW u \in User, K!DeleteKYCRecord(u)
    PROVE  KycInv'
<1>1. HooksOK'
    BY DEF KycInv, HooksOK, K!DeleteKYCRecord, K!UnderWay, K!KYCSTATUS
<1>2. \A v \in User : K!UnderWay(v)' = K!UnderWay(v)
    BY DEF K!DeleteKYCRecord, K!UnderWay
<1>3. ASSUME NEW v \in User \ crossed', v # u
      PROVE  Alone(v)'
  <2>1. Alone(v)
      BY <1>3 DEF KycInv, K!DeleteKYCRecord
  <2>2. \A f \in K!UnderWay(v) : user[f] = v /\ (f \in stale' => f \in stale)
      BY <1>3 DEF K!DeleteKYCRecord, K!UnderWay
  <2>3. /\ status'[v] = status[v] /\ last'[v] = last[v]
        /\ v \in kycs' <=> v \in kycs
        /\ UNCHANGED <<user, result, await, found>>
      BY <1>3 DEF KycInv, HooksOK, K!DeleteKYCRecord
  <2>4. \A f \in K!UnderWay(v) :
        await'[f] = "write" => (found'[f] <=> v \in kycs')
      BY <2>1, <2>3 DEF Alone
  <2> QED
      BY <1>2, <2>1, <2>2, <2>3, <2>4, Untouched DEF KycInv
<1>4. ASSUME u \notin crossed'
      PROVE  Alone(u)'
  <2>1. K!UnderWay(u)' = {}
      BY <1>2, <1>4 DEF K!DeleteKYCRecord
  <2>2. status'[u] = last'[u]
      BY DEF KycInv, HooksOK, K!DeleteKYCRecord
  <2> QED
      BY <2>1, <2>2 DEF Alone
<1> QED
    BY <1>1, <1>3, <1>4 DEF KycInv

LEMMA KycNext == KycInv /\ [K!Next]_(K!vars) => KycInv'
<1> SUFFICES ASSUME KycInv, [K!Next]_(K!vars) PROVE KycInv'
    OBVIOUS
<1>1. CASE UNCHANGED <<K!hooks, K!ghosts, kycs, status>>
    BY <1>1 DEF K!hooks, K!ghosts, KycInv, HooksOK, Alone, Carried, K!UnderWay
<1>2. CASE UNCHANGED K!vars
    BY <1>1, <1>2 DEF K!vars, K!records
<1> QED
    BY <1>1, <1>2, ReceiveKeeps, GetUserKeeps, WriteKeeps, LoseKeeps, CronKeeps,
       DeleteKeeps
    DEF K!Next

LEMMA KycInvariant == K!Spec => []KycInv
BY KycInit, KycNext, PTL DEF K!Spec

-----------------------------------------------------------------------------
\* Although the handler answers first and then reads and writes the record in
\* two steps, the status of a user whose webhooks neither overlapped nor were
\* lost is the latest result MetaMap sent.
THEOREM LatestStands == K!Spec => []LatestResultStands
<1>1. KycInv => LatestResultStands
  <2> SUFFICES ASSUME KycInv, NEW u \in kycs \ crossed, K!UnderWay(u) = {}
               PROVE  status[u] = last[u]
      BY DEF LatestResultStands, K!LatestResultStands
  <2> QED
      BY DEF KycInv, HooksOK, Alone
<1> QED
    BY <1>1, KycInvariant, PTL

-----------------------------------------------------------------------------
(***************************************************************************)
(* Unique keys.  The indexes see a key only when its record is saved, so   *)
(* for each collection the invariant says what may have changed since: an  *)
(* application's request keeps its e-mail and address; a user without a    *)
(* record has no document number, so that the one it gets is looked at     *)
(* when it gets it.                                                        *)
(***************************************************************************)
EmulatorsInv == OneEmulatorPerPhone

LEMMA EmulatorsInvariant == Spec => []EmulatorsInv
<1>1. Init => EmulatorsInv
    BY DEF Init, EmulatorsInv, OneEmulatorPerPhone
<1>2. EmulatorsInv /\ [Next]_vars => EmulatorsInv'
  <2> SUFFICES ASSUME EmulatorsInv, [Next]_vars PROVE EmulatorsInv'
      OBVIOUS
  <2>1. ASSUME NEW c \in Call, SaveEmulator(c)
        PROVE  EmulatorsInv'
    <3>1. CASE emulators' = emulators
        BY <3>1 DEF EmulatorsInv, OneEmulatorPerPhone
    <3>2. CASE /\ \A e \in emulators : e[3] # phone[c]
               /\ emulators' = emulators \cup {<<c, store[c], phone[c]>>}
        BY <3>2 DEF EmulatorsInv, OneEmulatorPerPhone
    <3> QED
        BY <2>1, <3>1, <3>2 DEF SaveEmulator
  <2>2. CASE UNCHANGED emulators
      BY <2>2 DEF EmulatorsInv, OneEmulatorPerPhone
  <2>3. UNCHANGED emulators \/ \E c \in Call : SaveEmulator(c)
      BY DEF Next, Connect, Disconnect, Join, SendEmulatorMomoMessage,
         CreateEmulator, FindPhone, Restart, vars
  <2> QED
      BY <2>1, <2>2, <2>3
<1> QED
    BY <1>1, <1>2, PTL DEF Spec

HooksName ==
    /\ user \in [Event -> User \cup {None}]
    /\ await \in [Event -> {"idle", "find", "write", "done", "lost"}]
    /\ \A e \in Event : await[e] \in {"find", "write"} => user[e] \in User

RunsName ==
    /\ job \in [Run -> {"idle", "token", "query", "fetch", "update"}]
    /\ target \in [Run -> User \cup {None}]
    /\ fetched \in [Run -> Document \cup {K!Blank}]
    /\ \A r \in Run : job[r] \in {"fetch", "update"} =>
                       target[r] \in kycs \cup {None}

Documents ==
    /\ documentOf \in [User -> Document]
    /\ document \in [User -> Document \cup {K!Blank}]
    /\ kycs \subseteq User
    /\ \A u \in User \ kycs : document[u] = K!Blank
    /\ K!OneUserPerDocument

DocumentsInv == HooksName /\ RunsName /\ Documents

LEMMA DocumentsInit == K!Init => DocumentsInv
BY DEF K!Init, DocumentsInv, HooksName, RunsName, Documents,
   K!OneUserPerDocument

\* A record is made only while every other one has a document number.
LEMMA CreateKeeps ==
    ASSUME DocumentsInv, NEW e \in Event, K!CreateUser(e)
    PROVE  DocumentsInv'
<1>1. /\ user[e] \in User /\ user' = user
      /\ await' = [await EXCEPT ![e] = "done"]
      /\ kycs \subseteq kycs' /\ kycs' \subseteq kycs \cup {user[e]}
      /\ kycs' # kycs => K!MayCreate(user[e])
      /\ UNCHANGED <<documentOf, document, job, target, fetched>>
    BY DEF DocumentsInv, HooksName, K!CreateUser, K!Return, K!cron
<1>2. HooksName' /\ RunsName'
    BY <1>1 DEF DocumentsInv, HooksName, RunsName
<1>3. K!OneUserPerDocument'
    BY <1>1 DEF DocumentsInv, Documents, K!OneUserPerDocument, K!MayCreate
<1> QED
    BY <1>1, <1>2, <1>3 DEF DocumentsInv, Documents

LEMMA HookKeeps ==
    ASSUME DocumentsInv, NEW e \in Event,
           \/ \E u \in User, s \in K!IdentityStatus : K!ReceiveWebhook(e, u, s)
           \/ K!GetUserByEmail(e) \/ K!UpdateStatus(e) \/ K!LoseWebhook(e)
    PROVE  DocumentsInv'
<1>1. UNCHANGED <<kycs, documentOf, document, job, target, fetched>>
    BY DEF K!ReceiveWebhook, K!GetUserByEmail, K!UpdateStatus, K!LoseWebhook,
       K!records, K!cron
<1>2. HooksName'
    BY DEF DocumentsInv, HooksName, K!ReceiveWebhook, K!GetUserByEmail,
       K!UpdateStatus, K!LoseWebhook, K!Return
<1> QED
    BY <1>1, <1>2
    DEF DocumentsInv, RunsName, Documents, K!OneUserPerDocument

\* The index looks at the number a run has fetched when the run writes it.
LEMMA UpdateKeeps ==
    ASSUME DocumentsInv, NEW r \in Run, K!Update(r)
    PROVE  Documents'
<1>1. /\ target[r] # None => target[r] \in kycs /\ target[r] \in User
      /\ fetched[r] \in Document \cup {K!Blank}
      /\ kycs' = kycs /\ documentOf' = documentOf
    BY DEF DocumentsInv, RunsName, Documents, K!Update
<1>2. CASE document' = document
    BY <1>1, <1>2 DEF DocumentsInv, Documents, K!OneUserPerDocument
<1>3. CASE /\ target[r] # None
           /\ \A v \in kycs \ {target[r]} : document[v] # fetched[r]
           /\ document' = [document EXCEPT ![target[r]] = fetched[r]]
  <2>1. K!OneUserPerDocument'
    <3> SUFFICES ASSUME NEW u \in kycs, NEW v \in kycs, u # v
                 PROVE  document'[u] # document'[v]
        BY <1>1 DEF K!OneUserPerDocument
    <3>1. u \in User /\ v \in User /\ document[u] # document[v]
        BY DEF DocumentsInv, Documents, K!OneUserPerDocument
    <3> QED
        BY <1>1, <1>3, <3>1 DEF DocumentsInv, Documents
  <2>2. \A u \in User \ kycs' : document'[u] = K!Blank
      BY <1>1, <1>3 DEF DocumentsInv, Documents
  <2> QED
      BY <1>1, <1>3, <2>1, <2>2 DEF DocumentsInv, Documents
<1> QED
    BY <1>2, <1>3 DEF K!Update

LEMMA RunKeeps ==
    ASSUME DocumentsInv, NEW r \in Run, K!CronStep(r)
    PROVE  DocumentsInv'
<1>1. UNCHANGED <<kycs, documentOf, user, await>>
    BY DEF K!CronStep, K!Tick, K!GetToken, K!Query, K!FetchDocument, K!Fetch,
       K!Update, K!RunFails, K!records, K!hooks
<1>2. HooksName'
    BY <1>1 DEF DocumentsInv, HooksName
<1>3. RunsName'
  <2> USE DEF DocumentsInv, RunsName, K!Reach, K!Finish
  <2>1. CASE K!Tick(r) \/ K!GetToken(r)
      BY <1>1, <2>1 DEF K!Tick, K!GetToken
  <2>2. CASE K!Query(r)
    <3>1. K!Unfilled \subseteq kycs /\ kycs \subseteq User
        BY DEF K!Unfilled, Documents
    <3>2. CASE K!Finish(r)
        BY <1>1, <3>2
    <3>3. ASSUME NEW u \in K!Unfilled, target' = [target EXCEPT ![r] = u],
                 K!Reach(r, "fetch"), fetched' = fetched
          PROVE  RunsName'
        BY <1>1, <3>1, <3>3
    <3> QED
        BY <2>2, <3>2, <3>3 DEF K!Query
  <2>3. ASSUME NEW d \in Document \cup {K!Blank}, K!Fetch(r, d)
        PROVE  RunsName'
      BY <1>1, <2>3 DEF K!Fetch
  <2>4. CASE K!FetchDocument(r)
    <3>1. documentOf[target[r]] \in Document
        BY <2>4 DEF K!FetchDocument, Documents
    <3> QED
        BY <2>3, <2>4, <3>1 DEF K!FetchDocument
  <2>5. CASE K!Update(r) \/ K!RunFails(r)
      BY <1>1, <2>5 DEF K!Update, K!RunFails
  <2> QED
      BY <2>1, <2>2, <2>3, <2>4, <2>5 DEF K!CronStep
<1>4. Documents'
  <2>1. CASE UNCHANGED document
      BY <1>1, <2>1 DEF DocumentsInv, Documents, K!OneUserPerDocument
  <2>2. K!Update(r) \/ UNCHANGED document
      BY DEF K!CronStep, K!Tick, K!GetToken, K!Query, K!FetchDocument,
         K!Fetch, K!RunFails, K!records
  <2> QED
      BY <2>1, <2>2, UpdateKeeps
<1> QED
    BY <1>2, <1>3, <1>4 DEF DocumentsInv

\* A run at the deleted record is at nobody, and the others stay.
LEMMA DeletionKeeps ==
    ASSUME DocumentsInv, NEW u \in User, K!DeleteKYCRecord(u)
    PROVE  DocumentsInv'
<1>1. HooksName'
    BY DEF DocumentsInv, HooksName, K!DeleteKYCRecord
<1>2. RunsName'
    BY DEF DocumentsInv, RunsName, K!DeleteKYCRecord
<1>3. Documents'
    BY DEF DocumentsInv, Documents, K!OneUserPerDocument, K!DeleteKYCRecord
<1> QED
    BY <1>1, <1>2, <1>3 DEF DocumentsInv

LEMMA DocumentsNext == DocumentsInv /\ [K!Next]_(K!vars) => DocumentsInv'
<1> SUFFICES ASSUME DocumentsInv, [K!Next]_(K!vars) PROVE DocumentsInv'
    OBVIOUS
<1>1. CASE UNCHANGED K!vars
    BY <1>1 DEF K!vars, K!records, K!hooks, K!cron, DocumentsInv, HooksName,
       RunsName, Documents, K!OneUserPerDocument
<1> QED
    BY <1>1, CreateKeeps, HookKeeps, RunKeeps, DeletionKeeps DEF K!Next

LEMMA DocumentsInvariant == K!Spec => []DocumentsInv
BY DocumentsInit, DocumentsNext, PTL DEF K!Spec

ApplicationsInv ==
    /\ email \in [Call -> Email \cup {None}]
    /\ address \in [Call -> Address \cup {None}]
    /\ step \in [Call -> {"idle", "find", "findPending", "save", "saved",
                          "duplicate", "error"}]
    /\ applications \subseteq Call
    /\ \A c \in applications : step[c] = "saved"
    /\ A!OneApplicationPerUser

LEMMA ApplicationsInvariant == A!Spec => []ApplicationsInv
<1>1. A!Init => ApplicationsInv
    BY DEF A!Init, ApplicationsInv, A!OneApplicationPerUser
<1>2. ApplicationsInv /\ [A!Next]_(A!vars) => ApplicationsInv'
  <2> SUFFICES ASSUME ApplicationsInv, [A!Next]_(A!vars)
               PROVE  ApplicationsInv'
      OBVIOUS
  <2> USE DEF ApplicationsInv, A!Goto, A!OneApplicationPerUser
  <2>1. ASSUME NEW c \in Call, NEW s \in Store, NEW e \in Email,
               NEW a \in Address, A!CreateStoreUserKYC(c, s, e, a)
        PROVE  ApplicationsInv'
    <3>1. c \notin applications
        BY <2>1 DEF A!CreateStoreUserKYC
    <3> QED
        BY <2>1, <3>1 DEF A!CreateStoreUserKYC
  <2>2. ASSUME NEW c \in Call, A!Find(c) \/ A!FindPending(c)
        PROVE  ApplicationsInv'
      BY <2>2 DEF A!Find, A!FindPending, A!requests
  <2>3. ASSUME NEW c \in Call, A!Save(c)
        PROVE  ApplicationsInv'
      BY <2>3 DEF A!Save, A!Indexed, A!requests
  <2>4. ASSUME NEW c \in Call, A!RejectUserKYC(c)
        PROVE  ApplicationsInv'
      BY <2>4 DEF A!RejectUserKYC, A!requests
  <2>5. CASE UNCHANGED A!vars
      BY <2>5 DEF A!vars, A!requests
  <2> QED
      BY <2>1, <2>2, <2>3, <2>4, <2>5 DEF A!Next
<1> QED
    BY <1>1, <1>2, PTL DEF A!Spec

-----------------------------------------------------------------------------
\* However the looks and the writes of requests, webhooks and cron runs
\* interleave, no two emulators have one phone, no two users are verified by
\* one document, and no two applications share an e-mail or an address.
THEOREM UniqueKeys == Spec /\ K!Spec /\ A!Spec => []UniqueKeysHold
<1>1. EmulatorsInv /\ DocumentsInv /\ ApplicationsInv => UniqueKeysHold
    BY DEF EmulatorsInv, DocumentsInv, Documents, ApplicationsInv,
       UniqueKeysHold
<1> QED
    BY <1>1, EmulatorsInvariant, DocumentsInvariant, ApplicationsInvariant, PTL

\* A behaviour of the three side by side, in which one of them moves, is a
\* behaviour of each: what is proved of a component holds of the composition.
THEOREM PartsRun == RecordsSpec => Spec /\ K!Spec /\ A!Spec
<1>1. RecordsInit => Init /\ K!Init /\ A!Init
    BY DEF RecordsInit
<1>2. [RecordsNext]_all =>
        [Next]_vars /\ [K!Next]_(K!vars) /\ [A!Next]_(A!vars)
  <2>1. UNCHANGED kyc => UNCHANGED K!vars
      BY DEF kyc, K!vars, K!records, K!hooks, K!cron, K!ghosts
  <2>2. UNCHANGED storeKyc => UNCHANGED A!vars
      BY DEF storeKyc, A!vars, A!requests
  <2> QED
      BY <2>1, <2>2 DEF RecordsNext, EmulatorMoves, KycMoves, StoreKycMoves, all
<1> QED
    BY <1>1, <1>2, PTL DEF RecordsSpec, Spec, K!Spec, A!Spec

\* So everything proved of the registry, of KYC and of the applications holds
\* of the system that runs them side by side.
THEOREM RecordsKept ==
    RecordsSpec => [](/\ UniqueKeysHold /\ LatestResultStands
                      /\ NewerJoinSurvives /\ StaleOnlyIfShared)
BY PartsRun, UniqueKeys, LatestStands, NewerJoinStays, StaleShared, PTL
=============================================================================
