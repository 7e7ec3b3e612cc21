---------------------------------- MODULE Kyc ---------------------------------
(***************************************************************************)
(* The identity checks MetaMap makes.  MetaMap tells the result of a check *)
(* by webhook; the API acknowledges it before it does anything with it.    *)
(* The webhook makes a record without a document, and a cron job fetches   *)
(* the documents of the verified users later.  The record's e-mail and     *)
(* document number both have a unique index, the empty number included.    *)
(* A FiatConnect request without a body deletes some record; a webhook or  *)
(* a run that has found it writes by its id, and so to nothing.            *)
(***************************************************************************)
EXTENDS FiniteSets, Naturals

CONSTANTS
    User,      \* users, each with an e-mail address of its own
    Document,  \* document numbers
    Event,     \* webhook deliveries
    Run,       \* runs of the cron job that may be under way together
    None

Blank == ""
\* verificationStatusMap; MetaMap also sends results the map does not name.
verificationStatusMap == [verified |-> "VERIFIED",
                          reviewNeeded |-> "IN_REVIEW",
                          rejected |-> "REJECTED"]
Mapped == DOMAIN verificationStatusMap
IdentityStatus == Mapped \cup {"running"}
KYCSTATUS == {"VERIFIED", "IN_REVIEW", "REJECTED", "PENDING"}

VARIABLES
    documentOf,   \* the document each user shows MetaMap
    kycs,         \* KYCModel: the users with a record
    status,       \* their status
    document,     \* their document number
    user, result, \* what each webhook is about
    found,        \* the record the webhook found
    stale,        \* webhooks whose record was deleted since they found it
    pc,           \* the await each webhook has reached
    job,          \* the await each run of the cron job has reached
    target,       \* the user the run is at; None once its record is deleted
    fetched,      \* the document number the run has fetched
    last,         \* the latest mapped result received for each user
    crossed,      \* users with two webhooks under way, or one that failed
                  \* or whose record was deleted during it
    deleted       \* users whose record was deleted

records == <<kycs, status, document>>
hooks == <<user, result, found, stale, pc>>
cron == <<job, target, fetched>>
ghosts == <<last, crossed, deleted>>
vars == <<documentOf, records, hooks, cron, ghosts>>

TypeOK ==
    /\ documentOf \in [User -> Document]
    /\ kycs \subseteq User
    /\ status \in [User -> KYCSTATUS]
    /\ document \in [User -> Document \cup {Blank}]
    /\ user \in [Event -> User \cup {None}]
    /\ result \in [Event -> IdentityStatus \cup {"none"}]
    /\ found \in [Event -> BOOLEAN] /\ stale \subseteq Event
    /\ pc \in [Event -> {"idle", "find", "write", "done", "lost"}]
    /\ job \in [Run -> {"idle", "token", "query", "fetch", "update"}]
    /\ target \in [Run -> User \cup {None}]
    /\ fetched \in [Run -> Document \cup {Blank}]
    /\ last \in [User -> KYCSTATUS]
    /\ crossed \subseteq User /\ deleted \subseteq User

\* Two users may show MetaMap the same document.
Init ==
    /\ documentOf \in [User -> Document]
    /\ kycs = {} /\ status = [u \in User |-> "PENDING"]
    /\ document = [u \in User |-> Blank]
    /\ user = [e \in Event |-> None] /\ result = [e \in Event |-> "none"]
    /\ found = [e \in Event |-> FALSE] /\ pc = [e \in Event |-> "idle"]
    /\ stale = {} /\ deleted = {}
    /\ job = [r \in Run |-> "idle"] /\ target = [r \in Run |-> None]
    /\ fetched = [r \in Run |-> Blank]
    /\ last = [u \in User |-> "PENDING"] /\ crossed = {}

UnderWay(u) == {e \in Event : user[e] = u /\ pc[e] \in {"find", "write"}}

-----------------------------------------------------------------------------
(* The webhook                                                             *)

\* The handler of e returns, and its locals with it.
Return(e, how) ==
    /\ pc' = [pc EXCEPT ![e] = how]
    /\ result' = [result EXCEPT ![e] = "none"]
    /\ found' = [found EXCEPT ![e] = FALSE]
    /\ stale' = stale \ {e}
    /\ UNCHANGED user

\* receiveWebhook answers 200; consumeWebhookPayload goes on with the events
\* verification_completed and verification_updated.
ReceiveWebhook(e, u, s) ==
    /\ pc[e] = "idle"
    /\ user' = [user EXCEPT ![e] = u]
    /\ result' = [result EXCEPT ![e] = s]
    /\ pc' = [pc EXCEPT ![e] = "find"]
    /\ last' = IF s \in Mapped
               THEN [last EXCEPT ![u] = verificationStatusMap[s]] ELSE last
    /\ crossed' = IF UnderWay(u) = {} THEN crossed ELSE crossed \cup {u}
    /\ UNCHANGED <<documentOf, records, found, stale, cron, deleted>>

\* getUserByEmail.
GetUserByEmail(e) ==
    /\ pc[e] = "find"
    /\ found' = [found EXCEPT ![e] = user[e] \in kycs]
    /\ pc' = [pc EXCEPT ![e] = "write"]
    /\ UNCHANGED <<documentOf, records, user, result, stale, cron, ghosts>>

\* Mutated form of UpdateStatus: only the resource of a record is replaced.
UpdateResourceOnly(e) ==
    /\ pc[e] = "write" /\ found[e]
    /\ Return(e, "done")
    /\ UNCHANGED <<documentOf, records, cron, ghosts>>

\* updateUserKYCById: a result the map does not name leaves the status alone.
UpdateStatus(e) ==
    /\ pc[e] = "write" /\ found[e]
    /\ status' = IF result[e] \in Mapped /\ e \notin stale
                 THEN [status EXCEPT ![user[e]] =
                         verificationStatusMap[result[e]]]
                 ELSE status
    /\ Return(e, "done")
    /\ UNCHANGED <<documentOf, kycs, document, cron, ghosts>>

\* The unique indexes let a record without a document in.
MayCreate(u) == u \notin kycs /\ \A v \in kycs : document[v] # Blank

\* createUser.  A duplicate key ends the webhook: the error is swallowed.
CreateUser(e) ==
    /\ pc[e] = "write" /\ ~found[e]
    /\ IF MayCreate(user[e])
       THEN /\ kycs' = kycs \cup {user[e]}
            /\ status' = IF result[e] \in Mapped
                         THEN [status EXCEPT ![user[e]] =
                                 verificationStatusMap[result[e]]]
                         ELSE status
            /\ UNCHANGED crossed
       ELSE /\ crossed' = crossed \cup {user[e]}
            /\ UNCHANGED <<kycs, status>>
    /\ Return(e, "done")
    /\ UNCHANGED <<documentOf, document, cron, last, deleted>>

\* The database refuses, or the process stops after its answer.
LoseWebhook(e) ==
    /\ pc[e] \in {"find", "write"}
    /\ Return(e, "lost")
    /\ crossed' = crossed \cup {user[e]}
    /\ UNCHANGED <<documentOf, records, cron, last, deleted>>

-----------------------------------------------------------------------------
(* The cron job                                                            *)

Reach(r, await) == job' = [job EXCEPT ![r] = await]

\* The run r returns, and its locals with it.
Finish(r) ==
    /\ Reach(r, "idle")
    /\ target' = [target EXCEPT ![r] = None]
    /\ fetched' = [fetched EXCEPT ![r] = Blank]

\* Every 30 seconds, whatever earlier runs are still at.
Tick(r) ==
    /\ job[r] = "idle"
    /\ Reach(r, "token")
    /\ UNCHANGED <<documentOf, records, hooks, target, fetched, ghosts>>

\* getMetaMapAccessToken swallows its errors: a run without a token goes on,
\* and its requests are refused.
GetToken(r) ==
    /\ job[r] = "token"
    /\ Reach(r, "query")
    /\ UNCHANGED <<documentOf, records, hooks, target, fetched, ghosts>>

\* queryVerifiedUsersWithOutDocumentNumber.
Unfilled == {u \in kycs : status[u] = "VERIFIED" /\ document[u] = Blank}

\* Mutated form of Query: it asks for users whose number is missing, not empty.
QueryMissing(r) ==
    /\ job[r] = "query"
    /\ Finish(r)
    /\ UNCHANGED <<documentOf, records, hooks, ghosts>>

\* The index leaves at most one of them, so the loop is for that one.
Query(r) ==
    /\ job[r] = "query"
    /\ \/ Unfilled = {} /\ Finish(r)
       \/ \E u \in Unfilled : /\ target' = [target EXCEPT ![r] = u]
                              /\ Reach(r, "fetch")
                              /\ UNCHANGED fetched
    /\ UNCHANGED <<documentOf, records, hooks, ghosts>>

\* The document MetaMap has read, which may be without a number.
Fetch(r, d) ==
    /\ job[r] = "fetch"
    /\ fetched' = [fetched EXCEPT ![r] = d]
    /\ Reach(r, "update")
    /\ UNCHANGED <<documentOf, records, hooks, target, ghosts>>

FetchDocument(r) ==
    /\ job[r] = "fetch" /\ target[r] # None
    /\ Fetch(r, documentOf[target[r]])

\* Mutated form of Update: no index keeps document numbers apart.
UpdateUnindexed(r) ==
    /\ job[r] = "update"
    /\ document' = IF target[r] = None THEN document
                   ELSE [document EXCEPT ![target[r]] = fetched[r]]
    /\ Finish(r)
    /\ UNCHANGED <<documentOf, kycs, status, hooks, ghosts>>

\* updateUserKYCById; a duplicate key ends the run.
Update(r) ==
    /\ job[r] = "update"
    /\ document' =
         IF \/ target[r] = None
            \/ \E v \in kycs \ {target[r]} : document[v] = fetched[r]
         THEN document
         ELSE [document EXCEPT ![target[r]] = fetched[r]]
    /\ Finish(r)
    /\ UNCHANGED <<documentOf, kycs, status, hooks, ghosts>>

\* A request that fails throws out of the run, and so does a stopped process.
RunFails(r) ==
    /\ job[r] # "idle"
    /\ Finish(r)
    /\ UNCHANGED <<documentOf, records, hooks, ghosts>>

-----------------------------------------------------------------------------
\* deleteKYCRecordHandler.  The filter's two fields are not in the schema:
\* when the request names neither, it fits every record.
DeleteKYCRecord(u) ==
    /\ u \in kycs
    /\ kycs' = kycs \ {u}
    /\ status' = [status EXCEPT ![u] = "PENDING"]
    /\ document' = [document EXCEPT ![u] = Blank]
    /\ stale' = stale \cup {e \in UnderWay(u) : found[e]}
    /\ target' = [r \in Run |-> IF target[r] = u THEN None ELSE target[r]]
    /\ last' = [last EXCEPT ![u] = "PENDING"]
    /\ crossed' = IF UnderWay(u) = {} THEN crossed ELSE crossed \cup {u}
    /\ deleted' = deleted \cup {u}
    /\ UNCHANGED <<documentOf, user, result, found, pc, job, fetched>>

CronStep(r) ==
    \/ Tick(r) \/ GetToken(r) \/ Query(r)
    \/ FetchDocument(r) \/ Fetch(r, Blank)
    \/ Update(r) \/ RunFails(r)

Next ==
    \/ \E e \in Event, u \in User, s \in IdentityStatus :
         ReceiveWebhook(e, u, s)
    \/ \E e \in Event : \/ GetUserByEmail(e) \/ UpdateStatus(e)
                        \/ CreateUser(e) \/ LoseWebhook(e)
    \/ \E r \in Run : CronStep(r)
    \/ \E u \in User : DeleteKYCRecord(u)

Spec == Init /\ [][Next]_vars

\* The scheduler ticks for ever, and not every run is held up: one of those
\* that may be under way has its awaits end, and requests to MetaMap and the
\* database that are made again and again succeed sometime.
CronFairness ==
    LET r == CHOOSE run \in Run : TRUE
    IN  /\ WF_vars(CronStep(r))
        /\ SF_vars(GetToken(r)) /\ SF_vars(Query(r))
        /\ SF_vars(FetchDocument(r))
        /\ SF_vars(fetched[r] # Blank /\ Update(r))

FairSpec == Spec /\ CronFairness

-----------------------------------------------------------------------------
(* Properties                                                              *)

\* No two users are verified by one document, however the runs overlap: the
\* number the cron job fetched is not looked up before it is written.
OneUserPerDocument ==
    \A u, v \in kycs : u # v => document[u] # document[v]

\* A user's status is the latest result MetaMap sent since the record was last
\* deleted, although the handler reads and writes it in two steps after its
\* answer: only webhooks of that user which overlap each other or a deletion,
\* or are lost, leave another one.
LatestResultStands ==
    \A u \in kycs \ crossed :
      UnderWay(u) = {} => status[u] = last[u]

\* A verified user gets its document, whatever runs fail or overlap, unless
\* somebody else has it, MetaMap takes the result back or the record is
\* deleted.
VerifiedIsFilled ==
    \A u \in User :
      u \in Unfilled ~> \/ u \notin Unfilled
                        \/ \E v \in User \ {u} : documentOf[u] = document[v]

\* The handler says its action is to update the user's kycStatus by the
\* result: a user whose webhook was handled has a record, or had one that was
\* deleted.
CompletedIsRecorded ==
    \A e \in Event : pc[e] = "done" => user[e] \in kycs \cup deleted
=============================================================================
