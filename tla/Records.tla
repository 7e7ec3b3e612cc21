-------------------------------- MODULE Records --------------------------------
(***************************************************************************)
(* Emulator, Kyc and StoreKyc side by side.  The three share no state, so  *)
(* a behaviour in which one of them moves and the others stand still is a  *)
(* behaviour of each.                                                      *)
(***************************************************************************)
EXTENDS Emulator

CONSTANTS Document, Event, Run, Store, Email, Address

VARIABLES
    part,  \* the component that moves
    documentOf, kycs, status, document, user, result, found, stale, await,
    job, target, fetched, last, crossed, deleted,           \* Kyc
    applications, rejected, appStore, email, address, step   \* StoreKyc

K == INSTANCE Kyc WITH pc <- await
A == INSTANCE StoreKyc WITH store <- appStore, pc <- step

kyc == <<documentOf, kycs, status, document, user, result, found, stale, await,
         job, target, fetched, last, crossed, deleted>>
storeKyc == <<applications, rejected, appStore, email, address, step>>
all == <<part, vars, kyc, storeKyc>>

RecordsInit ==
    /\ part \in {"emulator", "kyc", "storeKyc"}
    /\ Init /\ K!Init /\ A!Init

EmulatorMoves == part = "emulator" /\ Next /\ UNCHANGED <<part, kyc, storeKyc>>
StoreKycMoves == part = "storeKyc" /\ A!Next /\ UNCHANGED <<part, vars, kyc>>
KycMoves(action) == part = "kyc" /\ action /\ UNCHANGED <<part, vars, storeKyc>>

RecordsNext == EmulatorMoves \/ StoreKycMoves \/ KycMoves(K!Next)

\* Kyc's fairness, for its part.
Fairness ==
    LET r == CHOOSE run \in Run : TRUE
    IN  /\ WF_all(KycMoves(K!CronStep(r)))
        /\ SF_all(KycMoves(K!GetToken(r))) /\ SF_all(KycMoves(K!Query(r)))
        /\ SF_all(KycMoves(K!FetchDocument(r)))
        /\ SF_all(KycMoves(fetched[r] # K!Blank /\ K!Update(r)))

RecordsSpec == RecordsInit /\ [][RecordsNext]_all /\ Fairness

-----------------------------------------------------------------------------
\* Two requests or runs that both look and find nothing do not save two
\* records with one document, one phone, or one e-mail or address.
UniqueKeysHold ==
    K!OneUserPerDocument /\ OneEmulatorPerPhone /\ A!OneApplicationPerUser

\* See Kyc.
LatestResultStands == K!LatestResultStands
VerifiedIsFilled == K!VerifiedIsFilled
CompletedIsRecorded == K!CompletedIsRecorded
=============================================================================
