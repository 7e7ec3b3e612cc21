-------------------------------- MODULE StoreKyc ------------------------------
(***************************************************************************)
(* The KYC applications users make to stores.  The handler looks for an    *)
(* application of the same user to the same store; the collection has a    *)
(* unique index on the e-mail and one on the address, whatever the store.  *)
(***************************************************************************)
EXTENDS FiniteSets, Naturals

CONSTANTS
    Call,     \* HTTP requests
    Store,    \* stores
    Email,    \* e-mails of users
    Address,  \* wallet addresses of users
    None

VARIABLES
    applications, \* UserKYCModel: calls that saved one
    rejected,     \* those of them a store has rejected
    store, email, address, \* what each request names
    pc            \* the await each request has reached

requests == <<store, email, address>>
vars == <<applications, rejected, requests, pc>>

TypeOK ==
    /\ applications \subseteq Call /\ rejected \subseteq applications
    /\ store \in [Call -> Store \cup {None}]
    /\ email \in [Call -> Email \cup {None}]
    /\ address \in [Call -> Address \cup {None}]
    /\ pc \in [Call -> {"idle", "find", "findPending", "save", "saved",
                        "duplicate", "error"}]

Init ==
    /\ applications = {} /\ rejected = {}
    /\ store = [c \in Call |-> None] /\ email = [c \in Call |-> None]
    /\ address = [c \in Call |-> None] /\ pc = [c \in Call |-> "idle"]

Goto(c, await) == pc' = [pc EXCEPT ![c] = await]

CreateStoreUserKYC(c, s, e, a) ==
    /\ pc[c] = "idle"
    /\ store' = [store EXCEPT ![c] = s]
    /\ email' = [email EXCEPT ![c] = e]
    /\ address' = [address EXCEPT ![c] = a]
    /\ Goto(c, "find")
    /\ UNCHANGED <<applications, rejected>>

\* Applications of the store, e-mail and address of a request.
Same(c) == {d \in applications : /\ store[d] = store[c]
                                 /\ email[d] = email[c]
                                 /\ address[d] = address[c]}

\* UserKYCModel.findOne, of any status; the second look asks for PENDING ones.
Find(c) ==
    /\ pc[c] = "find"
    /\ Goto(c, IF Same(c) # {} THEN "duplicate" ELSE "findPending")
    /\ UNCHANGED <<applications, rejected, requests>>

FindPending(c) ==
    /\ pc[c] = "findPending"
    /\ Goto(c, IF Same(c) \ rejected # {} THEN "duplicate" ELSE "save")
    /\ UNCHANGED <<applications, rejected, requests>>

\* The unique indexes on email and on address.
Indexed(c, d) == email[c] = email[d] \/ address[c] = address[d]

\* userKycReq.save().
Save(c) ==
    /\ pc[c] = "save"
    /\ IF \E d \in applications : Indexed(c, d)
       THEN Goto(c, "error") /\ UNCHANGED applications
       ELSE applications' = applications \cup {c} /\ Goto(c, "saved")
    /\ UNCHANGED <<rejected, requests>>

\* rejectUserKYC.
RejectUserKYC(c) ==
    /\ c \in applications
    /\ rejected' = rejected \cup {c}
    /\ UNCHANGED <<applications, requests, pc>>

Next ==
    \/ \E c \in Call, s \in Store, e \in Email, a \in Address :
         CreateStoreUserKYC(c, s, e, a)
    \/ \E c \in Call : Find(c) \/ FindPending(c) \/ Save(c) \/ RejectUserKYC(c)

Spec == Init /\ [][Next]_vars

-----------------------------------------------------------------------------
(* Properties                                                              *)

\* However the looks of concurrent requests interleave, an e-mail and an
\* address are in one application at most.
OneApplicationPerUser ==
    \A c, d \in applications :
      c # d => email[c] # email[d] /\ address[c] # address[d]

=============================================================================
