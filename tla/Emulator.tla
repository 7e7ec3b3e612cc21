-------------------------------- MODULE Emulator ------------------------------
(***************************************************************************)
(* The phone emulator a store tests with: its record in MongoDB, and the   *)
(* registry in memory that names the socket a store's notifications go to. *)
(***************************************************************************)
EXTENDS FiniteSets, Naturals

CONSTANTS
    User,    \* whoever a socket joins as: the ids of stores
    Socket,  \* socket.io connections
    Phone,   \* phone numbers
    Call,    \* HTTP requests
    None

ASSUME NoneAssumption == None \notin Socket

VARIABLES
    live,            \* sockets the server has not yet seen disconnect
    userConnections, \* the registry: user -> socket, or None
    joined,          \* <<user, socket>>: every join
    latest,          \* user -> the last socket that joined as it, or None
    emulators,       \* EmulatorModel: <<call that saved it, store, phone>>
    pc, store, phone  \* each request

sockets == <<live, userConnections, joined, latest>>
requests == <<pc, store, phone>>
vars == <<sockets, emulators, requests>>

TypeOK ==
    /\ live \subseteq Socket
    /\ userConnections \in [User -> Socket \cup {None}]
    /\ joined \subseteq User \X Socket
    /\ latest \in [User -> Socket \cup {None}]
    /\ emulators \subseteq Call \X User \X Phone
    /\ pc \in [Call -> {"idle", "find", "save", "done", "refused"}]
    /\ store \in [Call -> User \cup {None}]
    /\ phone \in [Call -> Phone \cup {None}]

Init ==
    /\ live = {} /\ joined = {}
    /\ userConnections = [u \in User |-> None]
    /\ latest = [u \in User |-> None]
    /\ emulators = {}
    /\ pc = [c \in Call |-> "idle"] /\ store = [c \in Call |-> None]
    /\ phone = [c \in Call |-> None]

-----------------------------------------------------------------------------
(* Sockets                                                                 *)

\* A socket's id is used once.
Connect(s) ==
    /\ s \notin live /\ \A u \in User : <<u, s>> \notin joined
    /\ live' = live \cup {s}
    /\ UNCHANGED <<userConnections, joined, latest, emulators, requests>>

\* "join".  A client may join as several users over one socket.
Join(u, s) ==
    /\ s \in live
    /\ userConnections' = [userConnections EXCEPT ![u] = s]
    /\ joined' = joined \cup {<<u, s>>}
    /\ latest' = [latest EXCEPT ![u] = s]
    /\ UNCHANGED <<live, emulators, requests>>

\* Mutated form of Disconnect: everyone who joined over the socket is removed.
DisconnectUsers(s) ==
    /\ s \in live
    /\ live' = live \ {s}
    /\ userConnections' = [u \in User |-> IF <<u, s>> \in joined THEN None
                                          ELSE userConnections[u]]
    /\ UNCHANGED <<joined, latest, emulators, requests>>

\* Mutated form of Disconnect: the registry is not told.
DisconnectOnly(s) ==
    /\ s \in live
    /\ live' = live \ {s}
    /\ UNCHANGED <<userConnections, joined, latest, emulators, requests>>

\* "disconnect", possibly long after the client has reconnected: find() stops
\* at one user whose socket this is.
Disconnect(s) ==
    LET of == {u \in User : userConnections[u] = s}
    IN  /\ s \in live
        /\ live' = live \ {s}
        /\ IF of = {} THEN UNCHANGED userConnections
           ELSE \E u \in of :
                  userConnections' = [userConnections EXCEPT ![u] = None]
        /\ UNCHANGED <<joined, latest, emulators, requests>>

-----------------------------------------------------------------------------
(* Emulators                                                               *)

Goto(c, await) == pc' = [pc EXCEPT ![c] = await]

CreateEmulator(c, u, p) ==
    /\ pc[c] = "idle"
    /\ store' = [store EXCEPT ![c] = u]
    /\ phone' = [phone EXCEPT ![c] = p]
    /\ Goto(c, "find")
    /\ UNCHANGED <<sockets, emulators>>

\* EmulatorModel.findOne({ phone }).
FindPhone(c) ==
    /\ pc[c] = "find"
    /\ Goto(c, IF \E e \in emulators : e[3] = phone[c] THEN "refused"
               ELSE "save")
    /\ UNCHANGED <<sockets, emulators, store, phone>>

\* emulator.save(), refused by the index on phone or by the database.
SaveEmulator(c) ==
    /\ pc[c] = "save"
    /\ \/ /\ \A e \in emulators : e[3] # phone[c]
          /\ emulators' = emulators \cup {<<c, store[c], phone[c]>>}
          /\ Goto(c, "done")
       \/ Goto(c, "refused") /\ UNCHANGED emulators
    /\ UNCHANGED <<sockets, store, phone>>

\* sendEmulatorMomoMessage takes the store from req.store, which the guard of
\* its route does not set: it throws and saves no message.
SendEmulatorMomoMessage(c) ==
    /\ pc[c] = "idle"
    /\ Goto(c, "refused")
    /\ UNCHANGED <<sockets, emulators, store, phone>>

\* The process restarts: the registry is empty, and so are the connections.
Restart ==
    /\ live' = {}
    /\ userConnections' = [u \in User |-> None]
    /\ latest' = [u \in User |-> None]
    /\ pc' = [c \in Call |-> IF pc[c] = "idle" THEN "idle"
                             ELSE IF pc[c] = "done" THEN "done" ELSE "refused"]
    /\ UNCHANGED <<joined, emulators, store, phone>>

Next ==
    \/ \E s \in Socket : Connect(s) \/ Disconnect(s)
    \/ \E u \in User, s \in Socket : Join(u, s)
    \/ \E c \in Call, u \in User, p \in Phone : CreateEmulator(c, u, p)
    \/ \E c \in Call : \/ FindPhone(c) \/ SaveEmulator(c)
                       \/ SendEmulatorMomoMessage(c)
    \/ Restart

Spec == Init /\ [][Next]_vars

-----------------------------------------------------------------------------
(* Properties                                                              *)

\* A user whose last join was over a socket that is up is notified over that
\* socket, even when the disconnect of an older one is handled after it.
NewerJoinSurvives ==
    \A u \in User : latest[u] \in live => userConnections[u] = latest[u]

\* A notification goes to a socket that is gone only if that socket joined as
\* two users, of whom the disconnect removes one.
StaleOnlyIfShared ==
    \A u \in User :
      LET s == userConnections[u]
      IN  s \in Socket \ live =>
            \E v \in User \ {u} : <<v, s>> \in joined

\* Two requests that both find a phone free leave one emulator for it.
OneEmulatorPerPhone ==
    \A d, e \in emulators : d[3] = e[3] => d = e
=============================================================================
