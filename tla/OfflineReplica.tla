--------------------------- MODULE OfflineReplica ---------------------------
(***************************************************************************)
(* What delta sync promises an offline client: the server's data may       *)
(* change at any time, and whenever the client pulls it holds exactly what *)
(* the server then shows.  Nothing is missed, however long the client was  *)
(* away.                                                                   *)
(***************************************************************************)
CONSTANTS Keys, Values, Clients

VARIABLES
    server,    \* what the server shows under each key
    replica    \* what each client holds

Init ==
    /\ server \in [Keys -> Values]
    /\ replica = [c \in Clients |-> server]

Change ==
    /\ server' \in [Keys -> Values]
    /\ UNCHANGED replica

Refresh(c) ==
    /\ replica' = [replica EXCEPT ![c] = server]
    /\ UNCHANGED server

Next == Change \/ \E c \in Clients : Refresh(c)

Spec == Init /\ [][Next]_<<server, replica>>
=============================================================================
