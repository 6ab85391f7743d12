--------------------------- MODULE DaemonService ---------------------------
(***************************************************************************)
(* What cpu-x-daemon promises to the programs that connect to it, without  *)
(* threads, descriptors, counters or a mutex: a connection waits until it  *)
(* is served, is served once, and is over when its client leaves; a daemon *)
(* that nobody stops goes away only when it serves no one.                 *)
(***************************************************************************)
CONSTANTS Daemons, Clients, None

VARIABLES
    up,     \* is each daemon's socket listening; how it stopped
    conn,   \* each client's connection
    server  \* the daemon it was made to

vars == <<up, conn, server>>

Init ==
    /\ up = [d \in Daemons |-> "down"]
    /\ conn = [c \in Clients |-> "none"]
    /\ server = [c \in Clients |-> None]

Served(d) == {c \in Clients : server[c] = d /\ conn[c] = "served"}

\* Whatever still waited for d, or was served by it, is over.
Drop(d) ==
    conn' = [c \in Clients |-> IF server[c] = d THEN "over" ELSE conn[c]]

Start(d) ==
    /\ up[d] = "down"
    /\ up' = [up EXCEPT ![d] = "up"]
    /\ UNCHANGED <<conn, server>>

Connect(c, d) ==
    /\ conn[c] = "none"
    /\ up[d] = "up"
    /\ conn' = [conn EXCEPT ![c] = "pending"]
    /\ server' = [server EXCEPT ![c] = d]
    /\ UNCHANGED up

Serve(c) ==
    /\ conn[c] = "pending"
    /\ conn' = [conn EXCEPT ![c] = "served"]
    /\ UNCHANGED <<up, server>>

Finish(c) ==
    /\ conn[c] = "served"
    /\ conn' = [conn EXCEPT ![c] = "over"]
    /\ UNCHANGED <<up, server>>

\* A daemon's own decision: it may drop connections it has not accepted, none it serves.
StopIdle(d) ==
    /\ up[d] = "up"
    /\ Served(d) = {}
    /\ up' = [up EXCEPT ![d] = "gone"]
    /\ Drop(d)
    /\ UNCHANGED server

\* A signal, a crash or an error at startup.
Abort(d) ==
    /\ up[d] \in {"down", "up"}
    /\ up' = [up EXCEPT ![d] = "aborted"]
    /\ Drop(d)
    /\ UNCHANGED server

Next ==
    \/ \E d \in Daemons : Start(d) \/ StopIdle(d) \/ Abort(d)
    \/ \E c \in Clients : Serve(c) \/ Finish(c)
    \/ \E c \in Clients, d \in Daemons : Connect(c, d)

Spec == Init /\ [][Next]_vars

\* No connection waits for ever at a daemon that stays up and serves nobody: how many it
\* serves at once is its own affair.
FairSpec == Spec /\ \A c \in Clients : WF_vars(Served(server[c]) = {} /\ Serve(c))
=============================================================================
