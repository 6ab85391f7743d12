-------------------------- MODULE DaemonRefinement --------------------------
(***************************************************************************)
(* Daemon implements DaemonService: the refinement mapping.                *)
(***************************************************************************)
EXTENDS Daemon

UpOf(d) ==
    IF listening[d] THEN "up"
    ELSE IF main[d] # "dead" THEN "down"
    ELSE IF killed[d] \/ exit_status[d] # "ok" THEN "aborted"
    ELSE "gone"

ConnOf(c) ==
    IF peer[c] = None THEN "none"
    ELSE IF handler[c] \in HandlerLive THEN "served"
    ELSE IF handler[c] = "none" /\ ServerEnd(c) THEN "pending"
    ELSE "over"

Service == INSTANCE DaemonService
    WITH up     <- [d \in Daemons |-> UpOf(d)],
         conn   <- [c \in Clients |-> ConnOf(c)],
         server <- peer

\* Every behaviour of the daemons and the programs is one that the service promises.
ServiceSpec == Service!Spec

\* With the scheduler's fairness, the service's fairness too: a connection that waits
\* at a daemon without another client is accepted and given a thread, or the daemon stops.
ServiceFairSpec == Service!FairSpec
=============================================================================
