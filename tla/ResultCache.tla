---------------------------- MODULE ResultCache ----------------------------
(***************************************************************************)
(* What the API gateway's result cache promises to a long-polling client, *)
(* with time abstracted away.  Each replica reads its partition of the    *)
(* acks topic in order and keeps a live view from trace to the status of  *)
(* the last ack it read for it.  Entries leave the view only by expiring  *)
(* or by a restart of the replica, which also rewinds its read position.  *)
(* A poll of a replica answers 200 with the view's status for its trace,  *)
(* or 204 when the view has none at that moment.                          *)
(***************************************************************************)
EXTENDS Naturals, Sequences

CONSTANTS Gateways, Traces, Clients, Statuses, None

VARIABLES
    acks,   \* each replica's partition of the acks topic
    pos,    \* each replica's read position in it
    live,   \* each replica's view: trace -> status or None
    poll    \* each client's open poll and its last answer

vars == <<acks, pos, live, poll>>

AckType == [trace : Traces, status : Statuses]

NoPoll == [state |-> "idle", gw |-> None, trace |-> None, code |-> "none",
           status |-> None]

Init ==
    /\ acks = [g \in Gateways |-> <<>>]
    /\ pos = [g \in Gateways |-> 1]
    /\ live = [g \in Gateways |-> [t \in Traces |-> None]]
    /\ poll = [c \in Clients |-> NoPoll]

\* An ack is produced to the partition of replica g.
Produce(g, a) ==
    /\ acks' = [acks EXCEPT ![g] = Append(@, a)]
    /\ UNCHANGED <<pos, live, poll>>

\* Replica g reads its next ack into its view.
Put(g) ==
    /\ pos[g] <= Len(acks[g])
    /\ live' = [live EXCEPT ![g][acks[g][pos[g]].trace] = acks[g][pos[g]].status]
    /\ pos' = [pos EXCEPT ![g] = pos[g] + 1]
    /\ UNCHANGED <<acks, poll>>

\* Some entries of some views expire.
Expire ==
    /\ \E E \in SUBSET (Gateways \X Traces) :
          live' = [g \in Gateways |-> [t \in Traces |->
                      IF <<g, t>> \in E THEN None ELSE live[g][t]]]
    /\ UNCHANGED <<acks, pos, poll>>

\* Replica g restarts: an empty view, an earlier read position, and the
\* polls it was serving are cut.
Restart(g) ==
    /\ \E p \in 1 .. pos[g] : pos' = [pos EXCEPT ![g] = p]
    /\ live' = [live EXCEPT ![g] = [t \in Traces |-> None]]
    /\ poll' = [c \in Clients |-> IF poll[c].state = "waiting" /\ poll[c].gw = g
                                  THEN NoPoll ELSE poll[c]]
    /\ UNCHANGED acks

\* Client c polls replica g for trace t.
Start(c, g, t) ==
    /\ poll[c].state = "idle"
    /\ poll' = [poll EXCEPT ![c] = [state |-> "waiting", gw |-> g, trace |-> t,
                                    code |-> "none", status |-> None]]
    /\ UNCHANGED <<acks, pos, live>>

\* The poll answers 200 with the view's status.
Found(c) ==
    /\ poll[c].state = "waiting"
    /\ live[poll[c].gw][poll[c].trace] # None
    /\ poll' = [poll EXCEPT ![c].state = "idle", ![c].code = "200",
                    ![c].status = live[poll[c].gw][poll[c].trace]]
    /\ UNCHANGED <<acks, pos, live>>

\* The poll answers 204: the view has no entry for the trace.
Pending(c) ==
    /\ poll[c].state = "waiting"
    /\ live[poll[c].gw][poll[c].trace] = None
    /\ poll' = [poll EXCEPT ![c].state = "idle", ![c].code = "204",
                    ![c].status = None]
    /\ UNCHANGED <<acks, pos, live>>

Next ==
    \/ \E g \in Gateways, a \in AckType : Produce(g, a)
    \/ \E g \in Gateways : Put(g) \/ Restart(g)
    \/ Expire
    \/ \E c \in Clients, g \in Gateways, t \in Traces : Start(c, g, t)
    \/ \E c \in Clients : Found(c) \/ Pending(c)

Spec == Init /\ [][Next]_vars
=============================================================================
