----------------------------- MODULE CommandLog -----------------------------
(***************************************************************************)
(* What the message worker promises about one partition of the commands   *)
(* topic (spec sections 4.4 and 8), with the consumer group, the          *)
(* transactions and the faults abstracted away.  A command's transaction *)
(* ends any number of times (redelivery); it commits its effect on the    *)
(* table at most once per idempotency key; an ack names a command whose   *)
(* transaction has ended; and the committed offset only moves forward,    *)
(* over commands whose transaction has ended.                              *)
(***************************************************************************)
EXTENDS Naturals, Sequences

CONSTANTS
    N,        \* length of the partition
    Keys,     \* idempotency keys
    KeyOf     \* the key of the command at each offset

VARIABLES
    done,       \* offsets whose transaction has ended at least once
    eff,        \* committed effects per key
    acks,       \* the keys of the acks produced, in order
    committed   \* the group's committed offset

vars == <<done, eff, acks, committed>>

Offsets == 1 .. N

Init ==
    /\ done = {}
    /\ eff = [k \in Keys |-> 0]
    /\ acks = <<>>
    /\ committed = 1

\* The transaction of the command at i ends without a committed effect.
Handle(i) ==
    /\ done' = done \cup {i}
    /\ UNCHANGED <<eff, acks, committed>>

\* The transaction commits the command's effect: the first for its key.
Apply(i) ==
    /\ eff[KeyOf[i]] = 0
    /\ done' = done \cup {i}
    /\ eff' = [eff EXCEPT ![KeyOf[i]] = 1]
    /\ UNCHANGED <<acks, committed>>

\* An ack for a command whose transaction has ended.
Ack(i) ==
    /\ i \in done
    /\ acks' = Append(acks, KeyOf[i])
    /\ UNCHANGED <<done, eff, committed>>

\* The committed offset moves forward over ended transactions only.
Commit(n) ==
    /\ committed < n
    /\ \A i \in committed .. n - 1 : i \in done
    /\ committed' = n
    /\ UNCHANGED <<done, eff, acks>>

Next ==
    \/ \E i \in Offsets : Handle(i) \/ Apply(i) \/ Ack(i)
    \/ \E n \in 1 .. N + 1 : Commit(n)

\* A commit that is possible is eventually made.
Fairness == WF_vars(\E n \in 1 .. N + 1 : Commit(n))

SafetySpec == Init /\ [][Next]_vars

Spec == SafetySpec /\ Fairness
=============================================================================
