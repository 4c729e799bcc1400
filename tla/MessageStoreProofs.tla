------------------------- MODULE MessageStoreProofs -------------------------
(***************************************************************************)
(* Proof of MessageStore's type invariant, for every number of clients   *)
(* and ids.  TypeOK is inductive as it stands: the write steps store a    *)
(* bound body with its ID set to an id, and createMessage's next id,      *)
(* len(store) + 1, is an id while the guard holds.                        *)
(***************************************************************************)
EXTENDS MessageStore, FiniteSetTheorems, TLAPS

USE MaxIdAssumption, TextsAssumption, MaxFaultsAssumption

IInv == TypeOK

\* The seed store is a store of messages.
LEMMA SeedTyped == Seed \in [Ids -> MessageType \cup {None}]
BY DEF Seed, Ids, MessageType, BodyIds

\* A write step's value: a bound body with its ID set to an id.
LEMMA WriteTyped ==
    ASSUME NEW m \in MessageType, NEW k \in Ids
    PROVE  [m EXCEPT !.id = k] \in MessageType
BY DEF MessageType, BodyIds, Ids

LEMMA InitIInv == Init => IInv
BY SeedTyped DEF Init, IInv, TypeOK, Idle

LEMMA NextIInv == IInv /\ [Next]_vars => IInv'
<1> SUFFICES ASSUME IInv, [Next]_vars PROVE IInv'
    OBVIOUS
<1>a. store \in [Ids -> MessageType \cup {None}]
    BY DEF IInv, TypeOK
<1>b. req \in [Clients -> {Idle} \cup [pc : {"create", "update"}, id : Ids,
                                       msg : MessageType]]
    BY DEF IInv, TypeOK
<1>d. faults \in 0 .. MaxFaults
    BY DEF IInv, TypeOK
<1>1. ASSUME NEW c \in Clients, NEW m \in MessageType, CreateBegin(c, m)
      PROVE IInv'
    <2>1. StoreLen + 1 \in Ids
        <3>a. IsFiniteSet(Ids)
            BY FS_Interval DEF Ids
        <3>b. IsFiniteSet({k \in Ids : store[k] # None})
            BY <3>a, FS_Subset
        <3>1. StoreLen \in Nat
            BY <3>b, FS_CardinalityType DEF StoreLen
        <3>2. QED
            BY <3>1, <1>1 DEF CreateBegin, Ids
    <2>2. QED
        BY <1>1, <2>1, <1>a, <1>b, <1>d
        DEF CreateBegin, IInv, TypeOK
<1>2. ASSUME NEW c \in Clients, NEW m \in MessageType, NEW id \in Ids,
             UpdateBegin(c, id, m)
      PROVE IInv'
    BY <1>2, <1>a, <1>b, <1>d
    DEF UpdateBegin, IInv, TypeOK
<1>3. ASSUME NEW c \in Clients, CreateEnd(c) PROVE IInv'
    <2>1. req[c] \in [pc : {"create", "update"}, id : Ids, msg : MessageType]
        BY <1>3, <1>b DEF CreateEnd, Idle
    <2>2. [req[c].msg EXCEPT !.id = req[c].id] \in MessageType
        BY <2>1, WriteTyped
    <2>3. QED
        BY <1>3, <2>1, <2>2, <1>a, <1>b, <1>d
        DEF CreateEnd, IInv, TypeOK, Idle
<1>4. ASSUME NEW c \in Clients, UpdateEnd(c) PROVE IInv'
    <2>1. req[c] \in [pc : {"create", "update"}, id : Ids, msg : MessageType]
        BY <1>4, <1>b DEF UpdateEnd, Idle
    <2>2. [req[c].msg EXCEPT !.id = req[c].id] \in MessageType
        BY <2>1, WriteTyped
    <2>3. QED
        BY <1>4, <2>1, <2>2, <1>a, <1>b, <1>d
        DEF UpdateEnd, IInv, TypeOK, Idle
<1>5. ASSUME NEW c \in Clients, NEW id \in Ids, Delete(c, id) PROVE IInv'
    BY <1>5, <1>a, <1>b, <1>d
    DEF Delete, IInv, TypeOK
<1>6. CASE Abort
    BY <1>6, SeedTyped, <1>b, <1>d DEF Abort, IInv, TypeOK
<1>7. CASE UNCHANGED vars
    BY <1>7, <1>a, <1>b, <1>d DEF vars, IInv, TypeOK
<1>8. QED
    BY <1>1, <1>2, <1>3, <1>4, <1>5, <1>6, <1>7 DEF Next

(* The store's values are typed and every request sits in one of the two *)
(* handler gaps with a valid id, in every reachable state.                *)
THEOREM StoreTypeCorrect == Spec => []TypeOK
<1>1. Init => IInv
    BY InitIInv
<1>2. IInv /\ [Next]_vars => IInv'
    BY NextIInv
<1>3. IInv => TypeOK
    BY DEF IInv
<1>4. QED
    BY <1>1, <1>2, <1>3, PTL DEF Spec

=============================================================================
