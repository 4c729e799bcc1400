---------------------------- MODULE MessageStore ----------------------------
(***************************************************************************)
(* The in-memory message store of go-swagger-demo (main.go): a package    *)
(* map from id to Message served by gin handlers.  gin runs every request *)
(* on its own goroutine and the map has no lock, so the handlers of       *)
(* different Clients interleave.  createMessage reads len(store) and then *)
(* writes store[next]; updateMessage checks that the id exists and then   *)
(* writes it; each of those is two steps here.  Single map operations are *)
(* atomic steps; when accesses do overlap, the Go runtime may stop the    *)
(* process with "concurrent map writes", and the process restarts with    *)
(* the seed store.  Read-only handlers (list, get, hello) change nothing  *)
(* and are left out; so are the 400 and 404 answers, which change nothing *)
(* either.                                                                 *)
(***************************************************************************)
EXTENDS Naturals, FiniteSets

CONSTANTS
    Clients,     \* concurrent HTTP requests
    Texts,       \* non-empty message texts a request body may carry
    MaxId,       \* ids are 1 .. MaxId
    None,        \* no message at an id
    MaxFaults    \* bound on runtime aborts

ASSUME MaxIdAssumption == MaxId \in Nat /\ MaxId >= 2
ASSUME TextsAssumption == {"hello", "namaste"} \subseteq Texts
ASSUME MaxFaultsAssumption == MaxFaults \in Nat

Ids == 1 .. MaxId
\* The id field of a request body: absent (0) or any id.
BodyIds == {0} \cup Ids
\* type Message struct { ID int; Message string }
MessageType == [id : BodyIds, text : Texts]

\* var store = map[int]Message{1: {1, "hello"}, 2: {2, "namaste"}}
Seed == [k \in Ids |-> CASE k = 1 -> [id |-> 1, text |-> "hello"]
                         [] k = 2 -> [id |-> 2, text |-> "namaste"]
                         [] OTHER -> None]

VARIABLES
    store,    \* id -> Message or None
    req,      \* client -> the handler it is in, between its two steps
    faults

vars == <<store, req, faults>>

Idle == [pc |-> "idle", id |-> 0, msg |-> None]

Init ==
    /\ store = Seed
    /\ req = [c \in Clients |-> Idle]
    /\ faults = 0

\* len(store)
StoreLen == Cardinality({k \in Ids : store[k] # None})

\* Mutant: an off-by-one, next := len(store).
CreateBeginLen(c, m) ==
    /\ req[c].pc = "idle"
    /\ StoreLen + 1 <= MaxId
    /\ req' = [req EXCEPT ![c] = [pc |-> "create", id |-> StoreLen, msg |-> m]]
    /\ UNCHANGED <<store, faults>>

\* createMessage, first step: the bound body and next := len(store) + 1.
CreateBegin(c, m) ==
    /\ req[c].pc = "idle"
    /\ StoreLen + 1 <= MaxId
    /\ req' = [req EXCEPT ![c] = [pc |-> "create", id |-> StoreLen + 1, msg |-> m]]
    /\ UNCHANGED <<store, faults>>

\* createMessage, second step: in.ID = next; store[next] = in; 201.
CreateEnd(c) ==
    /\ req[c].pc = "create"
    /\ store' = [store EXCEPT ![req[c].id] = [req[c].msg EXCEPT !.id = req[c].id]]
    /\ req' = [req EXCEPT ![c] = Idle]
    /\ UNCHANGED faults

\* updateMessage, first step: store[id] exists; the body binds.
UpdateBegin(c, id, m) ==
    /\ req[c].pc = "idle"
    /\ store[id] # None
    /\ req' = [req EXCEPT ![c] = [pc |-> "update", id |-> id, msg |-> m]]
    /\ UNCHANGED <<store, faults>>

\* updateMessage, second step: in.ID = id; store[id] = in; 200.
UpdateEnd(c) ==
    /\ req[c].pc = "update"
    /\ store' = [store EXCEPT ![req[c].id] = [req[c].msg EXCEPT !.id = req[c].id]]
    /\ req' = [req EXCEPT ![c] = Idle]
    /\ UNCHANGED faults

\* deleteMessage: store[id] exists; delete(store, id); 204.
Delete(c, id) ==
    /\ req[c].pc = "idle"
    /\ store[id] # None
    /\ store' = [store EXCEPT ![id] = None]
    /\ UNCHANGED <<req, faults>>

\* A map access overlapping another request's makes the runtime abort the
\* process; it restarts with the seed store and the open requests are lost.
Abort ==
    /\ faults < MaxFaults
    /\ \E c \in Clients : req[c].pc # "idle"
    /\ store' = Seed
    /\ req' = [c \in Clients |-> Idle]
    /\ faults' = faults + 1

Next ==
    \/ \E c \in Clients, m \in MessageType :
          CreateBegin(c, m) \/ \E id \in Ids : UpdateBegin(c, id, m)
    \/ \E c \in Clients : CreateEnd(c) \/ UpdateEnd(c)
    \/ \E c \in Clients, id \in Ids : Delete(c, id)
    \/ Abort

Spec == Init /\ [][Next]_vars
-----------------------------------------------------------------------------
TypeOK ==
    /\ store \in [Ids -> MessageType \cup {None}]
    /\ req \in [Clients -> {Idle} \cup [pc : {"create", "update"}, id : Ids,
                                          msg : MessageType]]
    /\ faults \in 0 .. MaxFaults

(* "Create and store a new message" (createMessage's description): a     *)
(* create never replaces a message that is in the store.                  *)
CreateNeverOverwrites ==
    [][\A c \in Clients :
          req[c].pc = "create" /\ req'[c].pc = "idle" /\ faults' = faults
             => store[req[c].id] = None]_vars

(* A message answered 204 by deleteMessage stays deleted until a create   *)
(* writes its id: an update never writes an id that holds no message.     *)
UpdateNeverResurrects ==
    [][\A c \in Clients :
          req[c].pc = "update" /\ req'[c].pc = "idle" /\ faults' = faults
             => store[req[c].id] # None]_vars
=============================================================================
