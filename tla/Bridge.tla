-------------------------------- MODULE Bridge --------------------------------
(***************************************************************************)
(* The calls from Dart to Rust in flight, and the threads that run them.   *)
(* A normal call is serialised and decoded at once, while Dart looks on;   *)
(* then it waits in a queue for one of the pool's threads, on that thread  *)
(* for the locks it needs, runs, and leaves a reply for Dart's event loop. *)
(* A thread whose call waits, for a lock or for a host, serves nobody      *)
(* else.  A synchronous call runs on Dart's thread: nothing else happens   *)
(* in Dart until it has returned.                                          *)
(*                                                                         *)
(* An opaque object is counted: Dart's handle and every call in flight     *)
(* keep it alive, and its fields are dropped with the last of them.        *)
(***************************************************************************)
EXTENDS Naturals, Sequences, SequencesExt, FiniteSets, Wires, Codec

CONSTANTS
    Calls,      \* calls that may be in flight at a time (bound)
    Objects,    \* opaque objects (bound)
    Cards,      \* the connections that may be passed
    PoolSize,   \* threads of the pool
    None        \* no object, no call, no function

ASSUME BridgeAssumption ==
    /\ PoolSize \in Nat \ {0} /\ Cards \subseteq Connection
    /\ None \notin Calls /\ None \notin Objects /\ None \notin Cards
    /\ None \notin PrimaryNames \cup SyncNames

VARIABLES
    stage,      \* each call: "free", "queued", "claimed" by a thread, "running", "replied"
    fn, that,   \* the name of the function it calls, the object whose method that is
    arg,        \* its argument as Rust has decoded it
    reply,      \* what it returned: [ok, val]
    queue,      \* the calls that wait for a thread, first come first served
    blocked     \* the synchronous function that Dart's thread is in

bridgeVars == <<stage, fn, that, arg, reply, queue, blocked>>

NoReply == [ok |-> TRUE, val |-> None]

BridgeInit ==
    /\ stage = [c \in Calls |-> "free"] /\ fn = [c \in Calls |-> None]
    /\ that = [c \in Calls |-> None] /\ arg = [c \in Calls |-> None]
    /\ reply = [c \in Calls |-> NoReply]
    /\ queue = <<>> /\ blocked = None

DartRuns == blocked = None
OnThread(c) == stage[c] \in {"claimed", "running"}
InFlight(c) == stage[c] \in {"queued", "claimed", "running"}
Using(o) == {c \in Calls : InFlight(c) /\ that[c] = o}

(* A connection on its way from Dart to Rust.                              *)
Decoded == [a \in Cards |-> DecodeConnection(EncodeConnection(a)).val]

(* Dart calls w, a method of o or a plain function, maybe as the next call *)
(* of a chain of awaits.  Of the arguments the model keeps a connection.   *)
Invoke(c, w, o, a) ==
    /\ DartRuns /\ w \in PrimaryNames
    /\ a # None => "Connection" \in Range(WireNamed[w].args)
    /\ stage[c] \in {"free", "replied"}
    /\ stage' = [stage EXCEPT ![c] = "queued"]
    /\ fn' = [fn EXCEPT ![c] = w]
    /\ that' = [that EXCEPT ![c] = o]
    /\ arg' = [arg EXCEPT ![c] = IF a = None THEN None ELSE Decoded[a]]
    /\ reply' = [reply EXCEPT ![c] = NoReply]
    /\ queue' = Append(queue, c)
    /\ UNCHANGED blocked

Claim ==
    /\ queue # <<>> /\ Cardinality({c \in Calls : OnThread(c)}) < PoolSize
    /\ stage' = [stage EXCEPT ![Head(queue)] = "claimed"]
    /\ queue' = Tail(queue)
    /\ UNCHANGED <<fn, that, arg, reply, blocked>>

Borrows(c, how) == stage[c] = "running" /\ WireNamed[fn[c]].that = how
ObjectLocked(c) == \E d \in Calls :
    /\ that[d] = that[c] /\ that[c] # None
    /\ Borrows(d, "exclusive") \/ (Borrows(d, "shared") /\ WireNamed[fn[c]].that = "exclusive")

(* Mutant: a call that waits for an SSH host keeps the vault's lock. *)
VaultLockedMeanwhile == \E d \in Calls :
    stage[d] = "running" /\ fn[d] \in TakesVault \cup WaitsForSsh

VaultLocked == \E d \in Calls : stage[d] = "running" /\ fn[d] \in TakesVault

Enter(c) ==
    /\ stage[c] = "claimed" /\ ~ObjectLocked(c)
    /\ fn[c] \in TakesVault => ~VaultLocked
    /\ stage' = [stage EXCEPT ![c] = "running"]
    /\ UNCHANGED <<fn, that, arg, reply, queue, blocked>>

(* The function returns; its locks and its count of the object go with it. *)
Return(c, r) ==
    /\ stage[c] = "running"
    /\ r.ok \/ WireNamed[fn[c]].out.fails
    /\ stage' = [stage EXCEPT ![c] = "replied"]
    /\ reply' = [reply EXCEPT ![c] = r]
    /\ UNCHANGED <<fn, that, arg, queue, blocked>>

(* Dart's event loop takes the reply and nothing follows in Rust.          *)
TakeReply(c) ==
    /\ DartRuns /\ stage[c] = "replied"
    /\ stage' = [stage EXCEPT ![c] = "free"]
    /\ fn' = [fn EXCEPT ![c] = None] /\ that' = [that EXCEPT ![c] = None]
    /\ arg' = [arg EXCEPT ![c] = None] /\ reply' = [reply EXCEPT ![c] = NoReply]
    /\ UNCHANGED <<queue, blocked>>

BeginSync(w) ==
    /\ DartRuns /\ w \in SyncNames
    /\ blocked' = w
    /\ UNCHANGED <<stage, fn, that, arg, reply, queue>>

EndSync ==
    /\ blocked # None
    /\ blocked \in TakesVault => ~VaultLocked
    /\ blocked' = None
    /\ UNCHANGED <<stage, fn, that, arg, reply, queue>>
=============================================================================
