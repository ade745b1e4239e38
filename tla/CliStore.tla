------------------------------ MODULE CliStore ------------------------------
(***************************************************************************)
(* The CLI's database of keys and chains, as the commands key generate,    *)
(* key import, key set, chain import, chain set and chain import-cli write *)
(* it (cmd/prediction-cli/cmd, hypersdk cli) and as DefaultActor reads it. *)
(*                                                                         *)
(* A command opens the database, which locks it, and makes its writes one  *)
(* by one, each durable; the process may end after any of them.  A command *)
(* whose checks fail writes nothing and is not a step.                     *)
(***************************************************************************)
EXTENDS Integers, Sequences, FiniteSets, SequencesExt

CONSTANTS
    Addr,     \* addresses of private keys
    Chain,    \* chain IDs
    Rpc,      \* texts stored as the endpoint of a chain
    None      \* a default that has not been set

ASSUME NoneAssumption == None \notin Addr /\ None \notin Chain

ASSUME RpcAssumption == IsFiniteSet(Rpc)

VARIABLES
    keys,           \* the stored private keys, by address
    defaultKey,
    rpcs,           \* the stored <<chain, endpoint>> records
    defaultChain,
    todo,           \* the writes that the running command still has to make
    endpoints       \* history: what import-cli has made of the endpoints, and
                    \* whether the running command makes up for it at its end

cliVars == <<keys, defaultKey, rpcs, defaultChain, todo, endpoints>>

GetChain(c) == {r[2] : r \in {s \in rpcs : s[1] = c}}

-----------------------------------------------------------------------------
(* Commands: the checks, and the writes they lead to.                      *)

Put(op, val) == [op |-> op, val |-> val]

Begin(writes) ==
    /\ todo = <<>>
    /\ todo' = writes
    /\ UNCHANGED <<keys, defaultKey, rpcs, defaultChain>>

(* Mutant: the default is set before the key is stored.                    *)
StoreKeyLate(a) ==
    /\ a \notin keys
    /\ Begin(<<Put("defaultKey", a), Put("key", a)>>)
    /\ UNCHANGED endpoints

(* key generate and key import: ErrDuplicate for a stored key.             *)
StoreKey(a) ==
    /\ a \notin keys
    /\ Begin(<<Put("key", a), Put("defaultKey", a)>>)
    /\ UNCHANGED endpoints

(* key set: needs a default chain with an endpoint, whose balance lookups  *)
(* answer, and offers the stored keys.                                     *)
SetKey(a) ==
    /\ a \in keys
    /\ defaultChain # None
    /\ GetChain(defaultChain) # {}
    /\ Begin(<<Put("defaultKey", a)>>)
    /\ UNCHANGED endpoints

(* A command that selects a chain with an endpoint makes up for lost ones. *)
Restore == endpoints' = IF endpoints = "lost" THEN "restoring" ELSE endpoints

(* chain import, for an endpoint that answers with its chain.              *)
ImportChain(c, u) ==
    /\ <<c, u>> \notin rpcs
    /\ Begin(<<Put("rpc", <<c, u>>), Put("defaultChain", c)>>)
    /\ Restore

(* chain set: offers the chains that have an endpoint.                     *)
SetDefaultChain(c) ==
    /\ GetChain(c) # {}
    /\ Begin(<<Put("defaultChain", c)>>)
    /\ Restore

(* Mutant: the old endpoints are deleted once the new ones are stored.     *)
ImportClusterInfoLate(c, nodes) ==
    \E deletes \in SetToSeqs({Put("delete", r) : r \in rpcs}),
       stores \in SetToSeqs({Put("rpc", <<c, n>>) : n \in nodes}) :
        /\ Begin(stores \o <<Put("defaultChain", c)>> \o deletes)
        /\ endpoints' = IF nodes = {} THEN "lost" ELSE "restoring"

(* chain import-cli: all endpoints are deleted, one by one, before the     *)
(* file is read.  A file that cannot be read ends the command there;       *)
(* otherwise its nodes, if any, are stored in the order of a Go map.       *)
ImportClusterInfo(c, nodes) ==
    \E deletes \in SetToSeqs({Put("delete", r) : r \in rpcs}) :
        \/ Begin(deletes) /\ endpoints' = "lost"
        \/ /\ \E stores \in SetToSeqs({Put("rpc", <<c, n>>) : n \in nodes}) :
                 Begin(deletes \o stores \o <<Put("defaultChain", c)>>)
           /\ endpoints' = IF nodes = {} THEN "lost" ELSE "restoring"

(* One write to the database.                                              *)
Write ==
    LET w == Head(todo) IN
    /\ todo # <<>>
    /\ todo' = Tail(todo)
    /\ keys' = IF w.op = "key" THEN keys \cup {w.val} ELSE keys
    /\ defaultKey' = IF w.op = "defaultKey" THEN w.val ELSE defaultKey
    /\ rpcs' = CASE w.op = "rpc" -> rpcs \cup {w.val}
                 [] w.op = "delete" -> rpcs \ {w.val}
                 [] OTHER -> rpcs
    /\ defaultChain' = IF w.op = "defaultChain" THEN w.val ELSE defaultChain
    /\ endpoints' = IF endpoints = "restoring" /\ Len(todo) = 1 THEN "kept" ELSE endpoints

(* A write fails or the process ends: the rest of the command is lost.     *)
Crash ==
    /\ todo # <<>>
    /\ todo' = <<>>
    /\ endpoints' = IF endpoints = "restoring" THEN "lost" ELSE endpoints
    /\ UNCHANGED <<keys, defaultKey, rpcs, defaultChain>>

CliInit ==
    /\ keys = {} /\ defaultKey = None
    /\ rpcs = {} /\ defaultChain = None
    /\ todo = <<>> /\ endpoints = "kept"

CliNext ==
    \/ \E a \in Addr : StoreKey(a) \/ SetKey(a)
    \/ \E c \in Chain, u \in Rpc : ImportChain(c, u)
    \/ \E c \in Chain : SetDefaultChain(c)
    \/ \E c \in Chain, nodes \in SUBSET Rpc : ImportClusterInfo(c, nodes)
    \/ Write
    \/ Crash

CliSpec == CliInit /\ [][CliNext]_cliVars

-----------------------------------------------------------------------------
(* Properties.                                                             *)

(* DefaultActor's lookups, once both defaults are set: GetKey finds the    *)
(* private key of the default address, or yields an empty one; uris[0]     *)
(* exists, or the index panics.                                            *)
DefaultActorHasKey == defaultKey \in keys
DefaultActorPanics == defaultChain # None /\ GetChain(defaultChain) = {}

(* The default address always has its private key in the database, however *)
(* the commands that set it were cut off: nothing is signed with an empty  *)
(* key.                                                                    *)
DefaultKeyStored == defaultKey # None => DefaultActorHasKey

(* The default chain has an endpoint, however chain import and chain set   *)
(* were cut off.  An import-cli takes it away when it is cut off, cannot   *)
(* read its file or finds no node in it; one that stores a node, or any    *)
(* later command that selects a chain, gives it back when it gets to its   *)
(* end.                                                                    *)
DefaultChainServed == DefaultActorPanics => endpoints # "kept"
=============================================================================
