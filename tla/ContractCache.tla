--------------------------- MODULE ContractCache ---------------------------
(***************************************************************************)
(* The contract caches of contractkit: AddressRegistry, Web3ContractCache  *)
(* and WrapperCache of the full kit, and MiniContractCache.                *)
(*                                                                         *)
(* Calls of getContract overlap: each part of a call up to its next await  *)
(* is a step.  A wrapper is represented by the address it is for.          *)
(***************************************************************************)
CONSTANTS Callers,    \* calls in progress
          Contracts,  \* names of core contracts
          Addresses,  \* addresses that callers pass
          Core(_),    \* external: the address of a contract in the Registry
          Undefined     \* undefined, and NULL_ADDRESS

ASSUME CacheAssumption ==
  /\ Undefined \notin Addresses
  /\ \A name \in Contracts : Core(name) \notin Addresses \cup {Undefined}

VARIABLES
  registered,  \* external: the contracts that are in the Registry
  addresses,   \* the cache of AddressRegistry
  instances,   \* cacheMap of Web3ContractCache
  wrappers,    \* wrapperCache of WrapperCache, and cache of MiniContractCache
  pc,          \* where each caller is
  asked,       \* what it asked for
  got,         \* the address it found, and then the result it returns
  passed       \* the addresses that were passed for each contract so far

caches == <<addresses, instances, wrappers>>
cacheVars == <<registered, caches, pc, asked, got, passed>>

Kinds == {"full", "mini"}
Asks == [kind : Kinds, name : Contracts, address : Addresses \cup {Undefined}]
NoCall == [kind |-> "none", name |-> Undefined, address |-> Undefined]

Goto(c, label) == pc' = [pc EXCEPT ![c] = label]
Found(c, address) == got' = [got EXCEPT ![c] = address]
Return(c, wrapper) == Found(c, wrapper) /\ Goto(c, "done")

Known(ask) == wrappers[ask.kind][ask.name] # Undefined /\ ask.address = Undefined
KnownInstance(ask) ==
  ask.kind = "full" /\ instances[ask.name] # Undefined /\ ask.address = Undefined

\* addressFor, up to its await.
LookUp(c, name) ==
  IF addresses[name] # Undefined THEN Found(c, addresses[name]) /\ Goto(c, "addressed")
  ELSE Goto(c, "fetching") /\ UNCHANGED got

\* The contract is instantiated, and kept in place of an earlier one.
Hold(c, ask, address) ==
  IF ask.kind = "full"
  THEN /\ instances' = [instances EXCEPT ![ask.name] = address]
       /\ UNCHANGED wrappers
       /\ Found(c, address) /\ Goto(c, "wrapping")
  ELSE /\ wrappers' = [wrappers EXCEPT !["mini"][ask.name] = address]
       /\ UNCHANGED <<instances, got>> /\ Goto(c, "rereading")

\* getContract, up to its first await.
GetContract(c, ask) ==
  /\ pc[c] = "idle"
  /\ asked' = [asked EXCEPT ![c] = ask]
  /\ passed' = [passed EXCEPT ![ask.name] = @ \cup ({ask.address} \ {Undefined})]
  /\ \/ /\ Known(ask)
        /\ Return(c, wrappers[ask.kind][ask.name])
        /\ UNCHANGED <<instances, wrappers>>
     \/ /\ ~Known(ask) /\ KnownInstance(ask)
        /\ Found(c, instances[ask.name]) /\ Goto(c, "wrapping")
        /\ UNCHANGED <<instances, wrappers>>
     \/ /\ ask.address # Undefined
        /\ Hold(c, ask, ask.address)
     \/ /\ ~Known(ask) /\ ~KnownInstance(ask) /\ ask.address = Undefined
        /\ LookUp(c, ask.name)
        /\ UNCHANGED <<instances, wrappers>>
  /\ UNCHANGED <<registered, addresses>>

\* MUTANT of Fetch: the answer is kept before it is looked at.
FetchAlways(c) ==
  LET name == asked[c].name IN
  /\ pc[c] = "fetching"
  /\ addresses' = [addresses EXCEPT
                     ![name] = IF name \in registered THEN Core(name) ELSE "null"]
  /\ \/ name \in registered /\ Found(c, Core(name)) /\ Goto(c, "addressed")
     \/ name \notin registered /\ Goto(c, "failed") /\ UNCHANGED got
  /\ UNCHANGED <<registered, instances, wrappers, asked, passed>>

\* The Registry answers; UnregisteredError is thrown and nothing is cached.
Fetch(c) ==
  LET name == asked[c].name IN
  /\ pc[c] = "fetching"
  /\ \/ /\ name \in registered
        /\ addresses' = [addresses EXCEPT ![name] = Core(name)]
        /\ Found(c, Core(name)) /\ Goto(c, "addressed")
     \/ /\ name \notin registered /\ Goto(c, "failed")
        /\ UNCHANGED <<addresses, got>>
  /\ UNCHANGED <<registered, instances, wrappers, asked, passed>>

\* Web3ContractCache.getContract or setContract goes on with the address.
Instantiate(c) ==
  /\ pc[c] = "addressed"
  /\ Hold(c, asked[c], got[c])
  /\ UNCHANGED <<registered, addresses, asked, passed>>

\* MUTANT of Wrap: the instance is read from the cache again.
WrapInstance(c) ==
  LET name == asked[c].name IN
  /\ pc[c] = "wrapping"
  /\ wrappers' = [wrappers EXCEPT !["full"][name] = instances[name]]
  /\ Return(c, instances[name])
  /\ UNCHANGED <<registered, addresses, instances, asked, passed>>

\* WrapperCache wraps the instance it was given, not the one that is cached by
\* now; the wrapper is cached and returned without an await in between.
Wrap(c) ==
  /\ pc[c] = "wrapping"
  /\ wrappers' = [wrappers EXCEPT !["full"][asked[c].name] = got[c]]
  /\ Return(c, got[c])
  /\ UNCHANGED <<registered, addresses, instances, asked, passed>>

\* MiniContractCache: returns what its cache holds after the await.
Reread(c) ==
  /\ pc[c] = "rereading"
  /\ Return(c, wrappers["mini"][asked[c].name])
  /\ UNCHANGED <<registered, caches, asked, passed>>

Again(c) ==
  /\ pc[c] \in {"done", "failed"} /\ Goto(c, "idle") /\ Found(c, Undefined)
  /\ UNCHANGED <<registered, caches, asked, passed>>

\* invalidateContract; AddressRegistry keeps its address.
Invalidate(kind, name) ==
  /\ wrappers' = [wrappers EXCEPT ![kind][name] = Undefined]
  /\ instances' = IF kind = "full" THEN [instances EXCEPT ![name] = Undefined] ELSE instances
  /\ UNCHANGED <<registered, addresses, pc, asked, got, passed>>

Register(name) ==
  /\ name \notin registered /\ registered' = registered \cup {name}
  /\ UNCHANGED <<caches, pc, asked, got, passed>>

CacheInit ==
  /\ registered \in SUBSET Contracts
  /\ addresses = [name \in Contracts |-> Undefined]
  /\ instances = [name \in Contracts |-> Undefined]
  /\ wrappers = [kind \in Kinds |-> [name \in Contracts |-> Undefined]]
  /\ pc = [c \in Callers |-> "idle"]
  /\ asked = [c \in Callers |-> NoCall]
  /\ got = [c \in Callers |-> Undefined]
  /\ passed = [name \in Contracts |-> {}]

Step(c) == Fetch(c) \/ Instantiate(c) \/ Wrap(c) \/ Reread(c) \/ Again(c)

CacheNext ==
  \/ \E c \in Callers : Step(c) \/ \E ask \in Asks : GetContract(c, ask)
  \/ \E kind \in Kinds, name \in Contracts : Invalidate(kind, name)
  \/ \E name \in Contracts : Register(name)

CacheSpec == CacheInit /\ [][CacheNext]_cacheVars

-----------------------------------------------------------------------------
(* Properties.                                                             *)

\* Types; the registry's cache holds only what the Registry knows, and the other
\* caches addresses that the Registry or a caller gave for that contract.
CacheTypeOK ==
  /\ registered \subseteq Contracts
  /\ \A name \in Contracts :
       /\ addresses[name] # Undefined => name \in registered /\ addresses[name] = Core(name)
       /\ {instances[name], wrappers["full"][name], wrappers["mini"][name]}
             \subseteq passed[name] \cup {Core(name), Undefined}
  /\ \A c \in Callers : asked[c] \in Asks \cup {NoCall}

\* A call of the full kit with an address returns a wrapper for that address,
\* whatever other calls for the same contract, or invalidateContract, do before
\* it is resumed.
FullReturnsAsked ==
  \A c \in Callers :
    pc[c] = "done" /\ asked[c].kind = "full" /\ asked[c].address # Undefined =>
      got[c] = asked[c].address

\* A call that names a contract returns a wrapper for its address in the Registry
\* or for one that was passed for this contract before; only the mini cache, if
\* it is invalidated during the call, may return undefined.
ReturnsRegistered ==
  \A c \in Callers : pc[c] = "done" =>
    got[c] \in passed[asked[c].name] \cup {Core(asked[c].name)}
               \cup {x \in {Undefined} : asked[c].kind = "mini"}
=============================================================================
