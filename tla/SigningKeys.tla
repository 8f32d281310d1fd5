----------------------------- MODULE SigningKeys -----------------------------
(***************************************************************************)
(* The signing key of one tenant: what Redis has, what each pod has in     *)
(* memory, and the calls that load or mint it.  Redis does not lose the    *)
(* value; where it does, the key rotates without a grace period, as the    *)
(* comment of ForSchema says.                                              *)
(***************************************************************************)
EXTENDS Naturals, FiniteSets

CONSTANTS
    KeyPod,
    KeyPair,     \* the keys that may be minted
    Unminted     \* no key

ASSUME SigningKeysAssumption == Unminted \notin KeyPair

VARIABLES
    storedKey,   \* Redis
    keyMemory,   \* per pod: Keys.mem
    keyCall,     \* per pod: where loadOrCreate is, and the key it has minted
    minted,      \* the keys that were minted
    usedKeys     \* history: the keys that calls returned, to sign or to publish

keyVars == <<storedKey, keyMemory, keyCall, minted, usedKeys>>

NoKeyCall == [at |-> "idle", key |-> Unminted]

KeysInit ==
    /\ storedKey = Unminted
    /\ keyMemory = [p \in KeyPod |-> Unminted]
    /\ keyCall = [p \in KeyPod |-> NoKeyCall]
    /\ minted = {}
    /\ usedKeys = {}

-----------------------------------------------------------------------------
KeyCallAt(p, at, k) == keyCall' = [keyCall EXCEPT ![p] = [at |-> at, key |-> k]]
KeyCallEnds(p) == keyCall' = [keyCall EXCEPT ![p] = NoKeyCall]

\* ForSchema answers with k and remembers it.
ReturnKey(p, k) ==
    /\ keyMemory' = [keyMemory EXCEPT ![p] = k]
    /\ usedKeys' = usedKeys \cup {k}
    /\ KeyCallEnds(p)

\* From memory, or from Redis.
ForSchema(p) ==
    /\ keyCall[p].at = "idle"
    /\ \/ /\ keyMemory[p] # Unminted
          /\ ReturnKey(p, keyMemory[p])
       \/ /\ keyMemory[p] = Unminted
          /\ KeyCallAt(p, "get", Unminted)
          /\ UNCHANGED <<keyMemory, usedKeys>>
    /\ UNCHANGED <<storedKey, minted>>

\* GET: the tenant's key; or none, and one is minted.
GetKey(p) ==
    /\ keyCall[p].at = "get"
    /\ \/ /\ storedKey # Unminted
          /\ ReturnKey(p, storedKey)
          /\ UNCHANGED minted
       \/ /\ storedKey = Unminted
          /\ \E k \in KeyPair \ minted :
                /\ minted' = minted \cup {k}
                /\ KeyCallAt(p, "setnx", k)
          /\ UNCHANGED <<keyMemory, usedKeys>>
    /\ UNCHANGED storedKey

\* Mutant: the key is set, whoever was first.
StoreKeyAlways(p) ==
    /\ keyCall[p].at = "setnx"
    /\ storedKey' = keyCall[p].key
    /\ ReturnKey(p, keyCall[p].key)
    /\ UNCHANGED minted

\* SETNX: this key is the tenant's, or another pod was first and is read again.
StoreKey(p) ==
    /\ keyCall[p].at = "setnx"
    /\ IF storedKey = Unminted
       THEN storedKey' = keyCall[p].key /\ ReturnKey(p, keyCall[p].key)
       ELSE KeyCallAt(p, "get", Unminted) /\ UNCHANGED <<storedKey, keyMemory, usedKeys>>
    /\ UNCHANGED minted

\* Redis does not answer; what was asked of it may have been done.
KeyCallFails(p) ==
    /\ keyCall[p].at # "idle"
    /\ \/ keyCall[p].at = "setnx" /\ storedKey = Unminted /\ storedKey' = keyCall[p].key
       \/ UNCHANGED storedKey
    /\ KeyCallEnds(p)
    /\ UNCHANGED <<keyMemory, minted, usedKeys>>

\* remember evicts an entry when it has maxKeyEntries; a restart loses all.
ForgetKey(p) ==
    /\ keyMemory[p] # Unminted
    /\ keyMemory' = [keyMemory EXCEPT ![p] = Unminted]
    /\ UNCHANGED <<storedKey, keyCall, minted, usedKeys>>

KeysNext ==
    \E p \in KeyPod : ForSchema(p) \/ GetKey(p) \/ StoreKey(p) \/ KeyCallFails(p) \/ ForgetKey(p)

KeysSpec == KeysInit /\ [][KeysNext]_keyVars

-----------------------------------------------------------------------------
KeysTypeOK ==
    /\ storedKey \in KeyPair \cup {Unminted}
    /\ keyMemory \in [KeyPod -> KeyPair \cup {Unminted}]
    /\ keyCall \in [KeyPod -> [at : {"idle", "get", "setnx"}, key : KeyPair \cup {Unminted}]]
    /\ minted \subseteq KeyPair /\ usedKeys \subseteq minted

\* "concurrent pods agree on one key": whatever pods mint at once, fail to store
\* or forget, everything a tenant ever signs verifies with the one key that
\* every pod publishes (Keys.ForSchema, loadOrCreate).
PodsAgree == usedKeys \subseteq {storedKey}
=============================================================================
