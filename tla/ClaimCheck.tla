----------------------------- MODULE ClaimCheck -----------------------------
(***************************************************************************)
(* The claim-check codec: a payload at or over the threshold goes to a     *)
(* store and the message carries its key.  A body is Inline or a key.  The *)
(* codec never deletes; keeping a payload for as long as a message that    *)
(* refers to it may be delivered is up to whoever owns the store.          *)
(***************************************************************************)
EXTENDS FlowQueues

CONSTANTS Inline,       \* the body that carries its payload
          MaxKeys       \* bound on payloads put in the store

ASSUME ClaimAssumption == MaxKeys \in Nat /\ Inline \notin 1..MaxKeys

VARIABLES
    inMemory,   \* the store is the one in memory, not the one of files
    contents,   \* keys whose payload the store holds
    minted      \* keys handed out: each Put has its own

claims == <<contents, minted>>
claimVars == <<inMemory, contents, minted>>

ClaimInit ==
    /\ inMemory \in BOOLEAN /\ contents = {} /\ minted = 0

\* The in-memory Put and Get, under the store's mutex.
Hold(key) == contents' = contents \union {key}
Held(key) == key \in contents

\* Put: the payload is whole in the store before its key is known to anyone,
\* under the mutex in memory, by the rename of the staged file in a directory.
Put(key) ==
    /\ minted < MaxKeys
    /\ key = minted + 1 /\ minted' = key
    /\ Hold(key)

\* Encode: a small payload travels in the message.
Encode(body) ==
    \/ body = Inline /\ UNCHANGED claims
    \/ Put(body)

\* decode: not claim-checked, or redeemable.  Not in the store is fatal; a
\* store that cannot be asked is for another attempt.
Redeemable(body) == body = Inline \/ Held(body)

\* Delete, which is the owner's to call.
Delete(key) ==
    /\ key \in contents
    /\ contents' = contents \ {key}
    /\ UNCHANGED <<inMemory, minted>>

\* The process dies, and with it a store in memory.
StoreDies ==
    /\ contents' = IF inMemory THEN {} ELSE contents
    /\ UNCHANGED <<inMemory, minted>>
=============================================================================
