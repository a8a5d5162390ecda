---------------------------- MODULE AvroRegistry ----------------------------
(***************************************************************************)
(* A schema registry (src/patterns/schema.go, src/patterns/sqlstores.go)    *)
(* and the Avro codecs that frame messages with its identifiers             *)
(* (src/codec/avro/avro.go), of one subject.                                *)
(*                                                                          *)
(* Each sender is a goroutine that encodes a message with the codec of its  *)
(* process.  Encode holds the codec's lock while it registers; the registry *)
(* is a table shared by processes, or the in-memory one within a process.   *)
(***************************************************************************)
EXTENDS Naturals, Sequences, FiniteSets

CONSTANTS Senders,      \* goroutines that encode, one message each
          Codecs,       \* the codecs they encode with
          CodecOf,      \* by sender
          Definitions,  \* schemas, which are as different as their bytes
          Readable      \* <<reader, writer>>: Avro can resolve one onto the other

\* Every sender has a codec.
ASSUME AvroAssumption == CodecOf \in [Senders -> Codecs]

NoSchema == "none"

VARIABLES
    store,      \* "memory" or "sql"
    schema,     \* by codec: Codec.schema
    registered, \* by codec: Codec.registered
    schemaID,   \* by codec: Codec.schemaID, 0 for none
    mu,         \* by codec: the sender holding its lock, or {}
    rows,       \* the registry: definition and version, by id
    sendPc,     \* by sender: where it is in Encode
    count,      \* by sender: the version count it read
    overlapped  \* two definitions were between count and insert at once

registryVars == <<store, schema, registered, schemaID, mu, rows, sendPc, count, overlapped>>
codecVars == <<store, schema, registered>>

\* Fixed codecs and ones made by Registered, which look nothing up yet.
CodecInit ==
    /\ schema \in [Codecs -> Definitions] /\ registered \in [Codecs -> BOOLEAN]
    /\ schemaID = [c \in Codecs |-> 0] /\ mu = [c \in Codecs |-> {}]

RegistryInit ==
    /\ CodecInit
    /\ store \in {"memory", "sql"}
    /\ rows = <<>>
    /\ sendPc = [g \in Senders |-> "idle"] /\ count = [g \in Senders |-> 0]
    /\ overlapped = FALSE

-----------------------------------------------------------------------------
(* The registry *)

\* byFingerprint: the id of a definition, 0 for ErrSchemaNotFound.
byFingerprint(d) ==
    IF \E i \in DOMAIN rows : rows[i].definition = d
    THEN CHOOSE i \in DOMAIN rows : rows[i].definition = d ELSE 0

\* A row with the next id, unless UNIQUE (subject, fingerprint) is there already.
Inserted(d, version) ==
    IF byFingerprint(d) # 0 THEN rows
    ELSE Append(rows, [definition |-> d, version |-> version])

DefinitionOf(g) == schema[CodecOf[g]]

At(g, from, to) == sendPc[g] = from /\ sendPc' = [sendPc EXCEPT ![g] = to]

\* The end of currentID: remembered under the lock, which is released.
Remember(g, id) ==
    /\ schemaID' = [schemaID EXCEPT ![CodecOf[g]] = id]
    /\ mu' = [mu EXCEPT ![CodecOf[g]] = {}]

\* InMemorySchemaRegistry.Register, under its one lock.
MemRegister(g) ==
    /\ store = "memory" /\ At(g, "register", "framing")
    /\ LET known == byFingerprint(DefinitionOf(g)) IN
        /\ rows' = Inserted(DefinitionOf(g), Len(rows) + 1)
        /\ Remember(g, IF known # 0 THEN known ELSE Len(rows) + 1)
    /\ UNCHANGED <<codecVars, count, overlapped>>

\* SQLSchemaRegistry.Register: is it there already?
SQLLook(g) ==
    LET known == byFingerprint(DefinitionOf(g)) IN
    /\ store = "sql" /\ UNCHANGED <<codecVars, rows, count, overlapped>>
    /\ \/ known # 0 /\ At(g, "register", "framing") /\ Remember(g, known)
       \/ known = 0 /\ At(g, "register", "count") /\ UNCHANGED <<schemaID, mu>>

\* How many versions are there?
SQLCount(g) ==
    /\ At(g, "count", "insert") /\ count' = [count EXCEPT ![g] = Len(rows)]
    /\ overlapped' = (overlapped \/ \E f \in Senders :
                        sendPc[f] = "insert" /\ DefinitionOf(f) # DefinitionOf(g))
    /\ UNCHANGED <<codecVars, schemaID, mu, rows>>

SQLInsert(g) ==
    /\ At(g, "insert", "readback")
    /\ rows' = Inserted(DefinitionOf(g), count[g] + 1)
    /\ count' = [count EXCEPT ![g] = 0]
    /\ UNCHANGED <<codecVars, schemaID, mu, overlapped>>

\* Mutant: trusts the id of the last insert.
SQLLastInsertId(g) ==
    /\ At(g, "readback", "framing") /\ Remember(g, Len(rows))
    /\ UNCHANGED <<codecVars, rows, count, overlapped>>

\* Read back, since the insert may have been ignored.
SQLReadBack(g) ==
    /\ At(g, "readback", "framing") /\ Remember(g, byFingerprint(DefinitionOf(g)))
    /\ UNCHANGED <<codecVars, rows, count, overlapped>>

\* The database fails a statement, an insert perhaps after it took effect:
\* Encode fails, and the next one asks again.
RegisterFails(g) ==
    /\ store = "sql" /\ sendPc[g] \in {"register", "count", "insert", "readback"}
    /\ sendPc' = [sendPc EXCEPT ![g] = "failed"] /\ count' = [count EXCEPT ![g] = 0]
    /\ mu' = [mu EXCEPT ![CodecOf[g]] = {}]
    /\ \/ UNCHANGED rows
       \/ sendPc[g] = "insert" /\ rows' = Inserted(DefinitionOf(g), count[g] + 1)
    /\ UNCHANGED <<codecVars, schemaID, overlapped>>

-----------------------------------------------------------------------------
(* Encode *)

\* Encode: a codec built with Of frames nothing; otherwise currentID looks under
\* the read lock.
EncodeBegin(g) ==
    LET c == CodecOf[g] IN
    /\ sendPc[g] = "idle"
    /\ registered[c] => mu[c] = {}
    /\ sendPc' = [sendPc EXCEPT ![g] =
                    IF registered[c] /\ schemaID[c] = 0 THEN "lock" ELSE "framing"]
    /\ UNCHANGED <<codecVars, schemaID, mu, rows, count, overlapped>>

\* currentID under the lock: somebody else may have registered meanwhile.
CurrentID(g) ==
    LET c == CodecOf[g] IN
    /\ mu[c] = {} /\ UNCHANGED <<codecVars, schemaID, rows, count, overlapped>>
    /\ \/ schemaID[c] # 0 /\ At(g, "lock", "framing") /\ UNCHANGED mu
       \/ schemaID[c] = 0 /\ At(g, "lock", "register") /\ mu' = [mu EXCEPT ![c] = {g}]

\* What Encode returns: the content type, the id in the frame (0 for no frame)
\* and, for the properties, the schema the body was written with.
Framed(g) ==
    LET c == CodecOf[g] IN
    [contentType |-> IF registered[c] THEN "registered" ELSE "fixed",
     id |-> IF registered[c] THEN schemaID[c] ELSE 0, wrote |-> schema[c]]

Encode(g) ==
    EncodeBegin(g) \/ CurrentID(g) \/ MemRegister(g) \/ SQLLook(g) \/ SQLCount(g)
    \/ SQLInsert(g) \/ SQLReadBack(g)

=============================================================================
