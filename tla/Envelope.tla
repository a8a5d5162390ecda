------------------------------ MODULE Envelope ------------------------------
(***************************************************************************)
(* The envelope (src/amqp/envelope.go) as operators: building one, reading  *)
(* it off a message's headers and writing it back.                          *)
(*                                                                          *)
(* A header's value is a pair of how the peer's client sent it and what it  *)
(* says, since strings arrive as text or bytes and numbers as anything.     *)
(* Times are in half milliseconds, which the wire does not carry.           *)
(***************************************************************************)
EXTENDS Naturals, Sequences, Functions, TLC

Application == {"x-tenant", "traceparent"}      \* the application's names
Unmaterialised == {"x-acemq-newer"}             \* IsAceHeader, not knownHeaders
Optional == {"causation", "origin", "error", "claim"}   \* written unless empty

-----------------------------------------------------------------------------
(* Coercion *)

\* fmt.Sprint: text as it is, a number in digits, and anything else, bytes
\* included, in a form of its own.
Sprint(v) ==
    IF v[1] = "text" THEN v[2] ELSE IF v[1] = "number" THEN ToString(v[2]) ELSE ToString(v)

\* headerString, and headerInt over headerInt64.
headerString(h, k) ==
    LET v == IF k \in DOMAIN h THEN h[k] ELSE <<"null", "">>
    IN  IF v[1] = "null" THEN "" ELSE IF v[1] = "bytes" THEN v[2] ELSE Sprint(v)
headerInt(h, k) ==
    IF k \in DOMAIN h /\ h[k][1] \in {"text", "bytes", "number"} THEN h[k][2] ELSE 0

\* The defaults: the first that is not empty, and one for zero.
FirstOf(s, t) == IF s # "" THEN s ELSE t
AtLeastOne(n) == IF n = 0 THEN 1 ELSE n

-----------------------------------------------------------------------------
(* Reading and writing *)

\* Mutant: a reserved header without a field is dropped.
FromWireKnown(h, routingKey, messageID, newID) ==
    LET id == FirstOf(headerString(h, "id"), FirstOf(messageID, newID)) IN
    [id |-> id, type |-> FirstOf(headerString(h, "type"), routingKey),
     version |-> AtLeastOne(headerInt(h, "version")),
     correlation |-> FirstOf(headerString(h, "correlation"), id),
     attempt |-> AtLeastOne(headerInt(h, "attempt")),
     firstSeen |-> 2 * headerInt(h, "first-seen"),
     text |-> [o \in Optional |-> headerString(h, o)],
     route |-> headerString(h, "route"), position |-> headerInt(h, "route-position"),
     run |-> headerString(h, "route-id"),
     headers |-> Restrict(h, DOMAIN h \cap Application), reserved |-> <<>>]

\* EnvelopeFromWire.
EnvelopeFromWire(h, routingKey, messageID, newID) ==
    LET id == FirstOf(headerString(h, "id"), FirstOf(messageID, newID)) IN
    [id |-> id, type |-> FirstOf(headerString(h, "type"), routingKey),
     version |-> AtLeastOne(headerInt(h, "version")),
     correlation |-> FirstOf(headerString(h, "correlation"), id),
     attempt |-> AtLeastOne(headerInt(h, "attempt")),
     firstSeen |-> 2 * headerInt(h, "first-seen"),
     text |-> [o \in Optional |-> headerString(h, o)],
     route |-> headerString(h, "route"), position |-> headerInt(h, "route-position"),
     run |-> headerString(h, "route-id"),
     headers |-> Restrict(h, DOMAIN h \cap Application),
     reserved |-> Restrict(h, DOMAIN h \cap Unmaterialised)]

Text(s) == <<"text", s>>
Number(n) == <<"number", n>>

\* ToWire: what is empty is absent, and a route goes with its position.
ToWire(e) ==
    LET texts == {o \in Optional : e.text[o] # ""}
        route == "route" :> Text(e.route) @@ "route-position" :> Number(e.position)
        run == "route-id" :> Text(e.run)
    IN  ("id" :> Text(e.id) @@ "type" :> Text(e.type) @@ "version" :> Number(e.version)
         @@ "correlation" :> Text(e.correlation) @@ "attempt" :> Number(e.attempt)
         @@ "first-seen" :> Number(e.firstSeen \div 2)
         @@ [o \in texts |-> Text(e.text[o])]
         @@ (IF e.route = "" THEN <<>> ELSE IF e.run = "" THEN route ELSE route @@ run))
        @@ e.headers @@ e.reserved

NextAttempt(e) == [e EXCEPT !.attempt = @ + 1]

-----------------------------------------------------------------------------
(* Building *)

\* An envelope's fields before any is set.  ReplyTo is not among the headers.
Unset ==
    [id |-> "", type |-> "", version |-> 1, correlation |-> "", attempt |-> 1, firstSeen |-> 0,
     text |-> [o \in Optional |-> ""], route |-> "", position |-> 0, run |-> "",
     headers |-> <<>>, reserved |-> <<>>]

\* NewEnvelope for a message that carries nothing over: the application's
\* headers, a route or none, and the moment of the publish.
NewEnvelope(msgType, id, headers, route, now) ==
    [Unset EXCEPT !.id = id, !.type = FirstOf(msgType, "message"), !.correlation = id,
                  !.firstSeen = now, !.text["origin"] = "acemq@host", !.route = route,
                  !.run = IF route = "" THEN "" ELSE "run", !.headers = headers]

\* NewEnvelope with CarryHeaders(from) and CausationID.
CarriedFrom(from, id, now) ==
    LET e == NewEnvelope(from.type, id, from.headers, "", now) IN
    [e EXCEPT !.reserved = from.reserved, !.text["causation"] = from.id,
              !.firstSeen = IF from.firstSeen >= 2 THEN from.firstSeen ELSE now]

-----------------------------------------------------------------------------
(* What readings are compared by *)

\* Two readings of one message agree on everything but what a retry, a dead
\* letter or a park changes, to the millisecond.  A message nobody named is
\* given an id by each reading, until one of them is written back.
SameMessage(e, f, named) ==
    LET body(x) == [x EXCEPT !.attempt = 0, !.text["error"] = "", !.firstSeen = @ \div 2,
                             !.id = IF named THEN @ ELSE "",
                             !.correlation = IF named THEN @ ELSE ""]
    IN  body(e) = body(f) /\ e.attempt >= f.attempt

\* CarryHeaders keeps the age, of a message that has one.
Carries(e, from) == from.firstSeen >= 2 => e.firstSeen \div 2 = from.firstSeen \div 2

=============================================================================
