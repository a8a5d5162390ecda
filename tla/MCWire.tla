------------------------------- MODULE MCWire -------------------------------
(***************************************************************************)
(* Wire for TLC: three senders in two processes, two workers, and four      *)
(* messages of other libraries.                                             *)
(***************************************************************************)
EXTENDS Wire

MCCodecOf == [g \in Senders |-> IF g = "g3" THEN "c2" ELSE "c1"]

\* The newer schema has a field without a default, so that it cannot read what
\* was written with the older one.
MCReadable == {<<"old", "old">>, <<"new", "new">>, <<"old", "new">>}

\* One that names nothing, one ordered by bytes whose type is a number, one with
\* every header in the other encoding, and one on a route whose position cannot
\* be read.
MCForeign ==
    {"x-tenant" :> Text("t1"), "x-tenant" :> <<"bytes", "t1">> @@ "type" :> Number(5),
     "id" :> <<"bytes", "m">> @@ "attempt" :> Text(1) @@ "first-seen" :> Text(2)
        @@ "x-acemq-newer" :> Number(7) @@ "claim" :> Text("s3") @@ "causation" :> <<"null", "">>,
     "id" :> Text("m") @@ "type" :> Text("t") @@ "version" :> Number(2) @@ "route" :> Text("a,b")
        @@ "route-position" :> <<"other", 1>> @@ "traceparent" :> Text("00")}

MCTenants == {Text("t1")}
MCKeys == {Sprint(Text("t1")), Sprint(<<"bytes", "t1">>)}

\* Every pattern of up to three words, and keys of none, two and three.
MCBindings == UNION {[1..n -> {"orders", "placed", "*", "#"}] : n \in 0..3}
MCWords == "" :> <<>> @@ "orders.placed" :> <<"orders", "placed">>
           @@ "orders.eu.placed" :> <<"orders", "eu", "placed">>
Usual == <<"orders", "#">>

\* A foreign message has the consumer to itself.  Otherwise the consumer has two
\* of the three messages, and works while nobody is registering; what fails for
\* it, and what it sends on, concerns one message.  Bindings other than the
\* usual one see one message published.
MCInit ==
    /\ Init /\ own = "old" /\ schema["c1"] = "old"
    /\ queue # {} => registered = [c \in Codecs |-> FALSE]
    /\ queue = {} => registered["c2"]
    /\ registered["c1"] \/ queue # {} => store = "sql"
    /\ registered["c1"] \/ (\E m \in queue : m.body.contentType = "fixed") => codecs[1] = "fixed"
    /\ ~registered["c2"] => reader = NoSchema
    /\ binding # Usual => queue = {} /\ registered["c1"] /\ schema["c2"] = "old"
                          /\ reader = NoSchema
Bound ==
    LET sent == {g \in Senders : sendPc[g] = "sent"} IN
    /\ (\E m \in queue : m.n = "foreign") \/ "foreign" \in DOMAIN first => sent = {}
    /\ Cardinality(sent) <= 2
    /\ binding # Usual => DOMAIN first = {} /\ (\A g \in Senders \ {"g1"} : sendPc[g] = "idle")
    /\ binding = Usual => unroutable = {} /\ \A m \in queue :
                            m.n \in Senders \ DOMAIN first => m.routingKey = "orders.placed"
    /\ DOMAIN first # {} => \A g \in Senders : sendPc[g] \in {"idle", "framing", "sent", "failed"}
    /\ Cardinality(sent) = 2 =>
        onward = {} /\ (trouble = 0 \/ \E g \in Senders : sendPc[g] = "failed")

MCSpec == MCInit /\ [][Next /\ Bound']_vars
Symmetry == Permutations(Workers)
=============================================================================
