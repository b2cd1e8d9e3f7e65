---------------------------- MODULE UnitBuilder ----------------------------
(***************************************************************************)
(* From bytes to units: unit_builder_manager with raw_builder,             *)
(* dstream_builder or msg_builder (integer_builder and string_builder      *)
(* inside), driven by connection::on_raw_receive.                          *)
(*                                                                         *)
(* A peer has sent a sequence of messages, encoded with create(); the      *)
(* network delivers their bytes in chunks of any size.  A byte is a number *)
(* below 2 * Base: integer_builder uses the upper half as its continuation *)
(* flag (Base is 2^7 in the code).                                         *)
(***************************************************************************)
EXTENDS Integers, Sequences, SequencesExt

CONSTANTS
    Protocols,      \* those of "raw", "dstream" and "msg" that are considered
    PayloadBytes,   \* the bytes messages are made of
    MaxLength,      \* bound: bytes in a message
    MaxMessages,    \* bound: messages sent
    Delimiter,      \* _delimeter of dstream_builder
    Base,           \* radix of the size header
    MaxValue,       \* largest number of integer_type
    MsgMaxSize      \* _msg_max_size of the receiver

ASSUME ProtocolAssumption ==
    /\ Protocols \subseteq {"raw", "dstream", "msg"}
    /\ Base \in Nat /\ Base > 1
    /\ PayloadBytes \subseteq 0 .. 2 * Base - 1
    /\ Delimiter \in Seq(0 .. 2 * Base - 1) /\ Delimiter # <<>>
    /\ MsgMaxSize \in Nat /\ MaxValue \in Nat /\ MaxLength <= MaxValue

VARIABLES
    protocol,   \* the protocol both ends are configured with
    sent,       \* the messages the peer has sent
    wire,       \* their bytes that have not arrived
    buffer,     \* _buffer of the manager
    builder,    \* the builder's stage
    replies,    \* _available_replies
    delivered,  \* what the receive observers have got
    pc          \* on_raw_receive: "read" (waiting for data), "build",
                \* "deliver", or "closed" (disconnected)

vars == <<protocol, sent, wire, buffer, builder, replies, delivered, pc>>

Messages == UNION {[1 .. n -> PayloadBytes] : n \in 0 .. MaxLength}

NoSize == -1            \* the size header has not been read
NullUnit == <<-1>>      \* unit::set(): a unit without data

(***************************************************************************)
(* integer_builder                                                         *)
(***************************************************************************)

\* The least significant digit first, all but the last flagged.
pack[v \in 0 .. MaxValue] ==
    IF v < Base THEN <<v>> ELSE <<(v % Base) + Base>> \o pack[v \div Base]

\* The number up to the first unflagged byte, and the bytes it took.
unpack(data) ==
    LET ends == {k \in 1 .. Len(data) : data[k] < Base}
        val[k \in 0 .. Len(data)] ==
            IF k = 0 THEN 0
            ELSE (val[k - 1] + (data[k] % Base) * Base ^ (k - 1)) % (MaxValue + 1)
    IN  IF ends = {} THEN [value |-> NoSize, got |-> 0]
        ELSE LET k == CHOOSE i \in ends : \A j \in ends : i <= j
             IN  [value |-> val[k], got |-> k]

(***************************************************************************)
(* create()                                                                *)
(***************************************************************************)
create(msg) == CASE protocol = "raw"     -> msg
                 [] protocol = "dstream" -> msg \o Delimiter
                 [] protocol = "msg"     -> pack[Len(msg)] \o msg

\* The start of the first occurrence of Delimiter in data, 0 if there is none.
find(data) ==
    LET at == {k \in 1 .. Len(data) - Len(Delimiter) + 1 :
                  SubSeq(data, k, k + Len(Delimiter) - 1) = Delimiter}
    IN  IF at = {} THEN 0 ELSE CHOOSE i \in at : \A j \in at : i <= j

\* What an application may send with dstream_builder: a text in which, once
\* it is terminated, the delimiter does not occur early.  (One that ends with
\* a part of the delimiter is cut short, also if it does not contain it.)
Sendable(msg) == protocol = "dstream" => find(create(msg)) = Len(msg) + 1

(***************************************************************************)
(* The builders' operator<<: the stage, the rest of the data, the unit and *)
(* whether it is ready, or the failure of an assertion.                    *)
(***************************************************************************)
FreshBuilder == [size |-> NoSize, body |-> <<>>]

Rest(data, n) == SubSeq(data, n + 1, Len(data))
Least(m, n) == IF m <= n THEN m ELSE n

raw_builder(data) ==
    [builder |-> FreshBuilder, rest |-> <<>>, ready |-> TRUE, unit |-> data,
     failed |-> FALSE]

dstream_builder(data) ==
    LET end == find(data) IN
    [builder |-> FreshBuilder,
     rest    |-> IF end = 0 THEN data ELSE Rest(data, end - 1 + Len(Delimiter)),
     ready   |-> end # 0,
     unit    |-> SubSeq(data, 1, end - 1),
     failed  |-> FALSE]

\* A string_builder that takes what there is, not what is missing.
string_builder_greedy(b, size, data) ==
    [body |-> b.body \o data, rest |-> <<>>,
     ready |-> Len(b.body) + Len(data) >= size]

\* string_builder: at most the bytes that are missing.
string_builder(b, size, data) ==
    LET add == Least(Len(data), size - Len(b.body)) IN
    [body |-> b.body \o SubSeq(data, 1, add), rest |-> Rest(data, add),
     ready |-> Len(b.body) + add = size]

\* msg_builder: the size header once, then the string of that size.
msg_builder(b, data) ==
    LET header == IF b.size = NoSize THEN unpack(data)
                  ELSE [value |-> b.size, got |-> 0]
        size   == header.value
        str    == string_builder(b, size, Rest(data, header.got))
    IN  IF size = NoSize
        THEN [builder |-> b, rest |-> data, ready |-> FALSE, unit |-> NullUnit,
              failed |-> FALSE]
        ELSE [builder |-> [size |-> size, body |-> str.body],
              rest    |-> str.rest,
              ready   |-> str.ready,
              unit    |-> IF str.body = <<>> THEN NullUnit ELSE str.body,
              failed  |-> size > MsgMaxSize]

feed(b, data) == CASE protocol = "raw"     -> raw_builder(data)
                   [] protocol = "dstream" -> dstream_builder(data)
                   [] protocol = "msg"     -> msg_builder(b, data)

(***************************************************************************)
(* Plausible faults of the operations below, one small change each.  No    *)
(* specification uses them; each shows that some property notices it.      *)
(***************************************************************************)

\* build_unit() called once per chunk.
BuildUnitOnce ==
    /\ pc = "build" /\ buffer # <<>>
    /\ LET r == feed(builder, buffer) IN
          /\ ~r.failed
          /\ buffer' = r.rest
          /\ builder' = IF r.ready THEN FreshBuilder ELSE r.builder
          /\ replies' = IF r.ready THEN Append(replies, r.unit) ELSE replies
    /\ pc' = "deliver"
    /\ UNCHANGED <<protocol, sent, wire, delivered>>

(***************************************************************************)
(* connection::on_raw_receive                                              *)
(***************************************************************************)
Init == /\ protocol \in Protocols
        /\ sent \in UNION {[1 .. n -> {m \in Messages : Sendable(m)}] : n \in 0 .. MaxMessages}
        /\ wire = FlattenSeq([i \in DOMAIN sent |-> create(sent[i])])
        /\ buffer = <<>> /\ builder = FreshBuilder
        /\ replies = <<>> /\ delivered = <<>>
        /\ pc = "read"

\* A chunk of any size arrives: _buffer += data
Receive ==
    /\ pc = "read"
    /\ \E n \in 1 .. Len(wire) : /\ buffer' = buffer \o SubSeq(wire, 1, n)
                                 /\ wire' = Rest(wire, n)
    /\ pc' = "build"
    /\ UNCHANGED <<protocol, sent, builder, replies, delivered>>

\* while (build_unit()): a unit is complete
BuildUnit ==
    /\ pc = "build" /\ buffer # <<>>
    /\ LET r == feed(builder, buffer) IN
          /\ ~r.failed /\ r.ready
          /\ buffer' = r.rest
          /\ replies' = Append(replies, r.unit)
    /\ builder' = FreshBuilder
    /\ UNCHANGED <<protocol, sent, wire, delivered, pc>>

\* build_unit() returns false: no data, or not enough for a unit.
BuildStops ==
    /\ pc = "build"
    /\ IF buffer = <<>> THEN UNCHANGED <<buffer, builder>>
       ELSE LET r == feed(builder, buffer) IN
               /\ ~r.failed /\ ~r.ready
               /\ buffer' = r.rest /\ builder' = r.builder
    /\ pc' = "deliver"
    /\ UNCHANGED <<protocol, sent, wire, replies, delivered>>

\* SRV_ASSERT(sz <= _msg_max_size) throws: disconnect.  Units of the same
\* chunk that were complete stay undelivered.
Reject ==
    /\ pc = "build" /\ buffer # <<>>
    /\ feed(builder, buffer).failed
    /\ pc' = "closed"
    /\ UNCHANGED <<protocol, sent, wire, buffer, builder, replies, delivered>>

Deliver ==
    /\ pc = "deliver" /\ replies # <<>>
    /\ delivered' = Append(delivered, Head(replies))
    /\ replies' = Tail(replies)
    /\ UNCHANGED <<protocol, sent, wire, buffer, builder, pc>>

\* An observer disconnects: the loop ends by is_connected().
Disconnect ==
    /\ pc = "deliver" /\ delivered # <<>>
    /\ pc' = "closed"
    /\ UNCHANGED <<protocol, sent, wire, buffer, builder, replies, delivered>>

\* async_read()
ReadOn ==
    /\ pc = "deliver" /\ replies = <<>>
    /\ pc' = "read"
    /\ UNCHANGED <<protocol, sent, wire, buffer, builder, replies, delivered>>

Next == \/ Receive \/ BuildUnit \/ BuildStops \/ Reject \/ Deliver \/ Disconnect
        \/ ReadOn

Spec == Init /\ [][Next]_vars

(***************************************************************************)
(* Properties                                                              *)
(***************************************************************************)

\* Types; the bytes in flight are at most what was sent.
TypeOK == /\ wire \in Seq(0 .. 2 * Base - 1) /\ buffer \in Seq(0 .. 2 * Base - 1)
          /\ builder.size \in -1 .. MsgMaxSize
          /\ Len(builder.body) <= MsgMaxSize
          /\ pc \in {"read", "build", "deliver", "closed"}

\* The unit a message becomes: an empty msg_builder message has no data.
UnitOf(msg) == IF protocol = "msg" /\ msg = <<>> THEN NullUnit ELSE msg

Expected == [i \in DOMAIN sent |-> UnitOf(sent[i])]

Built == delivered \o replies

\* Whatever the chunks, the units are the messages sent, in order: for the raw
\* protocol, which has no boundaries, their bytes.  A message larger than the
\* receiver's limit is never delivered, nor is anything sent after it.
UnitsAreMessages ==
    /\ IF protocol = "raw" THEN IsPrefix(FlattenSeq(Built), FlattenSeq(sent))
                           ELSE IsPrefix(Built, Expected)
    /\ protocol = "msg" =>
          \A i \in DOMAIN sent : Len(sent[i]) > MsgMaxSize => Len(Built) < i

\* No message is stuck: when all bytes have arrived and the connection waits
\* for more, every message has been delivered, none is left in a buffer.
NothingStuck ==
    pc = "read" /\ wire = <<>>
       => /\ buffer = <<>> /\ builder = FreshBuilder
          /\ IF protocol = "raw" THEN FlattenSeq(delivered) = FlattenSeq(sent)
                                 ELSE delivered = Expected
=============================================================================
