-------------------------------- MODULE Wire --------------------------------
(***************************************************************************)
(* The byte format and a connection that carries it: Writer and Reader of  *)
(* include/srnp/wire.h, header and frame of src/wire.cpp, the messages of  *)
(* src/codec.cpp, FrameChannel::read of src/session.cpp and the read loops *)
(* of ServerSession, MasterHubSession and MasterLink.                      *)
(*                                                                         *)
(* A byte is a number below Base, 256 in the code; the widths are the      *)
(* code's.  A message is its type and the sequence of its fields in the    *)
(* order in which the code writes them.  What encode writes and what       *)
(* decode reads are stated separately, as the code does.                   *)
(***************************************************************************)
EXTENDS Integers, Sequences, SequencesExt

CONSTANTS
  Base,                 \* the values of a byte
  kMagic, kVersion,     \* of the header
  kMaxPayload,
  SizeofComponentInfo,  \* sizeof(ComponentInfo)
  Messages,             \* the messages that are sent
  MaxFrames             \* bound on the frames sent

ASSUME WireAssumption ==
  /\ Base \in Nat /\ Base > 8
  /\ kMagic \in 0..Base^4 - 1 /\ kVersion \in 1..Base - 1
  /\ kMaxPayload \in 1..Base^4 - 1
  /\ SizeofComponentInfo \in Nat \ {0} /\ MaxFrames \in Nat

VARIABLES
  role,       \* who reads: a component's server, the master, or the link to it
  version,    \* the sender's protocol version
  sent,       \* the messages whose frames the sender has written
  stream,     \* the bytes that have not been read
  lost,       \* whether the connection has broken
  phase,      \* what the reader waits for; "closed" once it has given up
  header,     \* the header read last
  delivered   \* the messages handed to the handlers

vars == <<role, version, sent, stream, lost, phase, header, delivered>>

Byte == 0..Base - 1

kHeaderSize == 16

\* enum class MessageType; Invalid is 0.
Subscription     == 1
Pair             == 2
PairUpdate       == 3
IndicatePresence == 4
MasterMessage    == 5
UpdateComponents == 6
RemovePair       == 7
PairRemoved      == 8

-----------------------------------------------------------------------------
(* Writer                                                                  *)

Width == [u8 |-> 1, u16 |-> 2, u32 |-> 4, i32 |-> 4, i64 |-> 8, bool |-> 1,
          type |-> 1, operation |-> 1]

\* Writer::integer: n bytes, the lowest first, negative numbers wrapped around.
Integer(v, n) == [i \in 1..n |-> ((v % Base^n) \div Base^(i - 1)) % Base]

\* ComponentInfo has the same fields wherever it appears.
ComponentInfo == <<"i32", "string", "string">>

Written(kind, v) ==
  CASE kind = "string" -> Integer(Len(v), 4) \o v
    [] kind = "bool"   -> Integer(IF v THEN 1 ELSE 0, 1)
    [] OTHER           -> Integer(v, Width[kind])

WriteFields(layout, fields) ==
  FlattenSeq([i \in DOMAIN layout |-> Written(layout[i], fields[i])])

\* The layouts that the encode functions write; a MasterMessage is its owner and
\* a list.
EncodeLayout ==
  <<<<"string", "i32", "i32", "bool">>,
    <<"i32", "string", "string", "u8", "i64", "i64">>,
    <<"i32", "string", "string", "u8", "i64", "i64">>,
    <<"string", "bool", "i32">>,
    <<"i32">>,
    <<"u8">> \o ComponentInfo,
    <<"i32", "string">>,
    <<"i32", "string">>>>

WriteList(components) ==
  Integer(Len(components), 4) \o
  FlattenSeq([i \in DOMAIN components |-> WriteFields(ComponentInfo, components[i])])

Encode(m) ==
  WriteFields(EncodeLayout[m.type], m.fields) \o
  IF m.type = MasterMessage THEN WriteList(m.components) ELSE <<>>

HeaderLayout == <<"u32", "u8", "u8", "u16", "u32", "i32">>

EncodeHeader(v, type, length) ==
  WriteFields(HeaderLayout, <<kMagic, v, type, 0, length, -1>>)

-----------------------------------------------------------------------------
(* Reader                                                                  *)

\* A reader is its offset and what it has read.  The operators below give the
\* set with the reader as they leave it, the empty set if they throw.
Start == [at |-> 0, vals |-> <<>>]

Number(bytes, from, n) ==
  LET upper[i \in 0..n] ==
        IF i = 0 THEN 0 ELSE bytes[from + n + 1 - i] + Base * upper[i - 1]
  IN  upper[n]

Signed(raw, n) == IF raw < Base^n \div 2 THEN raw ELSE raw - Base^n

\* What the bytes of a number are read as; readEnum takes the known enumerators.
Value(kind, raw) ==
  CASE kind = "bool"           -> raw # 0
    [] kind \in {"i32", "i64"} -> Signed(raw, Width[kind])
    [] OTHER                   -> raw

Known(kind, raw) ==
  CASE kind = "type"      -> raw <= 3
    [] kind = "operation" -> raw <= 1
    [] OTHER              -> TRUE

\* Reader::integer and boolean, readEnum, with require.
ReadNumber(bytes, r, kind) ==
  LET n == Width[kind]
  IN  {[at |-> r.at + n, vals |-> Append(r.vals, Value(kind, raw))] :
         raw \in {x \in {Number(bytes, at, n) : at \in {r.at} \cap 0..Len(bytes) - n} :
                    Known(kind, x)}}

\* Reader::string
ReadString(bytes, r) ==
  {[at   |-> sized.at + Last(sized.vals),
    vals |-> Append(r.vals, SubSeq(bytes, sized.at + 1, sized.at + Last(sized.vals)))] :
     sized \in {s \in ReadNumber(bytes, r, "u32") : s.at + Last(s.vals) <= Len(bytes)}}

Read(bytes, r, kind) ==
  IF kind = "string" THEN ReadString(bytes, r) ELSE ReadNumber(bytes, r, kind)

ReadFields(bytes, r, layout) ==
  LET after[i \in 0..Len(layout)] ==
        IF i = 0 THEN {r} ELSE UNION {Read(bytes, s, layout[i]) : s \in after[i - 1]}
  IN  after[Len(layout)]

\* The layouts that the decode functions read.
DecodeLayout ==
  <<<<"string", "i32", "i32", "bool">>,
    <<"i32", "string", "string", "type", "i64", "i64">>,
    <<"i32", "string", "string", "type", "i64", "i64">>,
    <<"string", "bool", "i32">>,
    <<"i32">>,
    <<"operation">> \o ComponentInfo,
    <<"i32", "string">>,
    <<"i32", "string">>>>

\* The list of a MasterMessage: a count, which must be plausible, and as many
\* components.
ReadList(bytes, r) ==
  LET one(s) == {[at |-> c.at, vals |-> Append(s.vals, c.vals)] :
                   c \in ReadFields(bytes, [s EXCEPT !.vals = <<>>], ComponentInfo)}
      all(start, count) ==
        LET after[i \in 0..count] ==
              IF i = 0 THEN {start} ELSE UNION {one(s) : s \in after[i - 1]}
        IN  after[count]
      counted == {c \in ReadNumber(bytes, [r EXCEPT !.vals = <<>>], "u32") :
                    c.vals[1] <= kMaxPayload \div SizeofComponentInfo}
  IN  UNION {all([c EXCEPT !.vals = <<>>], c.vals[1]) : c \in counted}

\* decodePayload: the fields, the list if there is one, and nothing after them.
DecodePayload(type, bytes) ==
  LET fields == ReadFields(bytes, Start, DecodeLayout[type])
      list(r) == IF type = MasterMessage THEN ReadList(bytes, r)
                 ELSE {[r EXCEPT !.vals = <<>>]}
  IN  UNION {{[type |-> type, fields |-> r.vals, components |-> l.vals] :
                l \in {x \in list(r) : x.at = Len(bytes)}} : r \in fields}

\* Mutant: the limit itself is refused.
DecodeHeaderStrictly(bytes) ==
  {[type |-> r.vals[3], length |-> r.vals[5]] :
     r \in {h \in ReadFields(bytes, Start, HeaderLayout) :
              /\ h.vals[1] = kMagic /\ h.vals[2] = kVersion
              /\ h.vals[3] \in 1..PairRemoved /\ h.vals[5] < kMaxPayload}}

\* Mutant: any version is taken.
DecodeHeaderAnyVersion(bytes) ==
  {[type |-> r.vals[3], length |-> r.vals[5]] :
     r \in {h \in ReadFields(bytes, Start, HeaderLayout) :
              /\ h.vals[1] = kMagic
              /\ h.vals[3] \in 1..PairRemoved /\ h.vals[5] <= kMaxPayload}}

DecodeHeader(bytes) ==
  {[type |-> r.vals[3], length |-> r.vals[5]] :
     r \in {h \in ReadFields(bytes, Start, HeaderLayout) :
              /\ h.vals[1] = kMagic /\ h.vals[2] = kVersion
              /\ h.vals[3] \in 1..PairRemoved /\ h.vals[5] <= kMaxPayload}}

NoHeader == [type |-> 0, length |-> 0]

-----------------------------------------------------------------------------
(* A connection                                                            *)

\* The types that the reader takes as its n-th message: a server those of
\* ServerSession::handle; the master one presence; the link the master's reply,
\* then updates.
Expected(who, n) ==
  CASE who = "server" -> {Pair, PairUpdate, Subscription, RemovePair, PairRemoved}
    [] who = "hub"    -> IF n = 1 THEN {IndicatePresence} ELSE {}
    [] who = "link"   -> IF n = 1 THEN {MasterMessage} ELSE {UpdateComponents}

Init ==
  /\ role \in {"server", "hub", "link"}
  /\ version \in {kVersion - 1, kVersion}
  /\ sent = <<>> /\ stream = <<>> /\ lost = FALSE
  /\ phase = "header" /\ header = NoHeader /\ delivered = <<>>

\* wire::frame: header and payload in one buffer.
Frame(v, m) == LET payload == Encode(m)
               IN  EncodeHeader(v, m.type, Len(payload)) \o payload

Frames == [v \in {kVersion - 1, kVersion}, m \in Messages |-> Frame(v, m)]

\* The messages that frame does not throw for.
Sendable == {m \in Messages : Len(Encode(m)) <= kMaxPayload}

\* frameOf and the write; one that is over the limit throws.
Send(m) ==
  /\ ~lost /\ Len(sent) < MaxFrames
  /\ sent' = Append(sent, m)
  /\ stream' = stream \o Frames[version, m]
  /\ UNCHANGED <<role, version, lost, phase, header, delivered>>

\* The connection breaks: the first n bytes still arrive.
Lose(n) ==
  /\ ~lost
  /\ lost' = TRUE
  /\ stream' = SubSeq(stream, 1, n)
  /\ UNCHANGED <<role, version, sent, phase, header, delivered>>

\* FrameChannel::read, the header.
ReadHeader ==
  LET decoded == DecodeHeader(SubSeq(stream, 1, kHeaderSize))
  IN  /\ phase = "header" /\ Len(stream) >= kHeaderSize
      /\ \/ \E h \in decoded : header' = h /\ phase' = "payload"
         \/ decoded = {} /\ phase' = "closed" /\ UNCHANGED header
      /\ stream' = SubSeq(stream, kHeaderSize + 1, Len(stream))
      /\ UNCHANGED <<role, version, sent, lost, delivered>>

\* Mutant: the type is not looked at.
HandledAny(payload) == DecodePayload(header.type, payload)

\* The message that the handler takes from a payload, none if the type is
\* unexpected or the payload does not decode.
Handled(payload) ==
  IF header.type \in Expected(role, Len(delivered) + 1)
  THEN DecodePayload(header.type, payload)
  ELSE {}

\* FrameChannel::read, the payload, and the handler; without a message, the
\* connection ends.
ReadPayload ==
  LET handled == Handled(SubSeq(stream, 1, header.length))
  IN  /\ phase = "payload" /\ Len(stream) >= header.length
      /\ \/ \E m \in handled : delivered' = Append(delivered, m) /\ phase' = "header"
         \/ handled = {} /\ phase' = "closed" /\ UNCHANGED delivered
      /\ stream' = SubSeq(stream, header.length + 1, Len(stream))
      /\ UNCHANGED <<role, version, sent, lost, header>>

\* A read of a broken connection throws.
EndOfStream ==
  /\ lost
  /\ \/ phase = "header" /\ Len(stream) < kHeaderSize
     \/ phase = "payload" /\ Len(stream) < header.length
  /\ phase' = "closed"
  /\ UNCHANGED <<role, version, sent, stream, lost, header, delivered>>

Reading == ReadHeader \/ ReadPayload \/ EndOfStream

Next ==
  \/ \E m \in Sendable : Send(m)
  \/ \E n \in 0..Len(stream) : Lose(n)
  \/ Reading

Spec == Init /\ [][Next]_vars

\* The reader's coroutine is resumed.
FairSpec == Spec /\ WF_vars(Reading)

-----------------------------------------------------------------------------
(* Properties                                                              *)

TypeOK ==
  /\ role \in {"server", "hub", "link"} /\ version \in Byte
  /\ sent \in Seq(Messages) /\ delivered \in Seq(Messages)
  /\ stream \in Seq(Byte) /\ lost \in BOOLEAN
  /\ phase \in {"header", "payload", "closed"}
  /\ header \in [type : 0..PairRemoved, length : 0..kMaxPayload]

\* The handlers get the messages that were sent, each with its fields, in order
\* and from the first on, whatever part of the stream arrives; and they get
\* nothing from a peer of another version.
ReadsWhatWasSent ==
  /\ IsPrefix(delivered, sent)
  /\ version # kVersion => delivered = <<>>

\* A count of components that decode takes for plausible.
Plausible(m) == Len(m.components) * SizeofComponentInfo <= kMaxPayload

\* The first n messages are for this reader and readable.
Readable(n) ==
  /\ version = kVersion
  /\ \A i \in 1..n : sent[i].type \in Expected(role, i) /\ Plausible(sent[i])

\* Whatever fits into a frame is read, at the very limit, too, as long as the
\* connection holds.
AllRead ==
  \A n \in 1..MaxFrames :
    (Len(sent) >= n /\ Readable(n)) ~> (Len(delivered) >= n \/ lost)

\* A message the reader does not take ends the connection: nothing after it is
\* read out of step.
BadFrameEnds ==
  \A n \in 1..MaxFrames :
    (Len(sent) >= n /\ ~Readable(n)) ~> (phase = "closed" /\ Len(delivered) < n)
=============================================================================
