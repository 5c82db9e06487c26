----------------------------- MODULE WireFormat -----------------------------
(***************************************************************************)
(* The encoding of packets: MarshalPacket and UnmarshalPacket (packet.go)  *)
(* with the frames of frame.go.  A packet is encoded, the datagram arrives *)
(* whole or cut short, and is decoded frame by frame.                      *)
(*                                                                         *)
(* Every frame has the same shape: its type, numbers of fixed width, for   *)
(* some types a list whose length is the third of the numbers, and for one *)
(* type a token.  MTU_PROBE alone takes what is left of the datagram.      *)
(***************************************************************************)
EXTENDS Integers, Sequences, SequencesExt

CONSTANTS
    ByteValues,             \* 256
    U16, U32, U64,          \* widths in bytes: 2, 4, 8
    MaxCIDLength,
    TokenLength,            \* StatelessResetTokenLength
    SentTypes,              \* bound: types of frames put into packets
    ListLengths,            \* bound: lengths of their lists
    MaxFrames               \* bound: frames in a packet

Ack == 2
Stream == 3
MTUProbe == 8
ConnectionClose == 11
NewConnectionID == 16

\* The widths of a frame's numbers; 12 is not a type.
Layout(type) ==
    CASE type \in {0, 1} -> <<>>
      [] type = Ack -> <<U32, U16, 1, U32>>
      [] type = Stream -> <<1, U64, U16>>
      [] type \in {4, 6, 7} -> <<U32>>
      [] type \in {5, 9, 10, 14, 17} -> <<U64>>
      [] type = ConnectionClose -> <<U32, U32, U16>>
      [] type = 13 -> <<U32, U32>>
      [] type = 15 -> <<U32, U64>>
      [] type = NewConnectionID -> <<U64, U64, 1>>

Types == 0..17 \ {12}

\* The types with a list, counted by their third number, and its elements.
Listing == {Ack, Stream, ConnectionClose, NewConnectionID}
Element(type) == IF type = Ack THEN <<1, U32>> ELSE <<1>>
Trailer(type) == IF type = NewConnectionID THEN TokenLength ELSE 0

Total(widths) == FoldLeft(LAMBDA a, b : a + b, 0, widths)

-----------------------------------------------------------------------------
(***************************************************************************)
(* Encoding.                                                               *)
(***************************************************************************)

\* PutUint16, PutUint32, PutUint64 and byte(n): big-endian, and modulo the width.
Put(n, width) == [i \in 1..width |-> (n \div ByteValues ^ (width - i)) % ByteValues]

Encode(numbers, widths) == FlattenSeq([i \in DOMAIN widths |-> Put(numbers[i], widths[i])])

\* The numbers of frame f with the length of its list in its place.
Numbers(f) == IF f.type \in Listing THEN [f.numbers EXCEPT ![3] = Len(f.list)] ELSE f.numbers

\* Len, and Marshal.
FrameLen(f) ==
    IF f.type = MTUProbe THEN f.numbers[1]
    ELSE 1 + Total(Layout(f.type)) + Len(f.list) * Total(Element(f.type)) + Trailer(f.type)

Marshal(f) ==
    IF f.type = MTUProbe THEN <<MTUProbe>> \o [i \in 1..f.numbers[1] - 1 |-> 0]
    ELSE <<f.type>> \o Encode(Numbers(f), Layout(f.type))
            \o FlattenSeq([i \in DOMAIN f.list |-> Encode(f.list[i], Element(f.type))]) \o f.token

MarshalHeader(h) ==
    Put(h.version, U32) \o <<Len(h.dcid)>> \o h.dcid \o <<Len(h.scid)>> \o h.scid
        \o Encode(h.ids, <<U32, U32, U32>>)

\* The buffer is made from the frames' Len, then filled.
MarshalPacket(p) ==
    LET content == MarshalHeader(p.header) \o FlattenSeq([i \in DOMAIN p.frames |-> Marshal(p.frames[i])])
        size == Len(MarshalHeader(p.header)) + Total([i \in DOMAIN p.frames |-> FrameLen(p.frames[i])])
    IN [i \in 1..size |-> IF i <= Len(content) THEN content[i] ELSE 0]

-----------------------------------------------------------------------------
(***************************************************************************)
(* Decoding, from offset at (counted from 0).                              *)
(***************************************************************************)
Get(b, at, width) == FoldLeft(LAMBDA v, d : v * ByteValues + d, 0, SubSeq(b, at + 1, at + width))

Decode(b, at, widths) ==
    [i \in DOMAIN widths |-> Get(b, at + Total(SubSeq(widths, 1, i - 1)), widths[i])]

\* The first number of a STREAM frame is two flags, and other bits are ignored.
Flags(type, numbers) == IF type = Stream THEN [numbers EXCEPT ![1] = @ % 4] ELSE numbers

\* Mutant: the token is not counted.
Taken_NoToken(type, count) == 1 + Total(Layout(type)) + count * Total(Element(type))

\* The bytes a frame takes, its list included.
Taken(type, count) == 1 + Total(Layout(type)) + count * Total(Element(type)) + Trailer(type)

\* UnmarshalFrame: a set of the frame and the bytes it takes, empty on error.
UnmarshalFrame(b, at) ==
    LET type == b[at + 1]
        fixed == Total(Layout(type))
        numbers == Decode(b, at + 1, Layout(type))
        count == IF type \in Listing THEN numbers[3] ELSE 0
        list == at + 1 + fixed
        width == Total(Element(type))
    IN IF type = MTUProbe
       THEN {[frame |-> [type |-> type, numbers |-> <<Len(b) - at>>, list |-> <<>>, token |-> <<>>],
              size |-> Len(b) - at]}
       ELSE IF type \notin Types \/ at + 1 + fixed > Len(b) THEN {}
       ELSE IF \/ list + count * width + Trailer(type) > Len(b)
               \/ type = NewConnectionID /\ count > MaxCIDLength THEN {}
       ELSE {[frame |->
                [type |-> type, numbers |-> Flags(type, numbers),
                 list |-> [i \in 1..count |-> Decode(b, list + (i - 1) * width, Element(type))],
                 token |-> SubSeq(b, list + count * width + 1, list + count * width + Trailer(type))],
              size |-> Taken(type, count)]}

minHeaderLen == 4 * U32 + 2

\* UnmarshalPacket up to the frames: a set as above.
UnmarshalHeader(b) ==
    LET dlen == b[U32 + 1]
        slen == b[U32 + dlen + 2]
        ids == U32 + dlen + slen + 2
    IN IF \/ Len(b) < minHeaderLen
          \/ dlen > MaxCIDLength \/ U32 + 1 + dlen >= Len(b)
          \/ slen > MaxCIDLength \/ ids + 3 * U32 > Len(b) THEN {}
       ELSE {[header |-> [version |-> Get(b, 0, U32), dcid |-> SubSeq(b, U32 + 2, U32 + dlen + 1),
                          scid |-> SubSeq(b, U32 + dlen + 3, ids), ids |-> Decode(b, ids, <<U32, U32, U32>>)],
              size |-> ids + 3 * U32]}

-----------------------------------------------------------------------------
(***************************************************************************)
(* The packets tried: numbers all zero or all different.  An MTU_PROBE is   *)
(* the last frame of its packet (probeMTU).                                *)
(***************************************************************************)
Sample(widths, k) == [i \in DOMAIN widths |-> (k * (5 * i + ByteValues + 3)) % ByteValues ^ widths[i]]

Lengths(type) ==
    {n \in ListLengths : type = NewConnectionID => n <= MaxCIDLength}

FramesOf(type) ==
    IF type = MTUProbe
    THEN {[type |-> type, numbers |-> <<n>>, list |-> <<>>, token |-> <<>>] : n \in {1, 3}}
    ELSE {[type |-> type, numbers |-> Sample(Layout(type), k),
           list |-> [i \in 1..n |-> Sample(Element(type), k + i)],
           token |-> [i \in 1..Trailer(type) |-> i]]
             : k \in {0, 1}, n \in IF type \in Listing THEN Lengths(type) ELSE {0}}

\* Their numbers are what decoding calls them.
Made ==
    {[f EXCEPT !.numbers = Flags(f.type, Numbers(f))] : f \in UNION {FramesOf(type) : type \in SentTypes}}

Headers ==
    {[version |-> 3, dcid |-> Sample(<<1, 1>>, k), scid |-> Sample(<<1>>, k + 1),
      ids |-> Sample(<<U32, U32, U32>>, k)] : k \in {0, 1}}

Packets ==
    {p \in [header : Headers, frames : UNION {[1..n -> Made] : n \in 1..MaxFrames}] :
        \A i \in 1..Len(p.frames) - 1 : p.frames[i].type # MTUProbe}

VARIABLES
    sent,       \* the packet
    wire,       \* the datagram that arrived
    offset,         \* the offset reached
    header,     \* what was decoded: a set of at most one header
    frames,     \* and the frames
    decoding    \* "send", "header", "frames", "done", "error"

wireVars == <<sent, wire, offset, header, frames, decoding>>

WireInit ==
    /\ sent = [header |-> CHOOSE h \in Headers : TRUE, frames |-> <<>>]
    /\ wire = <<>> /\ offset = 0 /\ header = {} /\ frames = <<>> /\ decoding = "send"

\* A packet is sent and arrives.  readLoop's buffer has MaxDatagramSize + 128
\* bytes: a longer datagram is cut.
Arrives ==
    /\ decoding = "send"
    /\ \E p \in Packets :
         LET datagram == MarshalPacket(p)
         IN /\ sent' = p
            /\ \E n \in 1..Len(datagram) : wire' = SubSeq(datagram, 1, n)
    /\ decoding' = "header"
    /\ UNCHANGED <<offset, header, frames>>

ReadHeader ==
    /\ decoding = "header"
    /\ header' = {r.header : r \in UnmarshalHeader(wire)}
    /\ offset' = Total(SetToSeq({r.size : r \in UnmarshalHeader(wire)}))
    /\ decoding' = IF header' = {} THEN "error" ELSE IF offset' < Len(wire) THEN "frames" ELSE "done"
    /\ UNCHANGED <<sent, wire, frames>>

ReadFrame ==
    /\ decoding = "frames"
    /\ \/ \E r \in UnmarshalFrame(wire, offset) :
            /\ frames' = Append(frames, r.frame)
            /\ offset' = offset + r.size
            /\ decoding' = IF offset' < Len(wire) THEN "frames" ELSE "done"
       \/ /\ UnmarshalFrame(wire, offset) = {}
          /\ decoding' = "error"
          /\ UNCHANGED <<frames, offset>>
    /\ UNCHANGED <<sent, wire, header>>

WireNext == Arrives \/ ReadHeader \/ ReadFrame

-----------------------------------------------------------------------------
\* Typing: what is decoded lies within the datagram, which is part of the
\* packet sent (MarshalPacket's buffer is as long as Len says).
WireTypeOK ==
    /\ decoding \in {"send", "header", "frames", "done", "error"}
    /\ wire \in Seq(0..ByteValues - 1)
    /\ offset \in 0..Len(wire)
    /\ decoding = "done" => offset = Len(wire)

\* What UnmarshalPacket has decoded is what MarshalPacket encoded, in the same
\* order, however short the datagram is cut: a cut loses frames from the end,
\* or the whole packet, and never makes a frame out of part of another.  The
\* size of an MTU_PROBE is what was left of it.
DecodesPrefix ==
    /\ header \subseteq {sent.header}
    /\ Len(frames) <= Len(sent.frames)
    /\ \A i \in DOMAIN frames :
         \/ frames[i] = sent.frames[i]
         \/ frames[i].type = MTUProbe /\ sent.frames[i].type = MTUProbe

\* And a datagram that arrives whole is decoded to the whole packet: Len,
\* Marshal and the unmarshal functions agree on every type of frame.
DecodesWhatWasSent ==
    /\ DecodesPrefix
    /\ decoding \in {"done", "error"} /\ wire = MarshalPacket(sent) =>
        decoding = "done" /\ header = {sent.header} /\ frames = sent.frames

=============================================================================
