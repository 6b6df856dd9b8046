-------------------------------- MODULE Wire --------------------------------
(***************************************************************************)
(* How a message crosses a connection: sendRequest and readMsg of          *)
(* connections.c, the two ends of one AF_UNIX stream.                      *)
(*                                                                         *)
(* A message is three parts sent one after the other: the header (op,      *)
(* sender), the header of the data (receiver, len) and the len bytes of    *)
(* the body.  write() and read() may move less than they are asked to, and *)
(* each part has a loop for that.  The loops of the two headers advance a  *)
(* pointer to the structure by the number of bytes moved, which is that    *)
(* many structures; the loops of the body advance a pointer to char.       *)
(*                                                                         *)
(* A cell stands for some consecutive bytes: one field of a header, or a   *)
(* piece of the body.  One writer and one reader: FdWriteLock is about     *)
(* several writers, Delivery about who reads what.                         *)
(***************************************************************************)
EXTENDS Integers, Sequences, SequencesExt

CONSTANTS
    Lengths,                \* the lengths of body a caller may ask for
    max_allocable_buffer,   \* the longest body either end accepts
    Capacity,               \* cells the connection holds
    MaxMessages             \* bound: calls of sendRequest

ASSUME LengthsAssumption  == Lengths \subseteq Nat /\ 0 \in Lengths
ASSUME BufferAssumption   == max_allocable_buffer \in Nat
ASSUME CapacityAssumption == Capacity \in Nat \ {0}
ASSUME BoundAssumption    == MaxMessages \in Nat

Structures == {"header", "data_header"}
Fields == [part \in Structures |-> IF part = "header" THEN <<"op", "sender">>
                                                      ELSE <<"receiver", "len">>]

Cell(m, field, at) == [msg |-> m, field |-> field, at |-> at]
Unset   == Cell(0, "zero", 0)      \* memset by readMsg, and not read since
Garbage == Cell(0, "garbage", 0)   \* whatever memory follows a structure

VARIABLES
    lens,       \* the length of the body of each message handed to sendRequest
    sending,    \* the part being sent, or "idle", or "closed"
    from,       \* the next cell of the part the writer's pointer is at
    remaining,  \* cells the writer thinks it has still to write
    wire,       \* the cells on their way
    reading,    \* the part being read, or "closed"
    to,         \* the cell of the part the reader's pointer is at
    hdr_size,   \* cells the reader thinks it has still to read
    msg,        \* the message readMsg is filling in
    received,   \* the messages it returned
    torn,       \* history: the parts <<message, part>> written in several pieces
    overrun     \* history: the reader's pointer left the structure

senderVars == <<lens, sending, from, remaining, torn>>
readerVars == <<reading, to, hdr_size, msg, received, overrun>>
wireVars == <<senderVars, wire, readerVars>>

-----------------------------------------------------------------------------

Blank == [op |-> Unset, sender |-> Unset, receiver |-> Unset, len |-> Unset, buf |-> <<>>]

WireInit ==
    /\ lens = <<>> /\ sending = "idle" /\ from = 0 /\ remaining = 0 /\ torn = {}
    /\ wire = <<>>
    /\ reading = "header" /\ to = 0 /\ hdr_size = 2
    /\ msg = Blank /\ received = <<>> /\ overrun = FALSE

\* Mutant of Stride: the loops of the body without curr_pos += ...
StrideForgotten(part) == IF part \in Structures THEN Len(Fields[part]) ELSE 0

\* What one unit of the pointer is worth in cells: temp is a pointer to the
\* structure, curr_pos to char.
Stride(part) == IF part \in Structures THEN Len(Fields[part]) ELSE 1

\* The cell of the m-th message at offset i of one of its parts.
Memory(m, part, i) ==
    IF part = "body" THEN Cell(m, "buf", i)
    ELSE IF i < Len(Fields[part]) THEN Cell(m, Fields[part][i + 1], 0)
    ELSE Garbage

-----------------------------------------------------------------------------
(* The sender.                                                             *)

Request(len) ==
    /\ sending = "idle" /\ Len(lens) < MaxMessages
    /\ lens' = Append(lens, len)
    /\ sending' = "header" /\ from' = 0 /\ remaining' = Len(Fields["header"])
    /\ UNCHANGED <<torn, wire, readerVars>>

\* Mutant of NextToSend: a body is sent without looking at its length.
NextToSendUnchecked(part) ==
    LET len == Last(lens)
    IN  CASE part = "header" -> <<"data_header", Len(Fields["data_header"])>>
          [] part = "data_header" /\ len # 0 -> <<"body", len>>
          [] OTHER -> <<"idle", 0>>

\* Where the sender goes once a part is written.  A body of no bytes is a
\* success, one that is too long an error, and the headers are gone by then.
NextToSend(part) ==
    LET len == Last(lens)
    IN  CASE part = "header" -> <<"data_header", Len(Fields["data_header"])>>
          [] part = "data_header" /\ len \in 1 .. max_allocable_buffer -> <<"body", len>>
          [] OTHER -> <<"idle", 0>>

\* One write() moved k of the cells it was asked for.
Write(k) ==
    /\ sending \in Structures \cup {"body"} /\ reading # "closed"
    /\ k <= remaining /\ Len(wire) + k <= Capacity
    /\ wire' = wire \o [i \in 1 .. k |-> Memory(Len(lens), sending, from + i - 1)]
    /\ IF k < remaining
       THEN /\ remaining' = remaining - k
            /\ from' = from + k * Stride(sending)
            /\ torn' = torn \cup {<<Len(lens), sending>>}
            /\ UNCHANGED sending
       ELSE /\ sending' = NextToSend(sending)[1]
            /\ remaining' = NextToSend(sending)[2]
            /\ from' = 0
            /\ UNCHANGED torn
    /\ UNCHANGED <<lens, readerVars>>

\* write() fails because the other end is closed.
WriteFails ==
    /\ sending \in Structures \cup {"body"} /\ reading = "closed"
    /\ sending' = "closed"
    /\ UNCHANGED <<lens, from, remaining, torn, wire, readerVars>>

\* The sender hangs up or dies, between two writes or between two messages.
HangUp ==
    /\ sending # "closed"
    /\ sending' = "closed"
    /\ UNCHANGED <<lens, from, remaining, torn, wire, readerVars>>

Sender == (\E len \in Lengths : Request(len)) \/ (\E k \in 1 .. Capacity : Write(k))
              \/ WriteFails \/ HangUp

-----------------------------------------------------------------------------
(* The reader.                                                             *)

\* The message with cells stored from offset i of a part on.  What falls
\* outside a structure lands in memory the message does not use, or spoils.
Stored(into, part, i, cells) ==
    LET body      == [j \in DOMAIN into.buf |->
                         IF j - i \in DOMAIN cells THEN cells[j - i] ELSE into.buf[j]]
        ReadAs(f) == {j \in DOMAIN cells : i + j \in DOMAIN Fields[part] /\ Fields[part][i + j] = f}
    IN  IF part = "body" THEN [into EXCEPT !.buf = body]
        ELSE [f \in DOMAIN into |-> IF ReadAs(f) = {} THEN into[f]
                                    ELSE cells[CHOOSE j \in ReadAs(f) : TRUE]]

\* The lengths data->hdr.len may hold: what was sent, 0 if it was not read,
\* anything if something else was read in its place.
LenRead(filled) ==
    CASE filled.len = Unset         -> {0}
      [] filled.len.field = "len"   -> {lens[filled.len.msg]}
      [] OTHER                      -> Lengths

\* readMsg returns the message, and its caller calls it again.
Returns(filled) ==
    /\ received' = Append(received, filled)
    /\ msg' = Blank
    /\ reading' = "header" /\ hdr_size' = Len(Fields["header"])

\* readMsg returns an error, and its caller closes the connection.
Fails(filled) ==
    /\ msg' = filled
    /\ reading' = "closed" /\ hdr_size' = 0
    /\ UNCHANGED received

Expects(part, size, filled) ==
    /\ msg' = filled
    /\ reading' = part /\ hdr_size' = size
    /\ UNCHANGED received

EndOfPart(filled) ==
    CASE reading = "header" -> Expects("data_header", Len(Fields["data_header"]), filled)
      [] reading = "body"   -> Returns(filled)
      [] OTHER -> \E len \in LenRead(filled) :
                    IF len = 0 THEN Returns(filled)
                    ELSE IF len > max_allocable_buffer THEN Fails(filled)
                    ELSE Expects("body", len, [filled EXCEPT !.buf = [i \in 1 .. len |-> Unset]])

\* One read() moved k cells.
Read(k) ==
    /\ reading # "closed"
    /\ k <= hdr_size /\ k <= Len(wire)
    /\ wire' = SubSeq(wire, k + 1, Len(wire))
    /\ overrun' = (overrun \/ (reading \in Structures /\ to + k > Len(Fields[reading])))
    /\ LET filled == Stored(msg, reading, to, SubSeq(wire, 1, k))
       IN  IF k < hdr_size
           THEN /\ Expects(reading, hdr_size - k, filled)
                /\ to' = to + k * Stride(reading)
           ELSE /\ EndOfPart(filled)
                /\ to' = 0
    /\ UNCHANGED senderVars

\* read() returns 0 at the end of the stream, in the middle of a message or not.
EndOfStream ==
    /\ reading # "closed" /\ wire = <<>> /\ sending = "closed"
    /\ Fails(msg)
    /\ UNCHANGED <<to, overrun, wire, senderVars>>

\* The reader hangs up or dies, with a message half read or not.
GiveUp ==
    /\ reading # "closed" /\ sending # "closed"
    /\ Fails(msg)
    /\ UNCHANGED <<to, overrun, wire, senderVars>>

Reader == (\E k \in 1 .. Capacity : Read(k)) \/ EndOfStream \/ GiveUp

WireNext == Sender \/ Reader

WireSpec == WireInit /\ [][WireNext]_wireVars

-----------------------------------------------------------------------------

Cells == {Cell(m, f, 0) : m \in 1 .. Len(lens), f \in {"op", "sender", "receiver", "len"}}
         \cup {Cell(m, "buf", i) : m \in 1 .. Len(lens), i \in 0 .. max_allocable_buffer - 1}
         \cup {Unset, Garbage}

\* No body longer than max_allocable_buffer is ever being written, expected or
\* held, whatever the other end announced.
WireTypeOK ==
    /\ lens \in Seq(Lengths) /\ Len(lens) <= MaxMessages
    /\ sending \in Structures \cup {"body", "idle", "closed"}
    /\ from \in Nat
    /\ sending \in Structures => remaining \in 0 .. 2
    /\ sending = "body" => remaining \in 0 .. max_allocable_buffer
    /\ wire \in Seq(Cells) /\ Len(wire) <= Capacity
    /\ reading \in Structures \cup {"body", "closed"}
    /\ to \in Nat
    /\ hdr_size \in 0 .. (IF reading = "body" THEN max_allocable_buffer ELSE 2)
    /\ msg.buf \in Seq(Cells) /\ Len(msg.buf) <= max_allocable_buffer
    /\ \A f \in {"op", "sender", "receiver", "len"} : msg[f] \in Cells
    /\ torn \subseteq (1 .. Len(lens)) \X (Structures \cup {"body"})
    /\ overrun \in BOOLEAN

\* The data header of one of the first i messages was written in pieces, so its
\* length was not sent and the reader may have lost its place.
PlaceLost(i) == \E m \in 1 .. i : <<m, "data_header">> \in torn

\* Message i arrived as it was sent, but for the sender's name if its header
\* was written in pieces.
Arrived(i) ==
    LET got == received[i]
    IN  /\ i <= Len(lens)
        /\ got.op = Cell(i, "op", 0)
        /\ got.sender = IF <<i, "header">> \in torn THEN Garbage ELSE Cell(i, "sender", 0)
        /\ got.receiver = Cell(i, "receiver", 0)
        /\ got.len = Cell(i, "len", 0)
        /\ got.buf = [j \in 1 .. lens[i] |-> Cell(i, "buf", j - 1)]

\* connections.c, readMsg: unless read() itself returns a part of a header, the
\* messages returned are the messages sent, whole and in their order, however
\* the bodies were cut, wherever the sender stopped and whatever was too long
\* to be sent.  A header the sender writes in pieces costs its own second
\* field only; when that field is the length, what follows is lost with it.
ReadAsSent ==
    ~overrun => \A i \in DOMAIN received : ~PlaceLost(i) => Arrived(i)
=============================================================================
