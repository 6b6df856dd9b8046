-------------------------- MODULE ConnectionProofs --------------------------
(***************************************************************************)
(* What is guaranteed of a connection, for every number of slaves and      *)
(* descriptors, every length of body, size of buffer and capacity: who may *)
(* write on it (FdWriteLock) and how what is written is read (Wire).       *)
(*                                                                         *)
(* The wire.  The two ends never look at each other: the reader counts the *)
(* bytes it expects, the sender the ones it has left.  The inductive       *)
(* invariant (WireInv) gives each cell on its way its place, a message and *)
(* an offset in it: the places follow one another from where the reader    *)
(* is to where the sender is (Tracks), as long as the reader has not lost  *)
(* its own (InPlace).  What was read of the message in hand (Held) and the *)
(* messages returned (Past) are then the ones sent.                        *)
(*                                                                         *)
(* The write lock.  The inductive invariant is that the table says the     *)
(* truth about who is writing where (TableMatches); exclusion between the  *)
(* slaves from 1 on then follows because both passes of the scan read all  *)
(* their entries, and no wakeup is lost because a sleeper's descriptor is  *)
(* in the table as long as it sleeps.                                      *)
(***************************************************************************)
EXTENDS FdWriteLock, Wire, TLAPS

-----------------------------------------------------------------------------
(* What crosses the connection.  The invariants.                           *)

\* The fields of a message that hold one cell.
Names == {"op", "sender", "receiver", "len"}

\* Cells of any message at all, and messages made of them.
AnyCell     == [msg : Nat, field : Names \cup {"buf", "zero", "garbage"}, at : Nat]
AnyMessage == [op : AnyCell, sender : AnyCell, receiver : AnyCell, len : AnyCell, buf : Seq(AnyCell)]

Shapes == msg \in AnyMessage /\ received \in Seq(AnyMessage)

\* WireTypeOK, end by end.
SenderTypes ==
    /\ lens \in Seq(Lengths) /\ Len(lens) <= MaxMessages
    /\ sending \in Structures \cup {"body", "idle", "closed"}
    /\ from \in Nat
    /\ sending \in Structures => remaining \in 0 .. 2
    /\ sending = "body" => remaining \in 0 .. max_allocable_buffer
    /\ torn \subseteq (1 .. Len(lens)) \X (Structures \cup {"body"})
ReaderTypes ==
    /\ reading \in Structures \cup {"body", "closed"}
    /\ to \in Nat
    /\ hdr_size \in 0 .. (IF reading = "body" THEN max_allocable_buffer ELSE 2)
    /\ msg.buf \in Seq(Cells) /\ Len(msg.buf) <= max_allocable_buffer
    /\ \A f \in {"op", "sender", "receiver", "len"} : msg[f] \in Cells
    /\ overrun \in BOOLEAN
WireTypes == wire \in Seq(Cells) /\ Len(wire) <= Capacity

\* The type invariant is that of the two ends and of the cells between them.
LEMMA Types == WireTypeOK <=> SenderTypes /\ ReaderTypes /\ WireTypes
BY DEF WireTypeOK, SenderTypes, ReaderTypes, WireTypes

\* A part that was written in pieces.
Cut(m, part) == <<m, part>> \in torn

\* The place is lost with the length of a message.
LEMMA PlaceLostCut == \A i : PlaceLost(i) <=> \E m \in 1 .. i : Cut(m, "data_header")
BY DEF PlaceLost, Cut

\* One part more is cut; or none.
LEMMA CutMore ==
    ASSUME NEW n, NEW s, torn' = torn \cup {<<n, s>>}
    PROVE  \A m, part : Cut(m, part)' <=> Cut(m, part) \/ (m = n /\ part = s)
BY DEF Cut

LEMMA CutSame == ASSUME UNCHANGED torn PROVE \A m, part : Cut(m, part)' <=> Cut(m, part)
BY DEF Cut

\* Where the loops of the sender are: at the start of a header, or past it.
Sending ==
    /\ sending \in Structures \cup {"body"} => Len(lens) # 0
    /\ sending \in Structures =>
          \/ from = 0 /\ remaining = 2 /\ ~Cut(Len(lens), sending)
          \/ from = 2 /\ remaining = 1 /\ Cut(Len(lens), sending)
    /\ sending = "header" => ~Cut(Len(lens), "data_header")
    /\ sending = "body" => /\ lens[Len(lens)] \in 1 .. max_allocable_buffer
                           /\ remaining \in 1 .. lens[Len(lens)]
                           /\ from = lens[Len(lens)] - remaining

\* Where the loops of the reader are.
Reading ==
    /\ reading \in Structures => (to = 0 /\ hdr_size = 2) \/ (to = 2 /\ hdr_size = 1)
    /\ reading = "body" => hdr_size # 0 /\ to + hdr_size = Len(msg.buf)

\* The message being read, its length in cells, and the cell sent at each offset.
Current == Len(received) + 1
Size(m) == 4 + (IF lens[m] \in 1 .. max_allocable_buffer THEN lens[m] ELSE 0)
Sizes == [m \in 1 .. Len(lens) |-> Size(m)]
Sent(m, o) ==
    CASE o = 0 -> Cell(m, "op", 0)
      [] o = 1 -> IF Cut(m, "header") THEN Garbage ELSE Cell(m, "sender", 0)
      [] o = 2 -> Cell(m, "receiver", 0)
      [] o = 3 -> IF Cut(m, "data_header") THEN Garbage ELSE Cell(m, "len", 0)
      [] OTHER -> Cell(m, "buf", o - 4)

\* How far in its message each end is.
ReadTo == CASE reading = "header" -> 0
            [] reading = "data_header" -> 2
            [] OTHER -> 4 + to
SentMessage == IF sending = "idle" THEN Len(lens) + 1 ELSE Len(lens)
SentTo == CASE sending = "idle" -> 0
            [] sending = "header" -> 2 - remaining
            [] sending = "data_header" -> 4 - remaining
            [] OTHER -> 4 + from

\* The reader has not lost its place, and will not lose it in the part it is at.
InPlace ==
    /\ ~overrun /\ reading # "closed" /\ (reading \in Structures => to = 0)
    /\ ~PlaceLost(Len(received))
    /\ reading = "body" => ~Cut(Current, "data_header")

\* N + 1 places, opaque to the steps that do not look at them.
Places(N) == [1 .. N + 1 -> Nat]

\* Of N + 1 places, each is the one after the last: in the same message as long
\* as it has cells, then at the start of the next.
Follows(pm, po, N, sizes) ==
    /\ \A i, j \in 1 .. N + 1 :
          i <= j => pm[i] <= pm[j] /\ (pm[i] = pm[j] => po[j] = po[i] + (j - i))
    /\ \A i \in 1 .. N : \A j \in i .. N + 1 :
          /\ po[i] + (j - i) < sizes[pm[i]] => pm[j] = pm[i]
          /\ po[i] + (j - i) = sizes[pm[i]] => pm[j] = pm[i] + 1 /\ po[j] = 0

\* What is on its way lies between the places of the two ends: cell i of the
\* wire is at offset po[i] of message pm[i].
Placed(pm, po) ==
    /\ pm[1] = Current /\ po[1] = ReadTo
    /\ sending # "closed" => pm[Len(wire) + 1] = SentMessage /\ po[Len(wire) + 1] = SentTo
    /\ \A i \in 1 .. Len(wire) :
          pm[i] \in 1 .. Len(lens) /\ po[i] < Size(pm[i]) /\ wire[i] = Sent(pm[i], po[i])
    /\ Follows(pm, po, Len(wire), Sizes)

Tracks == InPlace => \E pm, po \in Places(Len(wire)) : Placed(pm, po)

\* What has been read of the current message.
Held ==
    InPlace =>
       /\ reading = "header" => msg = Blank
       /\ reading = "data_header" => msg.buf = <<>>
       /\ \A m : m = Current =>
             /\ reading # "header" => msg.op = Sent(m, 0) /\ msg.sender = Sent(m, 1)
             /\ reading = "body" => /\ m <= Len(lens) /\ Len(msg.buf) = lens[m]
                                    /\ msg.receiver = Sent(m, 2) /\ msg.len = Sent(m, 3)
                                    /\ \A j \in 1 .. to : msg.buf[j] = Cell(m, "buf", j - 1)

\* What was returned, and its header is not written any more.
Past ==
    ~overrun => \A i \in DOMAIN received :
       ~PlaceLost(i) => Arrived(i) /\ (i = Len(lens) => sending # "header")

WireInv == /\ WireTypeOK /\ Shapes /\ Sending /\ Reading
           /\ Tracks /\ Held /\ Past

-----------------------------------------------------------------------------
(* Lemmas about sequences, cells and messages.                             *)

\* Sequences over a larger set.
LEMMA SeqGrows == ASSUME NEW S, NEW T, S \subseteq T PROVE Seq(S) \subseteq Seq(T)
OBVIOUS

\* The message readMsg starts from.
LEMMA Blanks == Unset \in AnyCell /\ Garbage \in AnyCell /\ Blank \in AnyMessage
BY DEF Unset, Garbage, Blank, AnyCell, AnyMessage, Cell, Names

\* The cells of the messages handed to sendRequest.
LEMMA CellsAre ==
    ASSUME lens \in Seq(Lengths)
    PROVE  /\ Cells \subseteq AnyCell
           /\ \A c \in Cells : c # Unset /\ c.field = "len" => c.msg \in 1 .. Len(lens)
           /\ Unset \in Cells /\ Garbage \in Cells
           /\ \A m \in 1 .. Len(lens) : /\ \A f \in Names : Cell(m, f, 0) \in Cells
                                        /\ \A i \in 0 .. max_allocable_buffer - 1 : Cell(m, "buf", i) \in Cells
<1> Len(lens) \in Nat
  OBVIOUS
<1>1. Unset \in Cells /\ Garbage \in Cells
  BY DEF Cells
<1>2. Cells \subseteq AnyCell
  BY Blanks, BufferAssumption DEF Cells, Cell, AnyCell, Names
<1>3. \A c \in Cells : c # Unset /\ c.field = "len" => c.msg \in 1 .. Len(lens)
  BY DEF Cells, Cell, Unset, Garbage
<1>4. \A m \in 1 .. Len(lens) : \A f \in Names : Cell(m, f, 0) \in Cells
  BY DEF Cells, Names
<1>5. \A m \in 1 .. Len(lens) : \A i \in 0 .. max_allocable_buffer - 1 : Cell(m, "buf", i) \in Cells
  BY DEF Cells
<1> QED BY <1>1, <1>2, <1>3, <1>4, <1>5

\* A message more has more cells.
LEMMA CellsGrow ==
    ASSUME lens \in Seq(Lengths), Len(lens)' \in Nat, Len(lens) <= Len(lens)'
    PROVE  Cells \subseteq Cells'
<1> Len(lens) \in Nat
  OBVIOUS
<1> 1 .. Len(lens) \subseteq 1 .. Len(lens)'
  OBVIOUS
<1> QED BY DEF Cells

\* What a read() stores of a structure.
LEMMA StoredStructure ==
    ASSUME NEW into \in AnyMessage, NEW part \in Structures, NEW i \in Nat, NEW S \in SUBSET AnyCell,
           NEW cells \in Seq(S)
    PROVE  /\ Stored(into, part, i, cells) \in AnyMessage
           /\ Stored(into, part, i, cells).buf = into.buf
           /\ \A f \in Names : Stored(into, part, i, cells)[f] \in S \cup {into[f]}
<1> DEFINE ReadAs(f) == {j \in DOMAIN cells : i + j \in DOMAIN Fields[part] /\ Fields[part][i + j] = f}
           s == [f \in DOMAIN into |-> IF ReadAs(f) = {} THEN into[f]
                                       ELSE cells[CHOOSE j \in ReadAs(f) : TRUE]]
<1>1. Stored(into, part, i, cells) = s
  BY DEF Stored, Structures
<1>2. DOMAIN into = Names \cup {"buf"}
  BY DEF AnyMessage, Names
<1>3. ReadAs("buf") = {}
  <2>1. Fields[part] \in {<<"op", "sender">>, <<"receiver", "len">>}
    BY DEF Fields, Structures
  <2>2. \A j \in DOMAIN Fields[part] : Fields[part][j] # "buf"
    BY <2>1
  <2> QED BY <2>2
<1>4. \A f \in Names : s[f] \in S \cup {into[f]}
  <2>1. \A j \in DOMAIN cells : cells[j] \in S
    OBVIOUS
  <2>2. ASSUME NEW f \in Names, ReadAs(f) # {} PROVE (CHOOSE j \in ReadAs(f) : TRUE) \in DOMAIN cells
    BY <2>2
  <2> QED BY <1>2, <2>1, <2>2
<1>5. s.buf = into.buf
  BY <1>2, <1>3
<1> HIDE DEF ReadAs
<1>6. s \in AnyMessage
  <2>1. \A f \in Names : s[f] \in AnyCell
    BY <1>4 DEF AnyMessage, Names
  <2>2. s.buf \in Seq(AnyCell)
    BY <1>5 DEF AnyMessage
  <2>3. DOMAIN s = Names \cup {"buf"}
    BY <1>2
  <2>4. s = [op |-> s.op, sender |-> s.sender, receiver |-> s.receiver, len |-> s.len, buf |-> s.buf]
    BY <2>3 DEF Names
  <2> HIDE DEF s
  <2> QED BY <2>1, <2>2, <2>4 DEF AnyMessage, Names
<1> QED BY <1>1, <1>4, <1>5, <1>6

\* A structure read at once.
LEMMA StoredHeader ==
    ASSUME NEW into \in AnyMessage, NEW cells \in Seq(AnyCell), Len(cells) = 2
    PROVE  LET s == Stored(into, "header", 0, cells)
           IN  /\ s.op = cells[1] /\ s.sender = cells[2]
               /\ s.receiver = into.receiver /\ s.len = into.len
<1> DEFINE ReadAs(f) == {j \in DOMAIN cells : 0 + j \in DOMAIN Fields["header"] /\ Fields["header"][0 + j] = f}
           s == [f \in DOMAIN into |-> IF ReadAs(f) = {} THEN into[f]
                                       ELSE cells[CHOOSE j \in ReadAs(f) : TRUE]]
<1>1. Stored(into, "header", 0, cells) = s
  BY DEF Stored
<1>2. DOMAIN into = Names \cup {"buf"}
  BY DEF AnyMessage, Names
<1>3. /\ DOMAIN Fields["header"] = {1, 2} /\ DOMAIN cells = {1, 2} /\ 0 + 1 = 1 /\ 0 + 2 = 2
      /\ Fields["header"][1] = "op" /\ Fields["header"][2] = "sender"
  <2>1. Fields["header"] = <<"op", "sender">>
    BY DEF Fields, Structures
  <2> QED BY <2>1
<1>4. ReadAs("op") = {1} /\ ReadAs("sender") = {2} /\ ReadAs("receiver") = {} /\ ReadAs("len") = {}
  BY <1>3
<1> HIDE DEF ReadAs
<1>5. (CHOOSE j \in {1} : TRUE) = 1 /\ (CHOOSE j \in {2} : TRUE) = 2
  OBVIOUS
<1> QED BY <1>1, <1>2, <1>4, <1>5 DEF Names

\* ... for the header of the data.
LEMMA StoredDataHeader ==
    ASSUME NEW into \in AnyMessage, NEW cells \in Seq(AnyCell), Len(cells) = 2
    PROVE  LET s == Stored(into, "data_header", 0, cells)
           IN  /\ s.receiver = cells[1] /\ s.len = cells[2]
               /\ s.op = into.op /\ s.sender = into.sender
<1> DEFINE ReadAs(f) == {j \in DOMAIN cells :
                           0 + j \in DOMAIN Fields["data_header"] /\ Fields["data_header"][0 + j] = f}
           s == [f \in DOMAIN into |-> IF ReadAs(f) = {} THEN into[f]
                                       ELSE cells[CHOOSE j \in ReadAs(f) : TRUE]]
<1>1. Stored(into, "data_header", 0, cells) = s
  BY DEF Stored
<1>2. DOMAIN into = Names \cup {"buf"}
  BY DEF AnyMessage, Names
<1>3. /\ DOMAIN Fields["data_header"] = {1, 2} /\ DOMAIN cells = {1, 2} /\ 0 + 1 = 1 /\ 0 + 2 = 2
      /\ Fields["data_header"][1] = "receiver" /\ Fields["data_header"][2] = "len"
  <2>1. Fields["data_header"] = <<"receiver", "len">>
    BY DEF Fields, Structures
  <2>2. DOMAIN cells = {1, 2} /\ 0 + 1 = 1 /\ 0 + 2 = 2
    OBVIOUS
  <2>3. DOMAIN <<"receiver", "len">> = {1, 2}
    OBVIOUS
  <2>4. <<"receiver", "len">>[1] = "receiver" /\ <<"receiver", "len">>[2] = "len"
    OBVIOUS
  <2> QED BY <2>1, <2>2, <2>3, <2>4
<1>4. ReadAs("receiver") = {1} /\ ReadAs("len") = {2} /\ ReadAs("op") = {} /\ ReadAs("sender") = {}
  BY <1>3
<1> HIDE DEF ReadAs
<1>5. (CHOOSE j \in {1} : TRUE) = 1 /\ (CHOOSE j \in {2} : TRUE) = 2
  OBVIOUS
<1> QED BY <1>1, <1>2, <1>4, <1>5 DEF Names

\* What a read() stores of a body.
LEMMA StoredBody ==
    ASSUME NEW into \in AnyMessage, NEW i \in Nat, NEW S, NEW cells \in Seq(S), into.buf \in Seq(S)
    PROVE  LET s == Stored(into, "body", i, cells)
           IN  /\ s = [into EXCEPT !.buf = s.buf]
               /\ s.buf \in Seq(S) /\ Len(s.buf) = Len(into.buf)
               /\ \A j \in 1 .. Len(into.buf) :
                     s.buf[j] = IF j - i \in 1 .. Len(cells) THEN cells[j - i] ELSE into.buf[j]
<1> DEFINE b == [j \in DOMAIN into.buf |-> IF j - i \in DOMAIN cells THEN cells[j - i] ELSE into.buf[j]]
<1>1. Stored(into, "body", i, cells) = [into EXCEPT !.buf = b]
  BY DEF Stored
<1>2. [into EXCEPT !.buf = b].buf = b
  BY DEF AnyMessage
<1>3. DOMAIN into.buf = 1 .. Len(into.buf) /\ DOMAIN cells = 1 .. Len(cells) /\ Len(into.buf) \in Nat
  OBVIOUS
<1>4. \A j \in 1 .. Len(into.buf) : b[j] \in S
  BY <1>3
<1>5. b \in Seq(S) /\ Len(b) = Len(into.buf)
  BY <1>3, <1>4
<1> QED BY <1>1, <1>2, <1>3, <1>5

\* A message is its two headers and the body that is sent with it.
LEMMA SizesAre ==
    ASSUME lens \in Seq(Lengths)
    PROVE  /\ Sizes \in [1 .. Len(lens) -> Nat]
           /\ \A m \in 1 .. Len(lens) : /\ lens[m] \in Nat /\ Sizes[m] = Size(m)
                                        /\ Size(m) \in Nat /\ Size(m) >= 4
<1>1. ASSUME NEW m \in 1 .. Len(lens) PROVE lens[m] \in Nat /\ Size(m) \in Nat /\ Size(m) >= 4
  <2>1. lens[m] \in Lengths
    OBVIOUS
  <2>2. lens[m] \in Nat
    BY <2>1, LengthsAssumption
  <2> QED BY <2>2 DEF Size
<1> QED BY <1>1 DEF Sizes

\* A place is a number.
LEMMA APlace == ASSUME NEW N \in Nat, NEW p \in Places(N) PROVE \A i \in 1 .. N + 1 : p[i] \in Nat
BY DEF Places

\* No place is behind the last one.
LEMMA LastPlace ==
    ASSUME NEW N \in Nat, NEW pm \in Places(N), NEW po \in Places(N),
           NEW sizes, Follows(pm, po, N, sizes), NEW i \in 1 .. N + 1
    PROVE  pm[i] <= pm[N + 1] /\ (pm[i] = pm[N + 1] => po[N + 1] = po[i] + (N + 1 - i))
<1>1. N + 1 \in 1 .. N + 1 /\ i <= N + 1
  OBVIOUS
<1> QED BY <1>1 DEF Follows

\* The places of the first k cells, when they are of one message.
LEMMA FirstPlaces ==
    ASSUME NEW N \in Nat, NEW pm \in Places(N), NEW po \in Places(N),
           NEW sizes, Follows(pm, po, N, sizes), NEW k \in 1 .. N, sizes[pm[1]] \in Nat,
           po[1] + k <= sizes[pm[1]]
    PROVE  /\ \A i \in 1 .. k : pm[i] = pm[1] /\ po[i] = po[1] + (i - 1)
           /\ IF po[1] + k = sizes[pm[1]] THEN pm[k + 1] = pm[1] + 1 /\ po[k + 1] = 0
              ELSE pm[k + 1] = pm[1] /\ po[k + 1] = po[1] + k
<1>1. 1 \in 1 .. N /\ k + 1 \in 1 .. N + 1 /\ 1 \in 1 .. N + 1 /\ pm[1] \in Nat /\ po[1] \in Nat
  BY APlace
<1>2. \A j \in 1 .. N + 1 : /\ po[1] + (j - 1) < sizes[pm[1]] => pm[j] = pm[1]
                            /\ po[1] + (j - 1) = sizes[pm[1]] => pm[j] = pm[1] + 1 /\ po[j] = 0
                            /\ pm[1] = pm[j] => po[j] = po[1] + (j - 1)
  BY <1>1 DEF Follows
<1>3. ASSUME NEW i \in 1 .. k PROVE pm[i] = pm[1] /\ po[i] = po[1] + (i - 1)
  <2>1. i \in 1 .. N + 1 /\ po[1] + (i - 1) < sizes[pm[1]]
    BY <1>1
  <2> QED BY <1>2, <2>1
<1>4. IF po[1] + k = sizes[pm[1]] THEN pm[k + 1] = pm[1] + 1 /\ po[k + 1] = 0
      ELSE pm[k + 1] = pm[1] /\ po[k + 1] = po[1] + k
  <2>1. PICK m \in Nat, o \in Nat, s \in Nat : m = pm[1] /\ o = po[1] /\ s = sizes[pm[1]]
    BY <1>1
  <2>2. /\ o + k < s => pm[k + 1] = m
        /\ o + k = s => pm[k + 1] = m + 1 /\ po[k + 1] = 0
        /\ m = pm[k + 1] => po[k + 1] = o + k
    <3>1. o + ((k + 1) - 1) = o + k
      BY <2>1
    <3> QED BY <1>1, <1>2, <2>1, <3>1
  <2>3. o + k < s \/ o + k = s
    <3>1. o + k <= s
      BY <2>1
    <3> QED BY <3>1
  <2> QED BY <2>1, <2>2, <2>3
<1> QED BY <1>3, <1>4

\* The places after the first k.
LEMMA FollowsShrinks ==
    ASSUME NEW N \in Nat, NEW k \in 1 .. N, NEW sizes,
           NEW pm \in Places(N), NEW po \in Places(N), Follows(pm, po, N, sizes),
           NEW qm, NEW qo, \A i \in 1 .. N - k + 1 : qm[i] = pm[i + k] /\ qo[i] = po[i + k]
    PROVE  Follows(qm, qo, N - k, sizes)
<1>1. ASSUME NEW i \in 1 .. N - k + 1, NEW j \in 1 .. N - k + 1, i <= j
      PROVE  qm[i] <= qm[j] /\ (qm[i] = qm[j] => qo[j] = qo[i] + (j - i))
  <2>1. i + k \in 1 .. N + 1 /\ j + k \in 1 .. N + 1 /\ i + k <= j + k /\ (j + k) - (i + k) = j - i
    BY <1>1
  <2> QED BY <2>1 DEF Follows
<1>2. ASSUME NEW i \in 1 .. N - k, NEW j \in i .. N - k + 1
      PROVE  /\ qo[i] + (j - i) < sizes[qm[i]] => qm[j] = qm[i]
             /\ qo[i] + (j - i) = sizes[qm[i]] => qm[j] = qm[i] + 1 /\ qo[j] = 0
  <2>1. i + k \in 1 .. N /\ j + k \in i + k .. N + 1 /\ (j + k) - (i + k) = j - i
        /\ i \in 1 .. N - k + 1 /\ j \in 1 .. N - k + 1
    OBVIOUS
  <2> QED BY <2>1 DEF Follows
<1> QED BY <1>1, <1>2 DEF Follows

\* The places of k cells more of message n, from its offset o on.
Grown(qm, qo, pm, po, N, k, n, o, sizes) ==
    /\ \A i \in 1 .. N + 1 : qm[i] = pm[i] /\ qo[i] = po[i]
    /\ \A i \in N + 1 .. N + k : qm[i] = n /\ qo[i] = o + (i - N - 1)
    /\ IF o + k = sizes[n] THEN qm[N + k + 1] = n + 1 /\ qo[N + k + 1] = 0
       ELSE qm[N + k + 1] = n /\ qo[N + k + 1] = o + k

\* The places of k cells more still follow each other.
LEMMA FollowsGrows ==
    ASSUME NEW N \in Nat, NEW k \in Nat \ {0}, NEW n \in Nat \ {0}, NEW o \in Nat,
           NEW sizes \in [1 .. n -> Nat], o + k <= sizes[n],
           NEW pm \in Places(N), NEW po \in Places(N), Follows(pm, po, N, sizes),
           pm[N + 1] = n, po[N + 1] = o, \A i \in 1 .. N : pm[i] \in 1 .. n,
           NEW qm \in Places(N + k), NEW qo \in Places(N + k),
           Grown(qm, qo, pm, po, N, k, n, o, sizes)
    PROVE  Follows(qm, qo, N + k, sizes)
<1>0. /\ \A i \in 1 .. N + 1 : qm[i] = pm[i] /\ qo[i] = po[i]
      /\ \A i \in N + 1 .. N + k : qm[i] = n /\ qo[i] = o + (i - N - 1)
      /\ IF o + k = sizes[n] THEN qm[N + k + 1] = n + 1 /\ qo[N + k + 1] = 0
         ELSE qm[N + k + 1] = n /\ qo[N + k + 1] = o + k
  BY DEF Grown
<1>1. ASSUME NEW j \in N + 1 .. N + k + 1
      PROVE  IF j = N + k + 1 /\ o + k = sizes[n] THEN qm[j] = n + 1 /\ qo[j] = 0
             ELSE qm[j] = n /\ qo[j] = o + (j - N - 1)
  <2>1. CASE j = N + k + 1
    BY <1>0, <2>1
  <2>2. CASE j # N + k + 1
    <3>1. j \in N + 1 .. N + k
      BY <2>2
    <3> QED BY <1>0, <2>2, <3>1
  <2> QED BY <2>1, <2>2
<1>2. ASSUME NEW i \in 1 .. N + 1
      PROVE  /\ qm[i] = pm[i] /\ qo[i] = po[i] /\ pm[i] \in Nat /\ po[i] \in Nat /\ pm[i] <= n
             /\ pm[i] = n => o = po[i] + (N + 1 - i)
  BY <1>0, APlace, LastPlace
<1>3. sizes[n] \in Nat
  OBVIOUS
<1>4. ASSUME NEW i \in 1 .. N + k + 1, NEW j \in 1 .. N + k + 1, i <= j
      PROVE  qm[i] <= qm[j] /\ (qm[i] = qm[j] => qo[j] = qo[i] + (j - i))
  <2>1. CASE j <= N + 1
    <3>1. i \in 1 .. N + 1 /\ j \in 1 .. N + 1
      BY <1>4, <2>1
    <3>2. pm[i] <= pm[j] /\ (pm[i] = pm[j] => po[j] = po[i] + (j - i))
      BY <1>4, <3>1 DEF Follows
    <3>3. qm[i] = pm[i] /\ qo[i] = po[i] /\ qm[j] = pm[j] /\ qo[j] = po[j]
      BY <1>0, <3>1
    <3> QED BY <3>2, <3>3, Zenon
  <2>2. CASE i <= N + 1 /\ j > N + 1
    <3>1. i \in 1 .. N + 1 /\ j \in N + 1 .. N + k + 1
      BY <2>2
    <3>2. \/ qm[j] = n + 1
          \/ qm[j] = n /\ qo[j] = o + (j - N - 1)
      BY <1>1, <3>1
    <3>3. /\ qm[i] = pm[i] /\ qo[i] = po[i] /\ pm[i] \in Nat /\ po[i] \in Nat /\ pm[i] <= n
          /\ pm[i] = n => o = po[i] + (N + 1 - i)
      BY <1>2, <3>1
    <3>4. PICK m \in Nat, p \in Nat : m = pm[i] /\ p = po[i]
      BY <3>3
    <3>5. m <= n /\ (m = n => o = p + (N + 1 - i))
      BY <3>3, <3>4
    <3>6. /\ m <= n + 1 /\ m # n + 1
          /\ m = n => o + (j - N - 1) = p + (j - i)
      BY <3>1, <3>5
    <3> QED BY <3>2, <3>3, <3>4, <3>5, <3>6, Zenon
  <2>3. CASE i > N + 1
    <3>1. i \in N + 1 .. N + k + 1 /\ j \in N + 1 .. N + k + 1 /\ (i = N + k + 1 => j = i)
      BY <1>4, <2>3
    <3>2. CASE i = j
      <4>1. \A x, y \in Nat : x <= x /\ y = y + (i - i)
        OBVIOUS
      <4>2. qm[i] \in Nat /\ qo[i] \in Nat
        BY APlace
      <4> QED BY <3>2, <4>1, <4>2, Zenon
    <3>3. CASE i # j
      <4>1. qm[i] = n /\ qo[i] = o + (i - N - 1)
        BY <1>1, <3>1, <3>3
      <4>2. \/ qm[j] = n + 1
            \/ qm[j] = n /\ qo[j] = o + (j - N - 1)
        BY <1>1, <3>1
      <4>3. o + (j - N - 1) = (o + (i - N - 1)) + (j - i) /\ n <= n /\ n <= n + 1 /\ n # n + 1
        BY <3>1
      <4> QED BY <4>1, <4>2, <4>3, Zenon
    <3> QED BY <3>2, <3>3
  <2> QED BY <2>1, <2>2, <2>3
<1>5. ASSUME NEW i \in 1 .. N + k, NEW j \in i .. N + k + 1
      PROVE  /\ qo[i] + (j - i) < sizes[qm[i]] => qm[j] = qm[i]
             /\ qo[i] + (j - i) = sizes[qm[i]] => qm[j] = qm[i] + 1 /\ qo[j] = 0
  <2>1. CASE j <= N + 1 /\ i <= N
    <3>1. i \in 1 .. N /\ j \in i .. N + 1 /\ i \in 1 .. N + 1 /\ j \in 1 .. N + 1
      BY <2>1
    <3>2. /\ po[i] + (j - i) < sizes[pm[i]] => pm[j] = pm[i]
          /\ po[i] + (j - i) = sizes[pm[i]] => pm[j] = pm[i] + 1 /\ po[j] = 0
      BY <3>1 DEF Follows
    <3>3. qm[i] = pm[i] /\ qo[i] = po[i] /\ qm[j] = pm[j] /\ qo[j] = po[j]
      BY <1>0, <3>1
    <3> QED BY <3>2, <3>3, Zenon
  <2>2. CASE i <= N /\ j > N + 1
    <3>1. i \in 1 .. N /\ N + 1 \in i .. N + 1 /\ i \in 1 .. N + 1 /\ j \in N + 1 .. N + k + 1
      BY <2>2
    <3>2. PICK m \in 1 .. n, p \in Nat, s \in Nat : m = pm[i] /\ p = po[i] /\ s = sizes[m]
      BY <3>1, APlace
    <3>3. /\ p + (N + 1 - i) < s => n = m
          /\ p + (N + 1 - i) = s => n = m + 1
      <4>1. /\ po[i] + (N + 1 - i) < sizes[pm[i]] => pm[N + 1] = pm[i]
            /\ po[i] + (N + 1 - i) = sizes[pm[i]] => pm[N + 1] = pm[i] + 1
        <5>1. \A h \in i .. N + 1 : /\ po[i] + (h - i) < sizes[pm[i]] => pm[h] = pm[i]
                                    /\ po[i] + (h - i) = sizes[pm[i]] => pm[h] = pm[i] + 1
          BY <3>1 DEF Follows
        <5>2. N + 1 \in i .. N + 1
          BY <3>1
        <5> QED BY <5>1, <5>2
      <4> QED BY <3>2, <4>1
    <3>4. qm[i] = m /\ qo[i] = p /\ (m = n => o = p + (N + 1 - i))
      BY <1>2, <3>1, <3>2
    <3>5. IF j = N + k + 1 /\ o + k = sizes[n] THEN qm[j] = n + 1 /\ qo[j] = 0
          ELSE qm[j] = n /\ qo[j] = o + (j - N - 1)
      BY <1>1, <3>1
    <3>6. CASE m = n
      <4>0. o = p + (N + 1 - i) /\ o + k <= s
        BY <3>2, <3>4, <3>6
      <4>1. p + (j - i) = o + (j - N - 1) /\ o + k <= s /\ j <= N + k + 1
        BY <3>1, <4>0
      <4>2. CASE j = N + k + 1
        <5>1. p + (j - i) = o + k
          BY <4>1, <4>2
        <5>3. (o + k < s \/ o + k = s) /\ ~(o + k < s /\ o + k = s)
          BY <4>1
        <5>2. IF o + k = s THEN qm[j] = m + 1 /\ qo[j] = 0 ELSE qm[j] = m
          BY <3>2, <3>5, <3>6, <4>2
        <5> QED BY <3>2, <3>4, <5>1, <5>2, <5>3, Zenon
      <4>3. CASE j # N + k + 1
        <5>1. p + (j - i) < s
          BY <3>1, <4>1, <4>3
        <5>2. p + (j - i) # s
          BY <3>1, <5>1
        <5> QED BY <3>2, <3>4, <3>5, <3>6, <4>3, <5>2
      <4> QED BY <4>2, <4>3
    <3>7. CASE m # n
      <4>1. p + (N + 1 - i) >= s
        <5>1. CASE p + (N + 1 - i) < s
          BY <3>3, <3>7, <5>1
        <5>2. CASE ~(p + (N + 1 - i) < s)
          BY <3>1, <5>2
        <5> QED BY <5>1, <5>2
      <4>2. ~(p + (j - i) < s) /\ p + (j - i) # s
        BY <2>2, <4>1
      <4> QED BY <3>2, <3>4, <4>2
    <3> QED BY <3>6, <3>7
  <2>3. CASE i > N
    <3>1. i \in N + 1 .. N + k /\ i \in N + 1 .. N + k + 1 /\ j \in N + 1 .. N + k + 1
      BY <2>3
    <3>2. qm[i] = n /\ qo[i] = o + (i - N - 1)
      BY <1>0, <3>1
    <3>3. qo[i] + (j - i) = o + (j - N - 1)
      BY <3>1, <3>2
    <3>4. IF j = N + k + 1 /\ o + k = sizes[n] THEN qm[j] = n + 1 /\ qo[j] = 0
          ELSE qm[j] = n /\ qo[j] = o + (j - N - 1)
      BY <1>1, <3>1
    <3>5. o + k <= sizes[n] /\ j <= N + k + 1
      BY <3>1
    <3>6. PICK s \in Nat : s = sizes[n]
      BY <1>3
    <3>7. CASE j = N + k + 1
      <4>1. o + (j - N - 1) = o + k
        BY <3>7
      <4>2. (o + k < s \/ o + k = s) /\ ~(o + k < s /\ o + k = s)
        BY <3>5, <3>6
      <4> QED BY <3>2, <3>3, <3>4, <3>6, <3>7, <4>1, <4>2, Zenon
    <3>8. CASE j # N + k + 1
      <4>1. o + k <= s
        BY <3>5, <3>6
      <4>2. o + (j - N - 1) < s /\ o + (j - N - 1) # s
        BY <3>1, <3>8, <4>1
      <4> QED BY <3>2, <3>3, <3>4, <3>6, <3>8, <4>2, Zenon
    <3> QED BY <3>7, <3>8
  <2> QED BY <2>1, <2>2, <2>3
<1> QED BY <1>4, <1>5 DEF Follows

\* ... and there are such places.
LEMMA MorePlaces ==
    ASSUME NEW N \in Nat, NEW k \in Nat \ {0}, NEW n \in Nat \ {0}, NEW o \in Nat,
           NEW sizes \in [1 .. n -> Nat], o + k <= sizes[n],
           NEW pm \in Places(N), NEW po \in Places(N), Follows(pm, po, N, sizes),
           pm[N + 1] = n, po[N + 1] = o, \A i \in 1 .. N : pm[i] \in 1 .. n
    PROVE  \E qm, qo \in Places(N + k) :
              Grown(qm, qo, pm, po, N, k, n, o, sizes) /\ Follows(qm, qo, N + k, sizes)
<1> DEFINE full == o + k = sizes[n]
           qm == [i \in 1 .. N + k + 1 |-> IF i <= N THEN pm[i]
                                             ELSE IF i = N + k + 1 /\ full THEN n + 1 ELSE n]
           qo == [i \in 1 .. N + k + 1 |-> IF i <= N THEN po[i]
                                             ELSE IF i = N + k + 1 /\ full THEN 0 ELSE o + (i - N - 1)]
<1> HIDE DEF full
<1>1. qm \in Places(N + k) /\ qo \in Places(N + k)
  <2>1. ASSUME NEW i \in 1 .. N + k + 1 PROVE qm[i] \in Nat /\ qo[i] \in Nat
    <3>1. CASE i <= N
      <4>1. i \in 1 .. N + 1
        BY <3>1
      <4> QED BY <3>1, <4>1, APlace
    <3>2. CASE ~(i <= N)
      <4>1. o + (i - N - 1) \in Nat
        BY <3>2
      <4> QED BY <3>2, <4>1
    <3> QED BY <3>1, <3>2
  <2> QED BY <2>1 DEF Places
<1>2. ASSUME NEW i \in 1 .. N + 1 PROVE qm[i] = pm[i] /\ qo[i] = po[i]
  <2>1. i \in 1 .. N + k + 1 /\ i # N + k + 1 /\ (~(i <= N) => i = N + 1) /\ o + ((N + 1) - N - 1) = o
    OBVIOUS
  <2> QED BY <2>1
<1>3. ASSUME NEW i \in N + 1 .. N + k PROVE qm[i] = n /\ qo[i] = o + (i - N - 1)
  <2>1. i \in 1 .. N + k + 1 /\ i # N + k + 1 /\ ~(i <= N)
    OBVIOUS
  <2> QED BY <2>1
<1>4. IF full THEN qm[N + k + 1] = n + 1 /\ qo[N + k + 1] = 0
      ELSE qm[N + k + 1] = n /\ qo[N + k + 1] = o + k
  <2>1. N + k + 1 \in 1 .. N + k + 1 /\ ~(N + k + 1 <= N) /\ o + ((N + k + 1) - N - 1) = o + k
    OBVIOUS
  <2> QED BY <2>1
<1> HIDE DEF qm, qo
<1>5. Grown(qm, qo, pm, po, N, k, n, o, sizes)
  <2>1. IF o + k = sizes[n] THEN qm[N + k + 1] = n + 1 /\ qo[N + k + 1] = 0
        ELSE qm[N + k + 1] = n /\ qo[N + k + 1] = o + k
    BY <1>4 DEF full
  <2> QED BY <1>2, <1>3, <2>1 DEF Grown
<1>6. Follows(qm, qo, N + k, sizes)
  BY <1>1, <1>5, FollowsGrows, Zenon
<1> QED BY <1>1, <1>5, <1>6

-----------------------------------------------------------------------------
(* The steps of the sender.                                                *)

\* At the start both ends are at the start of the first message.
LEMMA InitWire == WireInit => WireInv
<1> SUFFICES ASSUME WireInit PROVE WireInv
  OBVIOUS
<1> USE LengthsAssumption, BufferAssumption, CapacityAssumption, BoundAssumption DEF WireInit
<1>1. lens \in Seq(Lengths) /\ Len(lens) = 0 /\ wire \in Seq(Cells) /\ Len(wire) = 0
  OBVIOUS
<1>2. Blank.buf = <<>> /\ \A f \in Names : Blank[f] = Unset
  BY DEF Blank, Names
<1>3. WireTypeOK
  <2>1. Unset \in Cells
    BY <1>1, CellsAre
  <2>2. \A f \in Names : msg[f] \in Cells
    BY <1>2, <2>1
  <2>3. msg.buf \in Seq(Cells) /\ Len(msg.buf) = 0
    BY <1>2
  <2>4. /\ remaining = 0 /\ to = 0 /\ hdr_size = 2 /\ from = 0 /\ torn = {} /\ overrun = FALSE
        /\ sending = "idle" /\ reading = "header"
    OBVIOUS
  <2>5. SenderTypes /\ WireTypes
    BY <1>1 DEF SenderTypes, WireTypes, Structures
  <2>6. ReaderTypes
    <3>1. reading \in Structures \cup {"body", "closed"} /\ to \in Nat /\ overrun \in BOOLEAN
      BY <2>4 DEF Structures
    <3>2. hdr_size \in 0 .. (IF reading = "body" THEN max_allocable_buffer ELSE 2)
      BY <2>4
    <3>3. Len(msg.buf) <= max_allocable_buffer
      BY <2>3
    <3> QED BY <2>2, <2>3, <3>1, <3>2, <3>3 DEF ReaderTypes, Names
  <2> QED BY <2>5, <2>6, Types
<1>4. Shapes
  BY Blanks DEF Shapes
<1>5. Sending /\ Reading
  BY DEF Sending, Reading, Structures
<1>6. Tracks
  <2> DEFINE pm == [i \in {1} |-> 1]
             po == [i \in {1} |-> 0]
  <2>1. pm \in Places(Len(wire)) /\ po \in Places(Len(wire))
    BY <1>1 DEF Places
  <2>2. Follows(pm, po, Len(wire), Sizes)
    <3>1. \A i \in 1 .. Len(wire) + 1 : i = 1
      BY <1>1
    <3> QED BY <1>1, <3>1 DEF Follows
  <2>3. Placed(pm, po)
    BY <1>1, <2>2 DEF Placed, Current, ReadTo, SentMessage, SentTo
  <2> QED BY <2>1, <2>3 DEF Tracks
<1>7. Held /\ Past
  BY DEF Held, Past
<1> QED BY <1>3, <1>4, <1>5, <1>6, <1>7 DEF WireInv

\* sendRequest is called: a message more, of which nothing is written.
LEMMA RequestStep == ASSUME WireInv, NEW len \in Lengths, Request(len) PROVE WireInv'
<1> USE LengthsAssumption, BufferAssumption, CapacityAssumption, BoundAssumption DEF WireInv
<1>1. /\ lens \in Seq(Lengths) /\ wire \in Seq(Cells) /\ Len(wire) \in Nat /\ Len(lens) \in Nat
      /\ Len(lens) < MaxMessages
  BY DEF WireTypeOK, Request
<1>2. /\ lens' \in Seq(Lengths) /\ Len(lens)' = Len(lens) + 1
      /\ \A m \in 1 .. Len(lens) : lens'[m] = lens[m]
  BY <1>1 DEF Request
<1>3. /\ sending = "idle" /\ sending' = "header" /\ from' = 0 /\ remaining' = 2
      /\ UNCHANGED <<torn, wire, reading, to, hdr_size, msg, received, overrun>>
  BY DEF Request, readerVars, Fields, Structures
<1>4. Cells \subseteq Cells'
  BY <1>1, <1>2, CellsGrow
<1>5. WireTypeOK'
  <2>1. wire' \in Seq(Cells') /\ msg'.buf \in Seq(Cells')
    BY <1>3, <1>4, SeqGrows DEF WireTypeOK
  <2>2. \A f \in {"op", "sender", "receiver", "len"} : msg'[f] \in Cells'
    BY <1>3, <1>4 DEF WireTypeOK
  <2>3. torn' \subseteq (1 .. Len(lens)') \X (Structures \cup {"body"})
    BY <1>1, <1>2, <1>3 DEF WireTypeOK
  <2>4. Len(lens)' <= MaxMessages
    BY <1>1, <1>2
  <2>5. SenderTypes'
    <3>1. sending' \in Structures \cup {"body", "idle", "closed"} /\ from' \in Nat
      BY <1>3 DEF Structures
    <3>2. remaining' \in 0 .. 2 /\ sending' # "body"
      BY <1>3
    <3> QED BY <1>2, <2>3, <2>4, <3>1, <3>2 DEF SenderTypes
  <2>6. ReaderTypes' /\ WireTypes'
    BY <1>3, <2>1, <2>2, Types DEF ReaderTypes, WireTypes
  <2> QED BY <2>5, <2>6 DEF WireTypeOK, SenderTypes, ReaderTypes, WireTypes
<1>6. \A part : ~Cut(Len(lens), part)'
  BY <1>1, <1>2, <1>3 DEF WireTypeOK, Cut
<1>7. Shapes' /\ Sending' /\ Reading'
  <2>1. Shapes' /\ Reading'
    BY <1>3 DEF Shapes, Reading
  <2>2. Len(lens)' # 0 /\ "header" \in Structures
    BY <1>1, <1>2 DEF Structures
  <2> QED BY <1>3, <1>6, <2>1, <2>2 DEF Sending
<1>8. /\ \A m \in 1 .. Len(lens) : Size(m)' = Size(m)
      /\ \A m, o : Sent(m, o)' = Sent(m, o)
      /\ Current' = Current /\ ReadTo' = ReadTo /\ SentMessage' = SentMessage /\ SentTo' = SentTo
      /\ InPlace' = InPlace
  BY <1>1, <1>2, <1>3 DEF Size, Sent, Cut, Current, ReadTo, SentMessage, SentTo, InPlace, PlaceLost
<1>9. Tracks'
  <2> SUFFICES ASSUME InPlace PROVE \E pm, po \in Places(Len(wire)) : Placed(pm, po)'
    BY <1>3, <1>8 DEF Tracks
  <2>1. PICK pm, po \in Places(Len(wire)) : Placed(pm, po)
    BY DEF Tracks
  <2>2. Follows(pm, po, Len(wire), Sizes)'
    <3>1. \A i \in 1 .. Len(wire) : pm[i] \in 1 .. Len(lens)
      BY <2>1 DEF Placed
    <3>2. \A m \in 1 .. Len(lens) : Sizes'[m] = Sizes[m]
      BY <1>1, <1>2, <1>8 DEF Sizes
    <3>3. \A i \in 1 .. Len(wire) : Sizes'[pm[i]] = Sizes[pm[i]]
      BY <3>1, <3>2
    <3>4. Follows(pm, po, Len(wire), Sizes) /\ Len(wire)' = Len(wire)
      BY <1>3, <2>1 DEF Placed
    <3> QED BY <3>3, <3>4 DEF Follows
  <2>3. Placed(pm, po)'
    BY <1>1, <1>2, <1>3, <1>8, <2>1, <2>2 DEF Placed
  <2> QED BY <2>3
<1>10. Held'
  <2> SUFFICES ASSUME InPlace, reading = "body" PROVE Current <= Len(lens)' /\ lens'[Current] = lens[Current]
    BY <1>3, <1>8 DEF Held
  <2>1. Current \in 1 .. Len(lens)
    BY <1>1 DEF Held, Shapes, Current
  <2> QED BY <1>1, <1>2, <2>1
<1>11. Past'
  <2> SUFFICES ASSUME ~overrun, NEW i \in DOMAIN received, ~PlaceLost(i)
               PROVE  Arrived(i)' /\ i # Len(lens)'
    BY <1>3 DEF Past, PlaceLost
  <2>1. Arrived(i) /\ i \in 1 .. Len(lens)
    BY DEF Past, Shapes, Arrived
  <2> QED BY <1>1, <1>2, <1>3, <2>1 DEF Arrived
<1> QED BY <1>5, <1>7, <1>9, <1>10, <1>11

\* The sender closes its end, or finds the other one closed: nothing it wrote changes.
LEMMA CloseStep == ASSUME WireInv, WriteFails \/ HangUp PROVE WireInv'
<1> USE DEF WireInv
<1>1. sending' = "closed" /\ UNCHANGED <<lens, from, remaining, torn, wire, readerVars>>
  BY DEF WriteFails, HangUp
<1>2. UNCHANGED <<reading, to, hdr_size, msg, received, overrun>>
  BY <1>1 DEF readerVars
<1>3. WireTypeOK'
  <2>1. SenderTypes /\ ReaderTypes /\ WireTypes
    BY Types
  <2>2. SenderTypes'
    BY <1>1, <2>1 DEF SenderTypes, Structures
  <2>3. ReaderTypes' /\ WireTypes'
    BY <1>1, <1>2, <2>1 DEF ReaderTypes, WireTypes, Cells
  <2> QED BY <2>2, <2>3 DEF WireTypeOK, SenderTypes, ReaderTypes, WireTypes
<1>4. Shapes' /\ Sending' /\ Reading'
  BY <1>1, <1>2 DEF Shapes, Sending, Reading, Structures
<1>5. /\ \A m : Size(m)' = Size(m)
      /\ \A m, o : Sent(m, o)' = Sent(m, o)
      /\ Current' = Current /\ ReadTo' = ReadTo /\ (InPlace' <=> InPlace)
  BY <1>1, <1>2 DEF Size, Sent, Cut, Current, ReadTo, InPlace, PlaceLost
<1>6. Tracks'
  <2> SUFFICES ASSUME InPlace PROVE \E pm, po \in Places(Len(wire)) : Placed(pm, po)'
    BY <1>1, <1>5 DEF Tracks
  <2>1. PICK pm, po \in Places(Len(wire)) : Placed(pm, po)
    BY DEF Tracks
  <2>2. Sizes' = Sizes
    BY <1>1, <1>5 DEF Sizes
  <2>3. Placed(pm, po)'
    BY <1>1, <1>5, <2>1, <2>2 DEF Placed, Follows
  <2> QED BY <2>3
<1>7. Held' /\ Past'
  BY <1>1, <1>2, <1>5 DEF Held, Past, Arrived, PlaceLost
<1> QED BY <1>3, <1>4, <1>6, <1>7

\* The two structures, and what lies in memory there.
LEMMA Layout ==
    /\ \A part \in Structures : Len(Fields[part]) = 2 /\ Stride(part) = 2
    /\ Stride("body") = 1
    /\ \A m : /\ Memory(m, "header", 0) = Cell(m, "op", 0) /\ Memory(m, "header", 1) = Cell(m, "sender", 0)
              /\ Memory(m, "data_header", 0) = Cell(m, "receiver", 0)
              /\ Memory(m, "data_header", 1) = Cell(m, "len", 0)
              /\ \A part \in Structures : Memory(m, part, 2) = Garbage
              /\ \A i : Memory(m, "body", i) = Cell(m, "buf", i)
<1>1. Fields["header"] = <<"op", "sender">> /\ Fields["data_header"] = <<"receiver", "len">>
  BY DEF Fields, Structures
<1>2. /\ Len(<<"op", "sender">>) = 2 /\ <<"op", "sender">>[1] = "op" /\ <<"op", "sender">>[2] = "sender"
      /\ Len(<<"receiver", "len">>) = 2 /\ <<"receiver", "len">>[1] = "receiver"
      /\ <<"receiver", "len">>[2] = "len"
  OBVIOUS
<1>3. /\ Len(Fields["header"]) = 2 /\ Fields["header"][1] = "op" /\ Fields["header"][2] = "sender"
      /\ Len(Fields["data_header"]) = 2 /\ Fields["data_header"][1] = "receiver"
      /\ Fields["data_header"][2] = "len"
  BY <1>1, <1>2, Zenon
<1>4. \A part \in Structures : Len(Fields[part]) = 2
  BY <1>3 DEF Structures
<1>5. (\A part \in Structures : Stride(part) = 2) /\ Stride("body") = 1
  BY <1>4 DEF Stride, Structures
<1>6. 0 + 1 = 1 /\ 1 + 1 = 2 /\ 0 < 2 /\ 1 < 2 /\ ~(2 < 2)
  OBVIOUS
<1>7. ASSUME NEW m
      PROVE  /\ Memory(m, "header", 0) = Cell(m, "op", 0) /\ Memory(m, "header", 1) = Cell(m, "sender", 0)
             /\ Memory(m, "data_header", 0) = Cell(m, "receiver", 0)
             /\ Memory(m, "data_header", 1) = Cell(m, "len", 0)
  <2>1. "header" # "body" /\ "data_header" # "body"
    OBVIOUS
  <2> HIDE DEF Fields
  <2> QED BY <1>3, <1>6, <2>1, Zenon DEF Memory
<1>8. ASSUME NEW m
      PROVE  /\ \A part \in Structures : Memory(m, part, 2) = Garbage
             /\ \A i : Memory(m, "body", i) = Cell(m, "buf", i)
  <2>1. \A part \in Structures : part # "body"
    BY DEF Structures
  <2> QED BY <1>4, <1>6, <2>1, Zenon DEF Memory
<1> QED BY <1>4, <1>5, <1>7, <1>8

\* One write() of k cells, seen from the place the sender is at.
Sends(k) ==
    /\ SentTo \in Nat /\ SentTo + k <= Size(Len(lens))
    /\ \A i \in 1 .. k, o \in Nat :
          o = SentTo + i - 1 => Memory(Len(lens), sending, from + i - 1) = Sent(Len(lens), o)'
    /\ IF SentTo + k = Size(Len(lens)) THEN SentMessage' = Len(lens) + 1 /\ SentTo' = 0
       ELSE SentMessage' = Len(lens) /\ SentTo' = SentTo + k
    /\ \/ torn' = torn
       \/ /\ torn' = torn \cup {<<Len(lens), sending>>}
          /\ sending = "header" => SentTo = 0
          /\ sending = "data_header" => SentTo = 2
    /\ sending' \in Structures \cup {"body", "idle"} /\ from' \in Nat
    /\ sending' = "header" => sending = "header"
    /\ Sending'

\* What holds of every write(), whatever the part.
LEMMA WriteValues ==
    ASSUME WireInv, NEW k \in 1 .. Capacity, Write(k)
    PROVE  /\ lens \in Seq(Lengths) /\ sending \in Structures \cup {"body"} /\ UNCHANGED lens
           /\ Len(lens) \in Nat /\ Len(lens) # 0 /\ lens[Len(lens)] \in Nat
           /\ k \in Nat /\ k # 0 /\ k <= remaining
           /\ Size(Len(lens)) = 4 + (IF lens[Len(lens)] \in 1 .. max_allocable_buffer THEN lens[Len(lens)] ELSE 0)
           /\ Size(Len(lens)) \in Nat /\ Size(Len(lens)) >= 4
           /\ k < remaining => /\ remaining' = remaining - k /\ from' = from + k * Stride(sending)
                               /\ torn' = torn \cup {<<Len(lens), sending>>} /\ sending' = sending
           /\ k = remaining => /\ sending' = NextToSend(sending)[1] /\ remaining' = NextToSend(sending)[2]
                               /\ from' = 0 /\ torn' = torn
<1>1. /\ lens \in Seq(Lengths) /\ sending \in Structures \cup {"body"} /\ UNCHANGED lens
      /\ Len(lens) # 0
  BY DEF WireInv, WireTypeOK, Write, Sending
<1>2. Len(lens) \in Nat /\ lens[Len(lens)] \in Nat
  <2>1. Len(lens) \in Nat
    BY <1>1
  <2>2. Len(lens) \in 1 .. Len(lens)
    BY <1>1, <2>1
  <2>3. lens[Len(lens)] \in Lengths
    BY <1>1, <2>2
  <2> QED BY <2>1, <2>3, LengthsAssumption
<1>3. k \in Nat /\ k # 0 /\ k <= remaining
  BY CapacityAssumption DEF Write
<1>4. remaining \in Int
  <2>1. sending \in Structures => remaining \in 0 .. 2
    BY DEF WireInv, WireTypeOK
  <2>2. sending = "body" => remaining \in 0 .. max_allocable_buffer
    BY DEF WireInv, WireTypeOK
  <2> QED BY <1>1, <2>1, <2>2, BufferAssumption
<1>5. /\ k < remaining => /\ remaining' = remaining - k /\ from' = from + k * Stride(sending)
                          /\ torn' = torn \cup {<<Len(lens), sending>>} /\ sending' = sending
      /\ k = remaining => /\ sending' = NextToSend(sending)[1] /\ remaining' = NextToSend(sending)[2]
                          /\ from' = 0 /\ torn' = torn
  BY <1>3, <1>4 DEF Write
<1>6. /\ Size(Len(lens)) = 4 + (IF lens[Len(lens)] \in 1 .. max_allocable_buffer THEN lens[Len(lens)] ELSE 0)
      /\ Size(Len(lens)) \in Nat /\ Size(Len(lens)) >= 4
  BY <1>2 DEF Size
<1> QED BY <1>1, <1>2, <1>3, <1>5, <1>6

\* A header, or a piece of it.
LEMMA SendsHeader ==
    ASSUME WireInv, NEW k \in 1 .. Capacity, Write(k), sending = "header" PROVE Sends(k)
<1>1. PICK n \in Nat \ {0} : n = Len(lens) /\ n = Len(lens)' /\ Size(n) \in Nat /\ Size(n) >= 4
  BY WriteValues
<1>2. /\ "header" \in Structures /\ "data_header" \in Structures
      /\ k \in Nat \ {0} /\ k <= remaining
  BY WriteValues DEF Structures
<1>3. /\ ~Cut(n, "data_header")
      /\ \/ from = 0 /\ remaining = 2 /\ ~Cut(n, "header")
         \/ from = 2 /\ remaining = 1 /\ Cut(n, "header")
  BY <1>1, <1>2 DEF WireInv, Sending
<1>4. SentTo = 2 - remaining
  BY DEF SentTo
<1>5. CASE k < remaining
  <2>0. from = 0 /\ remaining = 2
    BY <1>2, <1>3, <1>5
  <2>1. from = 0 /\ remaining = 2 /\ k = 1 /\ SentTo = 0
    BY <1>2, <1>4, <1>5, <2>0
  <2>2. sending' = "header" /\ remaining' = 1 /\ from' = 2 /\ torn' = torn \cup {<<n, "header">>}
    <3>1. Stride("header") = 2
      BY <1>2, Layout
    <3>2. /\ remaining' = remaining - k /\ from' = from + k * Stride(sending)
          /\ torn' = torn \cup {<<Len(lens), sending>>} /\ sending' = sending
      BY <1>5, WriteValues
    <3>3. from + k * Stride(sending) = 2 /\ remaining - k = 1
      BY <2>1, <3>1
    <3> QED BY <1>1, <2>1, <3>2, <3>3
  <2>3. SentTo' = 1 /\ SentMessage' = n
    BY <1>1, <2>2 DEF SentTo, SentMessage
  <2>4. Memory(n, "header", 0) = Sent(n, 0)'
    BY <1>1, Layout DEF Sent
  <2>5. Sending'
    <3>1. Cut(n, "header")' /\ ~Cut(n, "data_header")'
      BY <1>3, <2>2, CutMore
    <3> QED BY <1>1, <1>2, <2>2, <3>1 DEF Sending
  <2>6. ASSUME NEW i \in 1 .. k, NEW o \in Nat, o = SentTo + i - 1
        PROVE  Memory(n, "header", from + i - 1) = Sent(n, o)'
    <3>1. o = 0 /\ from + i - 1 = 0
      BY <2>1, <2>6
    <3> QED BY <2>4, <3>1
  <2>7. SentTo \in Nat /\ SentTo + k <= Size(n) /\ SentTo + k # Size(n) /\ SentTo' = SentTo + k
    BY <1>1, <2>1, <2>3
  <2>8. sending' \in Structures /\ from' \in Nat
    BY <1>2, <2>2
  <2> QED BY <1>1, <2>1, <2>2, <2>3, <2>5, <2>6, <2>7, <2>8 DEF Sends
<1>6. CASE k = remaining
  <2>1. sending' = "data_header" /\ remaining' = 2 /\ from' = 0 /\ torn' = torn
    <3>1. NextToSend("header") = <<"data_header", 2>>
      BY <1>2, Layout DEF NextToSend
    <3> QED BY <1>6, <3>1, WriteValues
  <2>2. SentTo' = 2 /\ SentMessage' = n
    BY <1>1, <2>1 DEF SentTo, SentMessage
  <2>3. ASSUME NEW i \in 1 .. k, NEW o \in Nat, o = SentTo + i - 1
        PROVE  Memory(n, "header", from + i - 1) = Sent(n, o)'
    <3>1. /\ Sent(n, 0)' = Cell(n, "op", 0)
          /\ Sent(n, 1)' = IF Cut(n, "header") THEN Garbage ELSE Cell(n, "sender", 0)
      BY <1>1, <2>1, CutSame DEF Sent
    <3>2. /\ Memory(n, "header", 0) = Cell(n, "op", 0) /\ Memory(n, "header", 1) = Cell(n, "sender", 0)
          /\ Memory(n, "header", 2) = Garbage
      BY <1>2, Layout
    <3>3. \/ ~Cut(n, "header") /\ o = 0 /\ from + i - 1 = 0
          \/ ~Cut(n, "header") /\ o = 1 /\ from + i - 1 = 1
          \/ Cut(n, "header") /\ o = 1 /\ from + i - 1 = 2
      BY <1>3, <1>4, <1>6, <2>3
    <3> QED BY <3>1, <3>2, <3>3
  <2>4. Sending'
    <3>1. ~Cut(n, "data_header")'
      BY <1>3, <2>1, CutSame
    <3> QED BY <1>1, <1>2, <2>1, <3>1 DEF Sending
  <2>5. SentTo \in Nat /\ SentTo + k = 2
    BY <1>3, <1>4, <1>6
  <2> QED BY <1>1, <1>2, <2>1, <2>2, <2>3, <2>4, <2>5 DEF Sends
<1> QED
  <2>1. remaining \in Nat
    BY <1>3
  <2> QED BY <1>2, <1>5, <1>6, <2>1

\* A data header, or a piece of it.  Without a body to send, the message ends here.
LEMMA SendsDataHeader ==
    ASSUME WireInv, NEW k \in 1 .. Capacity, Write(k), sending = "data_header" PROVE Sends(k)
<1>1. PICK n \in Nat \ {0} : n = Len(lens) /\ n = Len(lens)' /\ Size(n) \in Nat /\ Size(n) >= 4
  BY WriteValues
<1>2. /\ "header" \in Structures /\ "data_header" \in Structures
      /\ k \in Nat \ {0} /\ k <= remaining
  BY WriteValues DEF Structures
<1>3. \/ from = 0 /\ remaining = 2 /\ ~Cut(n, "data_header")
      \/ from = 2 /\ remaining = 1 /\ Cut(n, "data_header")
  BY <1>1, <1>2 DEF WireInv, Sending
<1>4. SentTo = 4 - remaining
  BY DEF SentTo
<1>5. CASE k < remaining
  <2>0. from = 0 /\ remaining = 2
    BY <1>2, <1>3, <1>5
  <2>1. from = 0 /\ remaining = 2 /\ k = 1 /\ SentTo = 2
    BY <1>2, <1>4, <1>5, <2>0
  <2>2. sending' = "data_header" /\ remaining' = 1 /\ from' = 2 /\ torn' = torn \cup {<<n, "data_header">>}
    <3>1. Stride("data_header") = 2
      BY <1>2, Layout
    <3>2. /\ remaining' = remaining - k /\ from' = from + k * Stride(sending)
          /\ torn' = torn \cup {<<Len(lens), sending>>} /\ sending' = sending
      BY <1>5, WriteValues
    <3>3. from + k * Stride(sending) = 2 /\ remaining - k = 1
      BY <2>1, <3>1
    <3> QED BY <1>1, <2>1, <3>2, <3>3
  <2>3. SentTo' = 3 /\ SentMessage' = n
    BY <1>1, <2>2 DEF SentTo, SentMessage
  <2>4. Memory(n, "data_header", 0) = Sent(n, 2)'
    BY <1>1, Layout DEF Sent
  <2>5. Sending'
    <3>1. Cut(n, "data_header")'
      BY <2>2, CutMore
    <3> QED BY <1>1, <1>2, <2>2, <3>1 DEF Sending
  <2>6. ASSUME NEW i \in 1 .. k, NEW o \in Nat, o = SentTo + i - 1
        PROVE  Memory(n, "data_header", from + i - 1) = Sent(n, o)'
    <3>1. o = 2 /\ from + i - 1 = 0
      BY <2>1, <2>6
    <3> QED BY <2>4, <3>1
  <2>7. SentTo \in Nat /\ SentTo + k <= Size(n) /\ SentTo + k # Size(n) /\ SentTo' = SentTo + k
    BY <1>1, <2>1, <2>3
  <2>8. sending' \in Structures /\ from' \in Nat
    BY <1>2, <2>2
  <2> QED BY <1>1, <2>1, <2>2, <2>3, <2>5, <2>6, <2>7, <2>8 DEF Sends
<1>6. CASE k = remaining
  <2>1. /\ torn' = torn /\ from' = 0
        /\ IF lens[n] \in 1 .. max_allocable_buffer THEN sending' = "body" /\ remaining' = lens[n]
                                                     ELSE sending' = "idle" /\ remaining' = 0
    <3>1. NextToSend("data_header") =
            IF lens[n] \in 1 .. max_allocable_buffer THEN <<"body", lens[n]>> ELSE <<"idle", 0>>
      BY <1>1 DEF NextToSend, Last
    <3> QED BY <1>6, <3>1, WriteValues
  <2>2. ASSUME NEW i \in 1 .. k, NEW o \in Nat, o = SentTo + i - 1
        PROVE  Memory(n, "data_header", from + i - 1) = Sent(n, o)'
    <3>1. /\ Sent(n, 2)' = Cell(n, "receiver", 0)
          /\ Sent(n, 3)' = IF Cut(n, "data_header") THEN Garbage ELSE Cell(n, "len", 0)
      BY <1>1, <2>1, CutSame DEF Sent
    <3>2. /\ Memory(n, "data_header", 0) = Cell(n, "receiver", 0)
          /\ Memory(n, "data_header", 1) = Cell(n, "len", 0)
          /\ Memory(n, "data_header", 2) = Garbage
      BY <1>2, Layout
    <3>3. \/ ~Cut(n, "data_header") /\ o = 2 /\ from + i - 1 = 0
          \/ ~Cut(n, "data_header") /\ o = 3 /\ from + i - 1 = 1
          \/ Cut(n, "data_header") /\ o = 3 /\ from + i - 1 = 2
      BY <1>3, <1>4, <1>6, <2>2
    <3> QED BY <3>1, <3>2, <3>3
  <2>3. SentTo \in Nat /\ SentTo + k = 4
    BY <1>3, <1>4, <1>6
  <2>4. lens[n] \in Nat /\ lens'[n] = lens[n]
        /\ Size(n) = 4 + (IF lens[n] \in 1 .. max_allocable_buffer THEN lens[n] ELSE 0)
    BY <1>1, WriteValues
  <2>5. CASE lens[n] \in 1 .. max_allocable_buffer
    <3>1. sending' = "body" /\ remaining' = lens[n] /\ lens[n] # 0 /\ Size(n) = 4 + lens[n]
      BY <2>1, <2>4, <2>5
    <3>2. SentTo' = 4 /\ SentMessage' = n
      BY <1>1, <2>1, <3>1 DEF SentTo, SentMessage
    <3>3. Sending'
      BY <1>1, <2>1, <2>4, <2>5, <3>1 DEF Sending, Structures
    <3>4. SentTo + k <= Size(n) /\ SentTo + k # Size(n)
      BY <2>3, <2>4, <3>1
    <3> QED BY <1>1, <2>1, <2>2, <2>3, <3>1, <3>2, <3>3, <3>4 DEF Sends
  <2>6. CASE lens[n] \notin 1 .. max_allocable_buffer
    <3>1. sending' = "idle" /\ Size(n) = 4
      BY <2>1, <2>4, <2>6
    <3>2. SentTo' = 0 /\ SentMessage' = n + 1
      BY <1>1, <3>1 DEF SentTo, SentMessage
    <3>3. Sending'
      BY <3>1 DEF Sending, Structures
    <3> QED BY <1>1, <2>1, <2>2, <2>3, <3>1, <3>2, <3>3 DEF Sends
  <2> QED BY <2>5, <2>6
<1> QED
  <2>1. remaining \in Nat
    BY <1>3
  <2> QED BY <1>2, <1>5, <1>6, <2>1

\* A piece of the body, or the last one.
LEMMA SendsBody ==
    ASSUME WireInv, NEW k \in 1 .. Capacity, Write(k), sending = "body" PROVE Sends(k)
<1>1. PICK n \in Nat \ {0} : n = Len(lens) /\ n = Len(lens)' /\ Size(n) \in Nat
  BY WriteValues
<1>2. /\ k \in Nat \ {0} /\ k <= remaining /\ lens[n] \in 1 .. max_allocable_buffer /\ lens[n] \in Nat
      /\ remaining \in 1 .. lens[n] /\ from = lens[n] - remaining /\ lens'[n] = lens[n]
  BY <1>1, WriteValues DEF WireInv, Sending
<1>3. /\ Size(n) = 4 + lens[n] /\ SentTo = 4 + from /\ from \in Nat
      /\ SentTo \in Nat /\ SentTo + k <= Size(n) /\ (SentTo + k = Size(n) <=> k = remaining)
  <2>1. Size(n) = 4 + lens[n]
    BY <1>2 DEF Size
  <2>2. SentTo = 4 + from
    BY DEF SentTo
  <2> QED BY <1>2, <2>1, <2>2
<1>4. ASSUME NEW i \in 1 .. k, NEW o \in Nat, o = SentTo + i - 1
      PROVE  Memory(n, "body", from + i - 1) = Sent(n, o)'
  <2>1. from + i - 1 = o - 4 /\ o \in Nat /\ o >= 4
    BY <1>2, <1>3, <1>4
  <2>2. Memory(n, "body", o - 4) = Cell(n, "buf", o - 4)
    BY Layout
  <2>3. Sent(n, o)' = Cell(n, "buf", o - 4)
    BY <2>1 DEF Sent
  <2> QED BY <2>1, <2>2, <2>3
<1>5. CASE k < remaining
  <2>1. sending' = "body" /\ remaining' = remaining - k /\ from' = from + k /\ torn' = torn \cup {<<n, "body">>}
    <3>1. k * Stride("body") = k
      BY <1>2, Layout
    <3> QED BY <1>1, <1>5, <3>1, WriteValues
  <2>2. SentTo' = SentTo + k /\ SentMessage' = n
    BY <1>1, <1>2, <1>3, <2>1 DEF SentTo, SentMessage
  <2>3. Sending'
    <3>1. remaining' \in 1 .. lens'[n] /\ from' = lens'[n] - remaining'
      BY <1>2, <1>5, <2>1
    <3>2. lens'[n] \in 1 .. max_allocable_buffer
      BY <1>2
    <3> QED BY <1>1, <2>1, <3>1, <3>2 DEF Sending, Structures
  <2>4. from' \in Nat /\ SentTo + k # Size(n)
    BY <1>2, <1>3, <1>5, <2>1
  <2> QED BY <1>1, <1>3, <1>4, <2>1, <2>2, <2>3, <2>4 DEF Sends
<1>6. CASE k = remaining
  <2>1. sending' = "idle" /\ remaining' = 0 /\ from' = 0 /\ torn' = torn
    <3>1. NextToSend("body") = <<"idle", 0>>
      BY DEF NextToSend
    <3> QED BY <1>6, <3>1, WriteValues
  <2>2. SentTo' = 0 /\ SentMessage' = n + 1
    BY <1>1, <2>1 DEF SentTo, SentMessage
  <2>3. Sending'
    BY <2>1 DEF Sending, Structures
  <2> QED BY <1>1, <1>2, <1>3, <1>4, <1>6, <2>1, <2>2, <2>3 DEF Sends
<1> QED BY <1>2, <1>5, <1>6

\* A sequence with k elements more.
LEMMA Concatenated ==
    ASSUME NEW S, NEW s \in Seq(S), NEW k \in Nat, NEW f \in [1 .. k -> S]
    PROVE  /\ s \o f \in Seq(S) /\ Len(s \o f) = Len(s) + k /\ Len(s) \in Nat
           /\ \A i \in 1 .. Len(s) : (s \o f)[i] = s[i]
           /\ \A i \in 1 .. k : (s \o f)[Len(s) + i] = f[i]
<1>1. f \in Seq(S) /\ Len(f) = k
  OBVIOUS
<1> QED BY <1>1

\* What is sent of a message are cells of it, or spoilt ones.
LEMMA SentCells ==
    ASSUME lens \in Seq(Lengths), UNCHANGED lens, NEW m \in 1 .. Len(lens), NEW o \in Nat, o < Size(m)
    PROVE  Sent(m, o)' \in Cells /\ Cells' = Cells
<1>1. /\ Garbage \in Cells /\ \A f \in Names : Cell(m, f, 0) \in Cells
      /\ \A i \in 0 .. max_allocable_buffer - 1 : Cell(m, "buf", i) \in Cells
  BY CellsAre
<1>2. lens[m] \in Nat
  <2>1. lens[m] \in Lengths
    OBVIOUS
  <2> QED BY <2>1, LengthsAssumption
<1>5. Cells' = Cells
  BY DEF Cells
<1>3. CASE o < 4
  <2>1. /\ Sent(m, 0)' = Cell(m, "op", 0) /\ Sent(m, 1)' \in {Garbage, Cell(m, "sender", 0)}
        /\ Sent(m, 2)' = Cell(m, "receiver", 0) /\ Sent(m, 3)' \in {Garbage, Cell(m, "len", 0)}
    BY DEF Sent
  <2>2. o = 0 \/ o = 1 \/ o = 2 \/ o = 3
    BY <1>3
  <2>3. {Garbage, Cell(m, "op", 0), Cell(m, "sender", 0), Cell(m, "receiver", 0), Cell(m, "len", 0)} \subseteq Cells
    BY <1>1 DEF Names
  <2> QED BY <1>5, <2>1, <2>2, <2>3
<1>4. CASE o >= 4
  <2>1. o - 4 \in 0 .. max_allocable_buffer - 1
    BY <1>2, <1>4, BufferAssumption DEF Size
  <2>2. Sent(m, o)' = Cell(m, "buf", o - 4)
    BY <1>4 DEF Sent
  <2> QED BY <1>1, <1>5, <2>1, <2>2
<1> QED BY <1>3, <1>4, <1>5

\* One write() puts k cells behind those on their way, and changes none of them.
LEMMA WriteGrows ==
    ASSUME WireInv, NEW k \in 1 .. Capacity, Write(k), Sends(k)
    PROVE  \E n \in Nat \ {0}, N \in Nat, o \in Nat :
              /\ n = Len(lens) /\ N = Len(wire) /\ o = SentTo /\ o + k <= Size(n)
              /\ wire' \in Seq(Cells') /\ Len(wire)' = N + k /\ \A i \in 1 .. N : wire'[i] = wire[i]
              /\ \A i \in 1 .. k, p \in Nat : p = o + i - 1 => wire'[N + i] = Sent(n, p)'
              /\ \A m \in 1 .. n, p \in Nat : m < n \/ p < o => Sent(m, p)' = Sent(m, p)
<1>0. PICK n \in Nat \ {0}, N \in Nat, o \in Nat : n = Len(lens) /\ N = Len(wire) /\ o = SentTo
  <2>1. wire \in Seq(Cells)
    BY DEF WireInv, WireTypeOK
  <2>2. Len(wire) \in Nat
    BY <2>1
  <2> QED BY <2>2, WriteValues DEF Sends
<1> DEFINE f == [i \in 1 .. k |-> Memory(n, sending, from + i - 1)]
<1>1. /\ lens \in Seq(Lengths) /\ UNCHANGED lens /\ k \in Nat /\ n \in 1 .. Len(lens)
      /\ o + k <= Size(n) /\ Size(n) \in Nat
  BY <1>0, WriteValues DEF Sends
<1>2. wire' = wire \o f
  BY <1>0 DEF Write
<1>3. ASSUME NEW i \in 1 .. k, NEW p \in Nat, p = o + i - 1 PROVE f[i] = Sent(n, p)'
  <2>1. Memory(n, sending, from + i - 1) = Sent(n, p)'
    BY <1>0, <1>1, <1>3 DEF Sends
  <2> QED BY <2>1
<1>4. f \in [1 .. k -> Cells] /\ Cells' = Cells
  <2>1. ASSUME NEW i \in 1 .. k PROVE f[i] \in Cells /\ Cells' = Cells
    <3>1. PICK p \in Nat : p = o + i - 1 /\ p < Size(n)
      BY <1>1
    <3>2. f[i] = Sent(n, p)'
      BY <1>3, <3>1
    <3> QED BY <1>1, <3>1, <3>2, SentCells
  <2>2. 1 \in 1 .. k
    BY WriteValues
  <2> QED BY <2>1, <2>2
<1>5. wire \in Seq(Cells)
  BY DEF WireInv, WireTypeOK
<1>6. ASSUME NEW m \in 1 .. n, NEW p \in Nat, m < n \/ p < o PROVE Sent(m, p)' = Sent(m, p)
  <2>1. CASE torn' = torn
    BY <2>1, CutSame DEF Sent
  <2>2. CASE torn' = torn \cup {<<n, sending>>} /\ (sending = "header" => o = 0) /\ (sending = "data_header" => o = 2)
    <3>1. \A j, part : Cut(j, part)' <=> Cut(j, part) \/ (j = n /\ part = sending)
      BY <2>2, CutMore
    <3>2. p = 1 => (Cut(m, "header")' <=> Cut(m, "header"))
      BY <1>6, <2>2, <3>1
    <3>3. p = 3 => (Cut(m, "data_header")' <=> Cut(m, "data_header"))
      BY <1>6, <2>2, <3>1
    <3> QED BY <3>2, <3>3 DEF Sent
  <2> QED BY <1>0, <2>1, <2>2 DEF Sends
<1> HIDE DEF f
<1>7. /\ wire' \in Seq(Cells') /\ Len(wire)' = N + k /\ \A i \in 1 .. N : wire'[i] = wire[i]
      /\ \A i \in 1 .. k : wire'[N + i] = f[i]
  <2>1. /\ wire \o f \in Seq(Cells) /\ Len(wire \o f) = Len(wire) + k
        /\ \A i \in 1 .. Len(wire) : (wire \o f)[i] = wire[i]
        /\ \A i \in 1 .. k : (wire \o f)[Len(wire) + i] = f[i]
    BY <1>1, <1>4, <1>5, Concatenated
  <2> QED BY <1>0, <1>2, <1>4, <2>1, Zenon
<1>8. \A i \in 1 .. k, p \in Nat : p = o + i - 1 => wire'[N + i] = Sent(n, p)'
  BY <1>3, <1>7, Zenon
<1>9. \A m \in 1 .. n, p \in Nat : m < n \/ p < o => Sent(m, p)' = Sent(m, p)
  BY <1>6, Zenon
<1> QED BY <1>0, <1>1, <1>7, <1>8, <1>9, Zenon

\* ... and their places are those that follow.
LEMMA WriteTracks ==
    ASSUME WireInv, NEW k \in 1 .. Capacity, Write(k), InPlace'
    PROVE  /\ InPlace /\ Current <= Len(lens)
           /\ \A m, p \in Nat : m = Current /\ p < ReadTo => Sent(m, p)' = Sent(m, p)
           /\ \E pm, po \in Places(Len(wire)') : Placed(pm, po)'
<1>1. Sends(k)
  BY WriteValues, SendsHeader, SendsDataHeader, SendsBody DEF Structures
<1>2. PICK n \in Nat \ {0}, N \in Nat, o \in Nat :
         /\ n = Len(lens) /\ N = Len(wire) /\ o = SentTo /\ o + k <= Size(n)
         /\ wire' \in Seq(Cells') /\ Len(wire)' = N + k /\ \A i \in 1 .. N : wire'[i] = wire[i]
         /\ \A i \in 1 .. k, p \in Nat : p = o + i - 1 => wire'[N + i] = Sent(n, p)'
         /\ \A m \in 1 .. n, p \in Nat : m < n \/ p < o => Sent(m, p)' = Sent(m, p)
  BY <1>1, WriteGrows
<1>3. /\ Sizes \in [1 .. n -> Nat] /\ Sizes[n] = Size(n) /\ \A m \in 1 .. n : Sizes[m] = Size(m)
      /\ k \in Nat \ {0} /\ o + k <= Sizes[n]
  <2>1. n \in 1 .. Len(lens) /\ lens \in Seq(Lengths) /\ k \in Nat \ {0}
    BY <1>2, WriteValues
  <2> QED BY <1>2, <2>1, SizesAre
<1>4. /\ sending # "closed" /\ SentMessage = n /\ sending' # "closed" /\ Len(lens)' = n
      /\ IF o + k = Size(n) THEN SentMessage' = n + 1 /\ SentTo' = 0 ELSE SentMessage' = n /\ SentTo' = o + k
      /\ \A m : Size(m)' = Size(m)
      /\ Sizes' = Sizes
  BY <1>1, <1>2, WriteValues DEF Sends, SentMessage, Structures, Size, Sizes
<1>5. /\ UNCHANGED <<reading, to, hdr_size, msg, received, overrun>>
      /\ Current' = Current /\ ReadTo' = ReadTo
  BY DEF Write, readerVars, Current, ReadTo
<1>6. InPlace
  <2>1. \A m, part : Cut(m, part) => Cut(m, part)'
    BY <1>1, CutSame, CutMore DEF Sends
  <2>2. PlaceLost(Len(received)) => PlaceLost(Len(received))'
    BY <1>5, <2>1 DEF PlaceLost, Cut
  <2> QED BY <1>5, <2>1, <2>2 DEF InPlace
<1>7. PICK pm, po \in Places(N) : Placed(pm, po)
  BY <1>2, <1>6 DEF WireInv, Tracks
<1>8. /\ pm[1] = Current /\ po[1] = ReadTo /\ pm[N + 1] = n /\ po[N + 1] = o
      /\ \A i \in 1 .. N : pm[i] \in 1 .. n /\ po[i] < Size(pm[i]) /\ wire[i] = Sent(pm[i], po[i])
      /\ Follows(pm, po, N, Sizes)
  BY <1>2, <1>4, <1>7 DEF Placed
<1>9. ASSUME NEW i \in 1 .. N + 1
      PROVE  pm[i] \in Nat /\ po[i] \in Nat /\ pm[i] <= n /\ (pm[i] = n => o = po[i] + (N + 1 - i))
  BY <1>8, APlace, LastPlace
<1>10. Current <= n /\ (Current = n => ReadTo <= o) /\ Current \in 1 .. n /\ ReadTo \in Nat
  <2>1. 1 \in 1 .. N + 1 /\ N + 1 - 1 = N
    OBVIOUS
  <2>2. Current \in Nat \ {0}
    BY DEF WireInv, Shapes, Current
  <2>3. ReadTo \in Nat /\ Current <= n /\ (Current = n => o = ReadTo + N)
    BY <1>8, <1>9, <2>1
  <2> QED BY <2>2, <2>3
<1>11. ASSUME NEW m \in Nat, NEW p \in Nat, m = Current, p < ReadTo PROVE Sent(m, p)' = Sent(m, p)
  <2>1. m \in 1 .. n /\ (m < n \/ p < o)
    BY <1>10, <1>11
  <2> QED BY <1>2, <2>1
<1>12. PICK qm, qo \in Places(N + k) :
          /\ Follows(qm, qo, N + k, Sizes)
          /\ \A i \in 1 .. N + 1 : qm[i] = pm[i] /\ qo[i] = po[i]
          /\ \A i \in N + 1 .. N + k : qm[i] = n /\ qo[i] = o + (i - N - 1)
          /\ IF o + k = Sizes[n] THEN qm[N + k + 1] = n + 1 /\ qo[N + k + 1] = 0
             ELSE qm[N + k + 1] = n /\ qo[N + k + 1] = o + k
  <2>1. \A i \in 1 .. N : pm[i] \in 1 .. n
    BY <1>8
  <2>2. pm[N + 1] = n /\ po[N + 1] = o /\ Follows(pm, po, N, Sizes)
    BY <1>8
  <2>3. \E qm, qo \in Places(N + k) :
           Grown(qm, qo, pm, po, N, k, n, o, Sizes) /\ Follows(qm, qo, N + k, Sizes)
    BY <1>3, <2>1, <2>2, MorePlaces, Zenon
  <2> QED BY <2>3 DEF Grown
<1>13. ASSUME NEW i \in 1 .. N + k
       PROVE  qm[i] \in 1 .. n /\ qo[i] < Size(qm[i]) /\ wire'[i] = Sent(qm[i], qo[i])'
  <2>1. CASE i <= N
    <3>1. i \in 1 .. N /\ i \in 1 .. N + 1
      BY <2>1
    <3>2. qm[i] = pm[i] /\ qo[i] = po[i] /\ wire'[i] = Sent(pm[i], po[i])
      BY <1>2, <1>8, <1>12, <3>1
    <3>3. pm[i] \in 1 .. n /\ po[i] \in Nat /\ po[i] < Size(pm[i]) /\ (pm[i] < n \/ po[i] < o)
      <4>1. pm[i] \in 1 .. n /\ po[i] \in Nat /\ po[i] < Size(pm[i]) /\ (pm[i] = n => o = po[i] + (N + 1 - i))
        BY <1>8, <1>9, <3>1
      <4>2. PICK m \in 1 .. n, p \in Nat : m = pm[i] /\ p = po[i]
        BY <4>1
      <4>3. m = n => o = p + (N + 1 - i)
        BY <4>1, <4>2
      <4>4. m < n \/ p < o
        BY <3>1, <4>3
      <4> QED BY <4>1, <4>2, <4>4
    <3>4. \A m \in 1 .. n, p \in Nat : m < n \/ p < o => Sent(m, p)' = Sent(m, p)
      BY <1>2
    <3>5. Sent(pm[i], po[i])' = Sent(pm[i], po[i])
      BY <3>3, <3>4
    <3> QED BY <3>2, <3>3, <3>5
  <2>2. CASE ~(i <= N)
    <3>1. PICK h \in 1 .. k, p \in Nat : i = N + h /\ p = o + h - 1 /\ p = o + (i - N - 1) /\ p < o + k
      <4>1. i - N \in 1 .. k /\ i = N + (i - N) /\ o + (i - N) - 1 \in Nat
            /\ o + (i - N) - 1 = o + (i - N - 1) /\ o + (i - N) - 1 < o + k
        BY <1>3, <2>2
      <4> QED BY <4>1
    <3>2. i \in N + 1 .. N + k /\ n \in 1 .. n
      BY <2>2
    <3>3. qm[i] = n /\ qo[i] = p
      BY <1>12, <3>1, <3>2
    <3>4. wire'[i] = Sent(n, p)'
      BY <1>2, <3>1
    <3>5. p < Size(n)
      <4>1. p < o + k /\ o + k <= Size(n) /\ Size(n) \in Nat /\ k \in Nat
        BY <1>3, <3>1
      <4> QED BY <4>1
    <3> QED BY <3>2, <3>3, <3>4, <3>5
  <2> QED BY <2>1, <2>2
<1>14. Placed(qm, qo)'
  <2>1. 1 \in 1 .. N + 1 /\ qm[1] = Current' /\ qo[1] = ReadTo'
    <3>1. 1 \in 1 .. N + 1
      OBVIOUS
    <3> QED BY <1>5, <1>8, <1>12, <3>1
  <2>2. Len(wire)' = N + k
    BY <1>2
  <2>3. qm[N + k + 1] = SentMessage' /\ qo[N + k + 1] = SentTo'
    BY <1>3, <1>4, <1>12
  <2>4. \A i \in 1 .. N + k : qm[i] \in 1 .. Len(lens)' /\ qo[i] < Size(qm[i])' /\ wire'[i] = Sent(qm[i], qo[i])'
    BY <1>4, <1>13
  <2>5. Follows(qm, qo, N + k, Sizes')
    BY <1>4, <1>12
  <2> QED BY <2>1, <2>2, <2>3, <2>4, <2>5 DEF Placed
<1> QED BY <1>2, <1>6, <1>10, <1>11, <1>12, <1>14

\* A piece of a message is written.
LEMMA WriteStep == ASSUME WireInv, NEW k \in 1 .. Capacity, Write(k) PROVE WireInv'
<1>1. Sends(k)
  BY WriteValues, SendsHeader, SendsDataHeader, SendsBody DEF Structures
<1>2. /\ lens \in Seq(Lengths) /\ Len(lens) \in Nat \ {0} /\ sending \in Structures \cup {"body"}
      /\ UNCHANGED <<lens, reading, to, hdr_size, msg, received, overrun>>
      /\ Current' = Current /\ ReadTo' = ReadTo /\ Cells' = Cells
  BY WriteValues DEF Write, readerVars, Current, ReadTo, Cells
<1>3. SenderTypes /\ ReaderTypes /\ WireTypes
  BY Types DEF WireInv
<1>4. SenderTypes'
  <2>1. sending' \in Structures \cup {"body", "idle", "closed"} /\ from' \in Nat
    BY <1>1 DEF Sends
  <2>2. sending' \in Structures => remaining' \in 0 .. 2
    BY <1>1 DEF Sends, Sending
  <2>3. sending' = "body" => remaining' \in 0 .. max_allocable_buffer
    <3>1. sending' = "body" => /\ lens[Len(lens)] \in 1 .. max_allocable_buffer
                               /\ remaining' \in 1 .. lens[Len(lens)]
      BY <1>1, <1>2 DEF Sends, Sending
    <3> QED BY <3>1, BufferAssumption
  <2>4. torn' \subseteq (1 .. Len(lens)) \X (Structures \cup {"body"})
    <3>1. Len(lens) \in 1 .. Len(lens)
      BY <1>2
    <3>2. torn \subseteq (1 .. Len(lens)) \X (Structures \cup {"body"})
      BY <1>3 DEF SenderTypes
    <3>3. <<Len(lens), sending>> \in (1 .. Len(lens)) \X (Structures \cup {"body"})
      BY <1>2, <3>1
    <3> QED BY <1>1, <3>2, <3>3 DEF Sends
  <2> QED BY <1>2, <1>3, <2>1, <2>2, <2>3, <2>4 DEF SenderTypes
<1>5. ReaderTypes' /\ WireTypes'
  <2>1. ReaderTypes'
    BY <1>2, <1>3 DEF ReaderTypes
  <2>2. wire' \in Seq(Cells') /\ Len(wire)' <= Capacity
    <3>1. PICK n \in Nat \ {0}, N \in Nat, o \in Nat :
             N = Len(wire) /\ wire' \in Seq(Cells') /\ Len(wire)' = N + k
      BY <1>1, WriteGrows
    <3>2. Len(wire) + k <= Capacity
      BY DEF Write
    <3> QED BY <3>1, <3>2
  <2> QED BY <2>1, <2>2 DEF WireTypes
<1>6. Shapes' /\ Sending' /\ Reading'
  BY <1>1, <1>2 DEF WireInv, Shapes, Sends, Reading
<1>7. Tracks'
  BY WriteTracks DEF Tracks
<1>8. Held'
  <2> SUFFICES ASSUME InPlace' PROVE Held'
    BY DEF Held
  <2>1. InPlace /\ \A m, p \in Nat : m = Current /\ p < ReadTo => Sent(m, p)' = Sent(m, p)
    BY WriteTracks
  <2>2. Current \in Nat
    BY DEF WireInv, Shapes, Current
  <2>3. to \in Nat /\ reading \in Structures \cup {"body"}
    BY <1>3, <2>1 DEF ReaderTypes, InPlace
  <2>4. /\ reading # "header" => 0 < ReadTo /\ 1 < ReadTo
        /\ reading = "body" => 2 < ReadTo /\ 3 < ReadTo
    BY <2>3 DEF ReadTo, Structures
  <2>5. ASSUME NEW m, m = Current
        PROVE  /\ reading # "header" => Sent(m, 0)' = Sent(m, 0) /\ Sent(m, 1)' = Sent(m, 1)
               /\ reading = "body" => Sent(m, 2)' = Sent(m, 2) /\ Sent(m, 3)' = Sent(m, 3)
    BY <2>1, <2>2, <2>4, <2>5
  <2> QED BY <1>2, <2>1, <2>5 DEF WireInv, Held
<1>9. Past'
  <2> SUFFICES ASSUME ~overrun, NEW i \in DOMAIN received, ~PlaceLost(i)'
               PROVE  Arrived(i)' /\ (i = Len(lens) => sending' # "header")
    BY <1>2 DEF Past
  <2>1. \A m, part : /\ Cut(m, part) => Cut(m, part)'
                     /\ Cut(m, part)' => Cut(m, part) \/ (m = Len(lens) /\ part = sending)
    BY <1>1, CutSame, CutMore DEF Sends
  <2>2. ~PlaceLost(i)
    BY <2>1 DEF PlaceLost, Cut
  <2>3. Arrived(i) /\ (i = Len(lens) => sending # "header")
    BY <2>2 DEF WireInv, Past
  <2>4. Cut(i, "header")' <=> Cut(i, "header")
    BY <2>1, <2>3
  <2>5. Arrived(i)'
    BY <1>2, <2>3, <2>4 DEF Arrived, Cut
  <2> QED BY <1>1, <2>3, <2>5 DEF Sends
<1> QED BY <1>4, <1>5, <1>6, <1>7, <1>8, <1>9, Types
         DEF WireInv, WireTypeOK, SenderTypes, ReaderTypes, WireTypes

-----------------------------------------------------------------------------
(* The steps of the reader.                                                *)

\* What the message is once a read() of k cells is stored.
Filled(k) == Stored(msg, reading, to, SubSeq(wire, 1, k))

\* The first k elements of a sequence, and the others.
LEMMA FirstCells ==
    ASSUME NEW S, NEW s \in Seq(S), NEW k \in 1 .. Len(s)
    PROVE  /\ SubSeq(s, 1, k) \in Seq(S) /\ Len(SubSeq(s, 1, k)) = k
           /\ \A i \in 1 .. k : SubSeq(s, 1, k)[i] = s[i]
           /\ SubSeq(s, k + 1, Len(s)) \in Seq(S) /\ Len(SubSeq(s, k + 1, Len(s))) = Len(s) - k
           /\ \A i \in 1 .. Len(s) - k : SubSeq(s, k + 1, Len(s))[i] = s[i + k]
<1>1. Len(s) \in Nat /\ k \in Nat
  OBVIOUS
<1>2. SubSeq(s, 1, k) \in Seq(S) /\ Len(SubSeq(s, 1, k)) = k /\ \A i \in 1 .. k : SubSeq(s, 1, k)[i] = s[i]
  OBVIOUS
<1>3. SubSeq(s, k + 1, Len(s)) \in Seq(S) /\ Len(SubSeq(s, k + 1, Len(s))) = Len(s) - k
  BY <1>1
<1>4. ASSUME NEW i \in 1 .. Len(s) - k PROVE SubSeq(s, k + 1, Len(s))[i] = s[i + k]
  BY <1>1
<1> QED BY <1>2, <1>3, <1>4

\* What holds of every read(), whatever the part.
LEMMA ReadValues ==
    ASSUME WireInv, NEW k \in 1 .. Capacity, Read(k)
    PROVE  /\ lens \in Seq(Lengths) /\ UNCHANGED senderVars
           /\ UNCHANGED <<lens, sending, from, remaining, torn>> /\ Cells' = Cells
           /\ k \in Nat \ {0} /\ hdr_size \in Nat /\ k <= hdr_size /\ to \in Nat
           /\ reading \in Structures \cup {"body"}
           /\ wire \in Seq(Cells) /\ Len(wire) \in Nat /\ k \in 1 .. Len(wire)
           /\ wire' = SubSeq(wire, k + 1, Len(wire)) /\ wire' \in Seq(Cells) /\ Len(wire)' = Len(wire) - k
           /\ \A i \in 1 .. Len(wire) - k : wire'[i] = wire[i + k]
           /\ SubSeq(wire, 1, k) \in Seq(Cells) /\ Len(SubSeq(wire, 1, k)) = k
           /\ \A i \in 1 .. k : SubSeq(wire, 1, k)[i] = wire[i]
           /\ ~overrun' => ~overrun /\ (reading \in Structures => to + k <= 2)
<1>1. /\ lens \in Seq(Lengths) /\ wire \in Seq(Cells) /\ to \in Nat
      /\ reading \in Structures \cup {"body", "closed"}
      /\ hdr_size \in 0 .. (IF reading = "body" THEN max_allocable_buffer ELSE 2)
  BY DEF WireInv, WireTypeOK
<1>2. /\ UNCHANGED senderVars /\ k <= hdr_size /\ k <= Len(wire) /\ reading # "closed"
      /\ wire' = SubSeq(wire, k + 1, Len(wire))
      /\ overrun' = (overrun \/ (reading \in Structures /\ to + k > Len(Fields[reading])))
  BY DEF Read
<1>3. UNCHANGED <<lens, sending, from, remaining, torn>>
  BY <1>2 DEF senderVars
<1>4. Cells' = Cells
  BY <1>3 DEF Cells
<1>5. k \in Nat \ {0} /\ hdr_size \in Nat /\ Len(wire) \in Nat /\ k \in 1 .. Len(wire)
  BY <1>1, <1>2, CapacityAssumption, BufferAssumption
<1>6. ~overrun' => ~overrun /\ (reading \in Structures => to + k <= 2)
  <2>1. reading \in Structures => Len(Fields[reading]) = 2
    BY Layout
  <2>2. ~overrun' => ~overrun /\ ~(reading \in Structures /\ to + k > Len(Fields[reading]))
    BY <1>2, Zenon
  <2>3. ~(to + k > 2) => to + k <= 2
    BY <1>1, <1>5
  <2>4. reading \in Structures /\ ~(to + k > Len(Fields[reading])) => to + k <= 2
    BY <2>1, <2>3, Zenon
  <2> QED BY <2>2, <2>4, Zenon
<1>7. reading \in Structures \cup {"body"}
  BY <1>1, <1>2
<1>8. /\ wire' \in Seq(Cells) /\ Len(wire)' = Len(wire) - k
      /\ \A i \in 1 .. Len(wire) - k : wire'[i] = wire[i + k]
      /\ SubSeq(wire, 1, k) \in Seq(Cells) /\ Len(SubSeq(wire, 1, k)) = k
      /\ \A i \in 1 .. k : SubSeq(wire, 1, k)[i] = wire[i]
  BY <1>1, <1>2, <1>5, FirstCells
<1> QED BY <1>1, <1>2, <1>3, <1>4, <1>5, <1>6, <1>7, <1>8

\* The message keeps its shape, and its length is one that was sent.
LEMMA FilledTypes ==
    ASSUME WireInv, NEW k \in 1 .. Capacity, Read(k)
    PROVE  /\ Filled(k) \in AnyMessage
           /\ Filled(k).buf \in Seq(Cells) /\ Len(Filled(k).buf) = Len(msg.buf)
           /\ \A f \in Names : Filled(k)[f] \in Cells
           /\ LenRead(Filled(k)) \subseteq Nat
<1> DEFINE cells == SubSeq(wire, 1, k)
<1>1. /\ lens \in Seq(Lengths) /\ to \in Nat /\ reading \in Structures \cup {"body"}
      /\ cells \in Seq(Cells) /\ Filled(k) = Stored(msg, reading, to, cells)
  BY ReadValues DEF Filled
<1>2. /\ msg \in AnyMessage /\ msg.buf \in Seq(Cells)
      /\ \A f \in Names : msg[f] \in Cells
  BY DEF WireInv, Shapes, WireTypeOK, Names
<1>3. Cells \in SUBSET AnyCell
  BY <1>1, CellsAre
<1> HIDE DEF cells
<1>4. /\ Filled(k) \in AnyMessage
      /\ Filled(k).buf \in Seq(Cells) /\ Len(Filled(k).buf) = Len(msg.buf)
      /\ \A f \in Names : Filled(k)[f] \in Cells
  <2>1. CASE reading \in Structures
    <3>1. /\ Filled(k) \in AnyMessage /\ Filled(k).buf = msg.buf
          /\ \A f \in Names : Filled(k)[f] \in Cells \cup {msg[f]}
      BY <1>1, <1>2, <1>3, <2>1, StoredStructure
    <3> QED BY <1>2, <3>1
  <2>2. CASE reading = "body"
    <3>1. /\ Filled(k) = [msg EXCEPT !.buf = Filled(k).buf]
          /\ Filled(k).buf \in Seq(Cells) /\ Len(Filled(k).buf) = Len(msg.buf)
      BY <1>1, <1>2, <2>2, StoredBody
    <3>2. \A f \in Names : Filled(k)[f] = msg[f]
      BY <1>2, <3>1 DEF AnyMessage, Names
    <3>3. Filled(k).buf \in Seq(AnyCell)
      BY <1>3, <3>1, SeqGrows
    <3>4. Filled(k) \in AnyMessage
      BY <1>2, <3>1, <3>3 DEF AnyMessage
    <3> QED BY <1>2, <3>1, <3>2, <3>4
  <2> QED BY <1>1, <2>1, <2>2
<1>5. LenRead(Filled(k)) \subseteq Nat
  <2>1. Filled(k).len \in Cells
    BY <1>4 DEF Names
  <2>2. Filled(k).len # Unset /\ Filled(k).len.field = "len" => lens[Filled(k).len.msg] \in Lengths
    BY <1>1, <2>1, CellsAre
  <2>3. CASE Filled(k).len = Unset
    <3>1. LenRead(Filled(k)) = {0}
      BY <2>3 DEF LenRead, Unset, Cell
    <3> QED BY <3>1
  <2>4. CASE Filled(k).len # Unset /\ Filled(k).len.field = "len"
    <3>1. LenRead(Filled(k)) = {lens[Filled(k).len.msg]}
      BY <2>4 DEF LenRead
    <3> QED BY <2>2, <2>4, <3>1, LengthsAssumption
  <2>5. CASE Filled(k).len # Unset /\ Filled(k).len.field # "len"
    <3>1. LenRead(Filled(k)) = Lengths
      BY <2>5 DEF LenRead
    <3> QED BY <3>1, LengthsAssumption
  <2> QED BY <2>3, <2>4, <2>5
<1> QED BY <1>4, <1>5

\* What a read() comes to.
LEMMA Outcomes ==
    ASSUME WireInv, NEW k \in 1 .. Capacity, Read(k)
    PROVE  \/ /\ k < hdr_size /\ Expects(reading, hdr_size - k, Filled(k))
              /\ to' = to + (IF reading = "body" THEN k ELSE 2 * k)
           \/ /\ k = hdr_size /\ to' = 0
              /\ \/ reading = "header" /\ Expects("data_header", 2, Filled(k))
                 \/ reading = "body" /\ Returns(Filled(k))
                 \/ reading = "data_header" /\ 0 \in LenRead(Filled(k)) /\ Returns(Filled(k))
                 \/ reading = "data_header" /\ Fails(Filled(k))
                 \/ /\ reading = "data_header"
                    /\ \E len \in LenRead(Filled(k)) :
                          /\ len \in 1 .. max_allocable_buffer
                          /\ Expects("body", len, [Filled(k) EXCEPT !.buf = [i \in 1 .. len |-> Unset]])
<1>1. /\ k \in Nat /\ hdr_size \in Nat /\ k <= hdr_size /\ to \in Nat
      /\ reading \in Structures \cup {"body"} /\ max_allocable_buffer \in Nat
  BY ReadValues, BufferAssumption
<1>2. /\ \A part \in Structures : Len(Fields[part]) = 2 /\ Stride(part) = 2
      /\ Stride("body") = 1 /\ "data_header" \in Structures /\ "body" \notin Structures
  BY Layout DEF Structures
<1>3. IF k < hdr_size THEN Expects(reading, hdr_size - k, Filled(k)) /\ to' = to + k * Stride(reading)
      ELSE EndOfPart(Filled(k)) /\ to' = 0
  BY DEF Read, Filled
<1>4. CASE k < hdr_size
  <2>1. k * Stride(reading) = IF reading = "body" THEN k ELSE 2 * k
    <3>1. CASE reading = "body"
      BY <1>1, <1>2, <3>1
    <3>2. CASE reading # "body"
      <4>1. Stride(reading) = 2
        BY <1>1, <1>2, <3>2
      <4>2. k * 2 = 2 * k
        BY <1>1
      <4> QED BY <3>2, <4>1, <4>2
    <3> QED BY <3>1, <3>2
  <2> QED BY <1>3, <1>4, <2>1
<1>5. CASE ~(k < hdr_size)
  <2>1. k = hdr_size /\ to' = 0 /\ EndOfPart(Filled(k))
    BY <1>1, <1>3, <1>5
  <2>2. CASE reading = "header"
    BY <1>2, <2>1, <2>2 DEF EndOfPart
  <2>3. CASE reading = "body"
    BY <2>1, <2>3 DEF EndOfPart
  <2>4. CASE reading = "data_header"
    <3>1. PICK len \in LenRead(Filled(k)) :
             IF len = 0 THEN Returns(Filled(k))
             ELSE IF len > max_allocable_buffer THEN Fails(Filled(k))
             ELSE Expects("body", len, [Filled(k) EXCEPT !.buf = [i \in 1 .. len |-> Unset]])
      BY <2>1, <2>4 DEF EndOfPart
    <3>2. len \in Nat
      BY FilledTypes
    <3>3. len = 0 \/ len > max_allocable_buffer \/ len \in 1 .. max_allocable_buffer
      BY <1>1, <3>2
    <3> QED BY <1>1, <2>1, <2>4, <3>1, <3>2, <3>3
  <2> QED BY <1>1, <2>2, <2>3, <2>4 DEF Structures
<1> QED BY <1>4, <1>5

\* Reading leaves what the types say, and the loops of the reader where they should be.
LEMMA ReadTypes ==
    ASSUME WireInv, NEW k \in 1 .. Capacity, Read(k)
    PROVE  WireTypeOK' /\ Shapes' /\ Sending' /\ Reading'
<1>1. /\ UNCHANGED <<lens, sending, from, remaining, torn>> /\ Cells' = Cells
      /\ k \in Nat \ {0} /\ hdr_size \in Nat /\ k <= hdr_size /\ to \in Nat
      /\ reading \in Structures \cup {"body"} /\ lens \in Seq(Lengths)
      /\ wire' \in Seq(Cells) /\ Len(wire) \in Nat /\ Len(wire)' = Len(wire) - k
  BY ReadValues
<1>2. SenderTypes /\ ReaderTypes /\ WireTypes
  BY Types DEF WireInv
<1>3. SenderTypes' /\ Sending'
  BY <1>1, <1>2 DEF WireInv, SenderTypes, Sending, Cut
<1>4. WireTypes'
  <2>1. Len(wire) <= Capacity /\ Capacity \in Nat
    BY <1>2, CapacityAssumption DEF WireTypes
  <2>2. Len(wire)' <= Capacity
    BY <1>1, <2>1
  <2> QED BY <1>1, <2>2 DEF WireTypes
<1>5. overrun' \in BOOLEAN
  BY <1>2 DEF Read, ReaderTypes
<1>6. /\ Filled(k) \in AnyMessage
      /\ Filled(k).buf \in Seq(Cells) /\ Len(Filled(k).buf) = Len(msg.buf)
      /\ \A f \in Names : Filled(k)[f] \in Cells
      /\ Len(msg.buf) <= max_allocable_buffer /\ received \in Seq(AnyMessage)
  BY <1>2, FilledTypes DEF ReaderTypes, WireInv, Shapes
<1>7. /\ Blank \in AnyMessage /\ Blank.buf = <<>> /\ \A f \in Names : Blank[f] = Unset
      /\ Unset \in Cells /\ Unset \in AnyCell
  BY <1>1, Blanks, CellsAre DEF Blank, Names
<1>8. /\ reading \in Structures => (to = 0 /\ hdr_size = 2) \/ (to = 2 /\ hdr_size = 1)
      /\ reading = "body" => hdr_size # 0 /\ to + hdr_size = Len(msg.buf) /\ hdr_size <= max_allocable_buffer
  BY <1>2 DEF WireInv, Reading, ReaderTypes
\* What is left to show of each outcome.
<1> DEFINE Good == /\ reading' \in Structures \cup {"body", "closed"} /\ to' \in Nat
                   /\ hdr_size' \in 0 .. (IF reading' = "body" THEN max_allocable_buffer ELSE 2)
                   /\ msg' \in AnyMessage /\ msg'.buf \in Seq(Cells) /\ Len(msg'.buf) <= max_allocable_buffer
                   /\ \A f \in Names : msg'[f] \in Cells
                   /\ received' \in Seq(AnyMessage)
                   /\ Reading'
<1>9. ASSUME k < hdr_size, Expects(reading, hdr_size - k, Filled(k)),
             to' = to + (IF reading = "body" THEN k ELSE 2 * k)
      PROVE  Good
  <2>1. /\ reading' = reading /\ hdr_size' = hdr_size - k /\ msg' = Filled(k) /\ received' = received
    BY <1>9 DEF Expects
  <2>2. CASE reading \in Structures
    <3>1. to = 0 /\ hdr_size = 2 /\ k = 1
      BY <1>1, <1>8, <1>9, <2>2
    <3>2. to' = 2 /\ hdr_size' = 1 /\ reading # "body"
      BY <1>9, <2>1, <2>2, <3>1 DEF Structures
    <3>3. Reading'
      BY <2>1, <3>2 DEF Reading
    <3> QED BY <1>6, <2>1, <2>2, <3>2, <3>3
  <2>3. CASE reading = "body"
    <3>1. to' = to + k /\ to' \in Nat /\ hdr_size' \in 0 .. max_allocable_buffer
          /\ hdr_size' # 0 /\ to' + hdr_size' = Len(msg.buf)
      BY <1>1, <1>8, <1>9, <2>1, <2>3, BufferAssumption
    <3>2. Reading'
      BY <1>6, <2>1, <2>3, <3>1 DEF Reading, Structures
    <3> QED BY <1>6, <2>1, <2>3, <3>1, <3>2
  <2> QED BY <1>1, <2>2, <2>3
<1>10. ASSUME to' = 0, Expects("data_header", 2, Filled(k)) PROVE Good
  <2>1. /\ reading' = "data_header" /\ hdr_size' = 2 /\ msg' = Filled(k) /\ received' = received
    BY <1>10 DEF Expects
  <2>2. Reading' /\ "data_header" \in Structures
    BY <1>10, <2>1 DEF Reading, Structures
  <2> QED BY <1>6, <1>10, <2>1, <2>2
<1>11. ASSUME to' = 0, Returns(Filled(k)) PROVE Good
  <2>1. /\ reading' = "header" /\ hdr_size' = 2 /\ msg' = Blank /\ received' = Append(received, Filled(k))
    BY <1>11, Layout DEF Returns, Structures
  <2>2. Reading' /\ "header" \in Structures
    BY <1>11, <2>1 DEF Reading, Structures
  <2>3. msg'.buf \in Seq(Cells) /\ Len(msg'.buf) <= max_allocable_buffer
    <3>1. <<>> \in Seq(Cells) /\ Len(<<>>) = 0 /\ 0 <= max_allocable_buffer
      BY BufferAssumption
    <3> QED BY <1>7, <2>1, <3>1
  <2> QED BY <1>6, <1>7, <1>11, <2>1, <2>2, <2>3
<1>12. ASSUME to' = 0, Fails(Filled(k)) PROVE Good
  <2>1. /\ reading' = "closed" /\ hdr_size' = 0 /\ msg' = Filled(k) /\ received' = received
    BY <1>12 DEF Fails
  <2>2. Reading'
    BY <2>1 DEF Reading, Structures
  <2> QED BY <1>6, <1>12, <2>1, <2>2
<1>13. ASSUME to' = 0, NEW len \in 1 .. max_allocable_buffer,
              Expects("body", len, [Filled(k) EXCEPT !.buf = [i \in 1 .. len |-> Unset]])
       PROVE  Good
  <2> DEFINE buf == [i \in 1 .. len |-> Unset]
  <2>1. /\ reading' = "body" /\ hdr_size' = len /\ msg' = [Filled(k) EXCEPT !.buf = buf] /\ received' = received
    BY <1>13 DEF Expects
  <2>2. buf \in Seq(Cells) /\ buf \in Seq(AnyCell) /\ Len(buf) = len /\ len \in Nat
    BY <1>7, BufferAssumption
  <2> HIDE DEF buf
  <2>3. /\ msg' \in AnyMessage /\ msg'.buf = buf /\ \A f \in Names : msg'[f] = Filled(k)[f]
    BY <1>6, <2>1, <2>2 DEF AnyMessage, Names
  <2>4. Reading'
    <3>1. len # 0 /\ 0 + len = len
      BY <2>2
    <3> QED BY <1>13, <2>1, <2>2, <2>3, <3>1 DEF Reading, Structures
  <2>5. hdr_size' \in 0 .. max_allocable_buffer /\ Len(msg'.buf) <= max_allocable_buffer
    BY <2>1, <2>2, <2>3
  <2> QED BY <1>6, <1>13, <2>1, <2>2, <2>3, <2>4, <2>5
<1>14. Good
  <2> HIDE DEF Good
  <2> QED BY <1>9, <1>10, <1>11, <1>12, <1>13, Outcomes
<1>15. ReaderTypes' /\ Shapes'
  BY <1>1, <1>5, <1>14 DEF ReaderTypes, Shapes, Names
<1> QED BY <1>3, <1>4, <1>14, <1>15 DEF WireTypeOK, SenderTypes, ReaderTypes, WireTypes

\* The cells a read() takes are those of the message being read, from where the
\* reader is in it, and what is left of the wire follows them.
LEMMA ReadPlace ==
    ASSUME WireInv, NEW k \in 1 .. Capacity, Read(k), InPlace, reading \in Structures => k = hdr_size
    PROVE  \E c \in 1 .. Len(lens), r \in Nat :
              /\ c = Current /\ r = ReadTo /\ Size(c) \in Nat /\ r + k <= Size(c) /\ lens[c] \in Nat
              /\ Size(c) = 4 + (IF lens[c] \in 1 .. max_allocable_buffer THEN lens[c] ELSE 0)
              /\ \A i \in 1 .. k, p \in Nat : p = r + i - 1 => wire[i] = Sent(c, p)
              /\ c = Len(lens) /\ sending = "header" => r + k <= 1
              /\ (IF r + k = Size(c) THEN Current' = c + 1 /\ ReadTo' = 0 ELSE Current' = c /\ ReadTo' = r + k)
                    => \E pm, po \in Places(Len(wire)') : Placed(pm, po)'
<1>1. PICK N \in Nat, n \in Nat : N = Len(wire) /\ n = Len(lens)
  <2>1. Len(wire) \in Nat /\ lens \in Seq(Lengths)
    BY ReadValues
  <2> QED BY <2>1
<1>2. /\ lens \in Seq(Lengths) /\ UNCHANGED <<lens, sending, from, remaining, torn>>
      /\ k \in Nat \ {0} /\ k \in 1 .. N /\ to \in Nat /\ hdr_size \in Nat /\ k <= hdr_size
      /\ Len(wire)' = N - k /\ \A i \in 1 .. N - k : wire'[i] = wire[i + k]
      /\ reading \in Structures \cup {"body"}
  BY <1>1, ReadValues
<1>3. PICK pm, po \in Places(N) : Placed(pm, po)
  BY <1>1 DEF WireInv, Tracks
<1>4. /\ pm[1] = Current /\ po[1] = ReadTo
      /\ sending # "closed" => pm[N + 1] = SentMessage /\ po[N + 1] = SentTo
      /\ \A i \in 1 .. N : pm[i] \in 1 .. n /\ po[i] < Size(pm[i]) /\ wire[i] = Sent(pm[i], po[i])
      /\ Follows(pm, po, N, Sizes)
  BY <1>1, <1>3 DEF Placed
<1>5. PICK c \in 1 .. n, r \in Nat : c = pm[1] /\ r = po[1] /\ c = Current /\ r = ReadTo
  <2>1. 1 \in 1 .. N /\ 1 \in 1 .. N + 1
    BY <1>2
  <2> QED BY <1>4, <2>1, APlace
<1>6. /\ Sizes[c] = Size(c) /\ Size(c) \in Nat /\ Size(c) >= 4 /\ lens[c] \in Nat
      /\ Size(c) = 4 + (IF lens[c] \in 1 .. max_allocable_buffer THEN lens[c] ELSE 0)
  <2>1. c \in 1 .. Len(lens)
    BY <1>1
  <2> QED BY <1>2, <2>1, SizesAre DEF Size
<1>7. r + k <= Size(c)
  <2>1. CASE reading \in Structures
    <3>1. to = 0
      BY <2>1 DEF InPlace
    <3>2. k = 2
      BY <2>1, <3>1 DEF WireInv, Reading
    <3>3. r = 0 \/ r = 2
      BY <1>5, <2>1 DEF ReadTo, Structures
    <3> QED BY <1>6, <3>2, <3>3
  <2>2. CASE reading = "body"
    <3>1. r = 4 + to
      BY <1>5, <2>2 DEF ReadTo
    <3>2. to + hdr_size = Len(msg.buf) /\ Len(msg.buf) <= max_allocable_buffer /\ hdr_size # 0
      BY <2>2 DEF WireInv, Reading, WireTypeOK
    <3>3. Len(msg.buf) = lens[c]
      BY <1>5, <2>2 DEF WireInv, Held
    <3>4. lens[c] \in 1 .. max_allocable_buffer
      BY <1>2, <1>6, <3>2, <3>3, BufferAssumption
    <3>5. Size(c) = 4 + lens[c]
      BY <1>6, <3>4
    <3> QED BY <1>2, <1>6, <3>1, <3>2, <3>3, <3>5
  <2> QED BY <1>2, <2>1, <2>2
<1>8. /\ \A i \in 1 .. k : pm[i] = c /\ po[i] = r + (i - 1)
      /\ IF r + k = Size(c) THEN pm[k + 1] = c + 1 /\ po[k + 1] = 0
         ELSE pm[k + 1] = c /\ po[k + 1] = r + k
  <2>1. Sizes[pm[1]] \in Nat /\ po[1] + k <= Sizes[pm[1]]
    BY <1>5, <1>6, <1>7
  <2>2. /\ \A i \in 1 .. k : pm[i] = pm[1] /\ po[i] = po[1] + (i - 1)
        /\ IF po[1] + k = Sizes[pm[1]] THEN pm[k + 1] = pm[1] + 1 /\ po[k + 1] = 0
           ELSE pm[k + 1] = pm[1] /\ po[k + 1] = po[1] + k
    BY <1>2, <1>4, <2>1, FirstPlaces
  <2> QED BY <1>5, <1>6, <2>2
<1>9. ASSUME NEW i \in 1 .. k, NEW p \in Nat, p = r + i - 1 PROVE wire[i] = Sent(c, p)
  <2>1. i \in 1 .. N /\ p = r + (i - 1)
    BY <1>2, <1>9
  <2>2. wire[i] = Sent(pm[i], po[i])
    BY <1>4, <2>1
  <2> QED BY <1>8, <2>1, <2>2
<1>10. ASSUME c = Len(lens), sending = "header" PROVE r + k <= 1
  <2>1. pm[N + 1] = c /\ po[N + 1] = 2 - remaining
    BY <1>4, <1>10 DEF SentMessage, SentTo
  <2>2. remaining \in {1, 2}
    BY <1>10 DEF WireInv, Sending, Structures
  <2>3. k \in 1 .. N + 1 /\ k \in 1 .. k
    BY <1>2
  <2>4. pm[k] = c /\ po[k] = r + (k - 1)
    BY <1>8, <2>3
  <2>5. po[N + 1] = po[k] + (N + 1 - k)
    BY <1>4, <2>1, <2>3, <2>4, LastPlace
  <2>6. 2 - remaining = r + (k - 1) + (N + 1 - k)
    BY <2>1, <2>4, <2>5
  <2> QED BY <1>2, <2>2, <2>6
<1>11. ASSUME IF r + k = Size(c) THEN Current' = c + 1 /\ ReadTo' = 0 ELSE Current' = c /\ ReadTo' = r + k
       PROVE  \E qm, qo \in Places(Len(wire)') : Placed(qm, qo)'
  <2> DEFINE qm == [i \in 1 .. N - k + 1 |-> pm[i + k]]
             qo == [i \in 1 .. N - k + 1 |-> po[i + k]]
  <2>1. ASSUME NEW i \in 1 .. N - k + 1 PROVE qm[i] = pm[i + k] /\ qo[i] = po[i + k] /\ i + k \in 1 .. N + 1
    BY <1>2
  <2>2. qm \in Places(N - k) /\ qo \in Places(N - k)
    <3>1. \A i \in 1 .. N - k + 1 : pm[i + k] \in Nat /\ po[i + k] \in Nat
      BY <2>1, APlace
    <3> QED BY <3>1 DEF Places
  <2> HIDE DEF qm, qo
  <2>3. Follows(qm, qo, N - k, Sizes)
    BY <1>2, <1>4, <2>1, FollowsShrinks
  <2>4. Sizes' = Sizes /\ (\A m : Size(m)' = Size(m)) /\ SentMessage' = SentMessage /\ SentTo' = SentTo
        /\ (\A m, p : Sent(m, p)' = Sent(m, p)) /\ Len(lens)' = n /\ sending' = sending
    BY <1>1, <1>2, CutSame DEF Sizes, Size, SentMessage, SentTo, Sent
  <2>5. qm[1] = Current' /\ qo[1] = ReadTo'
    <3>1. 1 \in 1 .. N - k + 1 /\ 1 + k = k + 1
      BY <1>2
    <3>2. qm[1] = pm[k + 1] /\ qo[1] = po[k + 1]
      BY <2>1, <3>1
    <3> QED BY <1>8, <1>11, <3>2
  <2>6. sending # "closed" => qm[N - k + 1] = SentMessage /\ qo[N - k + 1] = SentTo
    <3>1. N - k + 1 \in 1 .. N - k + 1 /\ (N - k + 1) + k = N + 1
      BY <1>2
    <3>2. qm[N - k + 1] = pm[N + 1] /\ qo[N - k + 1] = po[N + 1]
      BY <2>1, <3>1
    <3> QED BY <1>4, <3>2
  <2>7. ASSUME NEW i \in 1 .. N - k PROVE qm[i] \in 1 .. n /\ qo[i] < Size(qm[i]) /\ wire'[i] = Sent(qm[i], qo[i])
    <3>1. i \in 1 .. N - k + 1 /\ i + k \in 1 .. N
      BY <1>2
    <3>2. qm[i] = pm[i + k] /\ qo[i] = po[i + k] /\ wire'[i] = wire[i + k]
      BY <1>2, <2>1, <3>1
    <3> QED BY <1>4, <3>1, <3>2
  <2>8. Placed(qm, qo)'
    BY <1>2, <2>3, <2>4, <2>5, <2>6, <2>7 DEF Placed
  <2> QED BY <1>2, <2>2, <2>8
<1> QED BY <1>1, <1>5, <1>6, <1>7, <1>9, <1>10, <1>11

\* A reader that is in its place after a part was in its place before it.
LEMMA PlaceBefore ==
    ASSUME WireInv, NEW k \in 1 .. Capacity, Read(k), ~overrun', ~PlaceLost(Len(received)),
           reading \in Structures => k = hdr_size, reading = "body" => ~Cut(Current, "data_header")
    PROVE  InPlace /\ (reading \in Structures => k = 2 /\ to = 0)
<1>1. /\ ~overrun /\ (reading \in Structures => to + k <= 2) /\ reading \in Structures \cup {"body"}
  BY ReadValues
<1>2. reading \in Structures => (to = 0 /\ hdr_size = 2) \/ (to = 2 /\ hdr_size = 1)
  BY DEF WireInv, Reading
<1>3. reading \in Structures => k = 2 /\ to = 0
  BY <1>1, <1>2
<1>4. reading # "closed"
  BY <1>1 DEF Structures
<1> QED BY <1>1, <1>3, <1>4 DEF InPlace

\* What a reader in its place has of the message after a part, or a piece of the body.
Has(m, filled, part, upto) ==
    /\ filled.op = Sent(m, 0) /\ filled.sender = Sent(m, 1)
    /\ part # "header" => filled.receiver = Sent(m, 2) /\ filled.len = Sent(m, 3)
    /\ part # "body" => filled.buf = <<>>
    /\ part = "body" => /\ Len(filled.buf) = lens[m] /\ lens[m] \in 1 .. max_allocable_buffer
                       /\ \A j \in 1 .. upto : filled.buf[j] = Cell(m, "buf", j - 1)

\* A read() in its place adds to the message what was sent of it.
LEMMA FilledHas ==
    ASSUME WireInv, NEW k \in 1 .. Capacity, Read(k), InPlace, reading \in Structures => k = hdr_size,
           NEW c \in Nat, c = Current
    PROVE  Has(c, Filled(k), reading, to + k)
<1>1. PICK r \in Nat :
         /\ r = ReadTo /\ lens[c] \in Nat
         /\ \A i \in 1 .. k, p \in Nat : p = r + i - 1 => wire[i] = Sent(c, p)
  BY ReadPlace
<1> DEFINE cells == SubSeq(wire, 1, k)
<1>2. /\ Filled(k) = Stored(msg, reading, to, cells) /\ k \in Nat \ {0} /\ to \in Nat
      /\ reading \in Structures \cup {"body"} /\ lens \in Seq(Lengths)
      /\ cells \in Seq(Cells) /\ Len(cells) = k /\ \A i \in 1 .. k : cells[i] = wire[i]
  BY ReadValues DEF Filled
<1> HIDE DEF cells
<1>3. cells \in Seq(AnyCell)
  BY <1>2, CellsAre, SeqGrows
<1>4. msg \in AnyMessage /\ msg.buf \in Seq(Cells)
  BY DEF WireInv, Shapes, WireTypeOK
<1>5. ASSUME NEW i \in 1 .. k, NEW p \in Nat, p = r + i - 1 PROVE cells[i] = Sent(c, p)
  BY <1>1, <1>2, <1>5
<1>6. CASE reading \in Structures
  <2>1. to = 0 /\ k = 2
    BY <1>6 DEF WireInv, Reading, InPlace
  <2>2. Filled(k).buf = msg.buf
    BY <1>2, <1>3, <1>4, <1>6, StoredStructure
  <2>3. 1 \in 1 .. k /\ 2 \in 1 .. k
    BY <2>1
  <2>4. CASE reading = "header"
    <3>1. r = 0 /\ 0 = r + 1 - 1 /\ 1 = r + 2 - 1
      BY <1>1, <2>4 DEF ReadTo
    <3>2. cells[1] = Sent(c, 0) /\ cells[2] = Sent(c, 1)
      BY <1>5, <2>3, <3>1
    <3>3. Filled(k).op = cells[1] /\ Filled(k).sender = cells[2]
      BY <1>2, <1>3, <1>4, <2>1, <2>4, StoredHeader
    <3>4. msg.buf = <<>>
      BY <2>4 DEF WireInv, Held, Blank
    <3> QED BY <2>2, <2>4, <3>2, <3>3, <3>4 DEF Has
  <2>5. CASE reading = "data_header"
    <3>1. r = 2 /\ 2 = r + 1 - 1 /\ 3 = r + 2 - 1
      BY <1>1, <2>5 DEF ReadTo
    <3>2. cells[1] = Sent(c, 2) /\ cells[2] = Sent(c, 3)
      BY <1>5, <2>3, <3>1
    <3>3. /\ Filled(k).receiver = cells[1] /\ Filled(k).len = cells[2]
          /\ Filled(k).op = msg.op /\ Filled(k).sender = msg.sender
      BY <1>2, <1>3, <1>4, <2>1, <2>5, StoredDataHeader
    <3>4. msg.buf = <<>> /\ msg.op = Sent(c, 0) /\ msg.sender = Sent(c, 1)
      BY <2>5 DEF WireInv, Held
    <3> QED BY <2>2, <2>5, <3>2, <3>3, <3>4 DEF Has
  <2> QED BY <1>6, <2>4, <2>5 DEF Structures
<1>7. CASE reading = "body"
  <2>1. /\ Filled(k) = [msg EXCEPT !.buf = Filled(k).buf] /\ Len(Filled(k).buf) = Len(msg.buf)
        /\ \A j \in 1 .. Len(msg.buf) :
              Filled(k).buf[j] = IF j - to \in 1 .. Len(cells) THEN cells[j - to] ELSE msg.buf[j]
    BY <1>2, <1>4, <1>7, StoredBody
  <2>2. /\ msg.op = Sent(c, 0) /\ msg.sender = Sent(c, 1) /\ msg.receiver = Sent(c, 2) /\ msg.len = Sent(c, 3)
        /\ Len(msg.buf) = lens[c] /\ \A j \in 1 .. to : msg.buf[j] = Cell(c, "buf", j - 1)
    BY <1>7 DEF WireInv, Held
  <2>3. /\ to + k <= Len(msg.buf) /\ Len(msg.buf) <= max_allocable_buffer /\ Len(msg.buf) \in Nat
        /\ Len(msg.buf) # 0
    <3>1. to + hdr_size = Len(msg.buf) /\ Len(msg.buf) <= max_allocable_buffer
      BY <1>7 DEF WireInv, Reading, WireTypeOK
    <3>2. Len(msg.buf) \in Nat
      BY <1>4
    <3>3. hdr_size \in Nat /\ k <= hdr_size
      BY ReadValues
    <3> QED BY <1>2, <3>1, <3>2, <3>3
  <2>4. ASSUME NEW j \in 1 .. to + k PROVE Filled(k).buf[j] = Cell(c, "buf", j - 1)
    <3>1. j \in 1 .. Len(msg.buf)
      BY <1>2, <2>3
    <3>2. CASE j <= to
      <4>1. j \in 1 .. to /\ ~(j - to \in 1 .. Len(cells))
        BY <1>2, <3>2
      <4> QED BY <2>1, <2>2, <3>1, <4>1
    <3>3. CASE ~(j <= to)
      <4>1. r = 4 + to
        BY <1>1, <1>7 DEF ReadTo
      <4>2. j - to \in 1 .. k /\ 3 + j \in Nat /\ 3 + j = r + (j - to) - 1 /\ (3 + j) - 4 = j - 1
            /\ ~(3 + j = 0) /\ ~(3 + j = 1) /\ ~(3 + j = 2) /\ ~(3 + j = 3)
        BY <1>2, <3>3, <4>1
      <4>3. Filled(k).buf[j] = cells[j - to]
        BY <1>2, <2>1, <3>1, <4>2
      <4>4. cells[j - to] = Sent(c, 3 + j)
        BY <1>5, <4>2
      <4>5. Sent(c, 3 + j) = Cell(c, "buf", j - 1)
        BY <4>2 DEF Sent
      <4> QED BY <4>3, <4>4, <4>5
    <3> QED BY <3>2, <3>3
  <2>5. /\ Filled(k).op = msg.op /\ Filled(k).sender = msg.sender
        /\ Filled(k).receiver = msg.receiver /\ Filled(k).len = msg.len
    BY <1>4, <2>1 DEF AnyMessage
  <2>6. lens[c] \in 1 .. max_allocable_buffer
    BY <2>2, <2>3, BufferAssumption
  <2> QED BY <1>7, <2>1, <2>2, <2>4, <2>5, <2>6 DEF Has
<1> QED BY <1>2, <1>6, <1>7

\* The length a reader in its place finds is the one that was sent.
LEMMA LengthRead ==
    ASSUME NEW c \in Nat, NEW filled, filled.len = Sent(c, 3), ~Cut(c, "data_header")
    PROVE  LenRead(filled) = {lens[c]} /\ filled.len = Cell(c, "len", 0)
<1>1. filled.len = Cell(c, "len", 0)
  BY DEF Sent
<1> QED BY <1>1 DEF LenRead, Unset, Cell

\* A message read from its place is the one that was sent, and its reader is at
\* the start of the next.
LEMMA ReadReturns ==
    ASSUME WireInv, NEW k \in 1 .. Capacity, Read(k), k = hdr_size, to' = 0, Returns(Filled(k)),
           reading = "body" \/ (reading = "data_header" /\ 0 \in LenRead(Filled(k))),
           ~overrun', ~PlaceLost(Current)
    PROVE  /\ \A i : i = Current => Arrived(i)' /\ (i = Len(lens) => sending # "header")
           /\ \E pm, po \in Places(Len(wire)') : Placed(pm, po)'
<1>1. Len(received) \in Nat /\ received \in Seq(AnyMessage) /\ Current = Len(received) + 1
  BY DEF WireInv, Shapes, Current
<1>2. ~PlaceLost(Len(received)) /\ ~Cut(Current, "data_header")
  <2>1. 1 .. Len(received) \subseteq 1 .. Current /\ Current \in 1 .. Current
    BY <1>1
  <2> QED BY <2>1, PlaceLostCut
<1>3. InPlace /\ (reading \in Structures => k = 2 /\ to = 0)
  BY <1>2, PlaceBefore
<1>4. PICK c \in 1 .. Len(lens), r \in Nat :
         /\ c = Current /\ r = ReadTo /\ lens[c] \in Nat
         /\ Size(c) = 4 + (IF lens[c] \in 1 .. max_allocable_buffer THEN lens[c] ELSE 0)
         /\ c = Len(lens) /\ sending = "header" => r + k <= 1
         /\ (IF r + k = Size(c) THEN Current' = c + 1 /\ ReadTo' = 0 ELSE Current' = c /\ ReadTo' = r + k)
               => \E pm, po \in Places(Len(wire)') : Placed(pm, po)'
  BY <1>3, ReadPlace
<1>5. /\ lens \in Seq(Lengths) /\ UNCHANGED <<lens, sending, from, remaining, torn>>
      /\ k \in Nat \ {0} /\ to \in Nat
  BY ReadValues
<1>6. c \in Nat /\ c = Len(received) + 1 /\ ~Cut(c, "data_header")
  BY <1>1, <1>2, <1>4
<1>7. Has(c, Filled(k), reading, to + k)
  BY <1>3, <1>4, <1>6, FilledHas
<1>8. /\ Filled(k).op = Cell(c, "op", 0)
      /\ Filled(k).sender = IF <<c, "header">> \in torn THEN Garbage ELSE Cell(c, "sender", 0)
      /\ Filled(k).receiver = Cell(c, "receiver", 0) /\ Filled(k).len = Cell(c, "len", 0)
      /\ LenRead(Filled(k)) = {lens[c]}
  <2>1. /\ Filled(k).op = Sent(c, 0) /\ Filled(k).sender = Sent(c, 1)
        /\ Filled(k).receiver = Sent(c, 2) /\ Filled(k).len = Sent(c, 3)
    BY <1>7 DEF Has
  <2>2. Sent(c, 0) = Cell(c, "op", 0) /\ Sent(c, 2) = Cell(c, "receiver", 0)
        /\ Sent(c, 1) = IF <<c, "header">> \in torn THEN Garbage ELSE Cell(c, "sender", 0)
    BY DEF Sent, Cut
  <2> QED BY <1>6, <2>1, <2>2, LengthRead
<1>9. /\ Filled(k).buf = [j \in 1 .. lens[c] |-> Cell(c, "buf", j - 1)]
      /\ r + k = Size(c) /\ ~(r + k <= 1)
  <2>1. CASE reading = "body"
    <3>1. /\ Len(Filled(k).buf) = lens[c] /\ lens[c] \in 1 .. max_allocable_buffer
          /\ \A j \in 1 .. to + k : Filled(k).buf[j] = Cell(c, "buf", j - 1)
      BY <1>7, <2>1 DEF Has
    <3>2. r = 4 + to /\ to + k = Len(msg.buf)
      BY <1>4, <2>1 DEF ReadTo, WireInv, Reading
    <3>3. Filled(k).buf \in Seq(Cells) /\ Len(Filled(k).buf) = Len(msg.buf)
      BY FilledTypes
    <3>4. Filled(k).buf = [j \in 1 .. lens[c] |-> Filled(k).buf[j]]
      BY <3>1, <3>3
    <3>5. to + k = lens[c]
      BY <3>1, <3>2, <3>3
    <3>6. [j \in 1 .. lens[c] |-> Filled(k).buf[j]] = [j \in 1 .. lens[c] |-> Cell(c, "buf", j - 1)]
      BY <3>1, <3>5
    <3>7. r + k = 4 + lens[c]
      BY <1>5, <3>2, <3>5
    <3>8. Size(c) = 4 + lens[c] /\ ~(4 + lens[c] <= 1)
      BY <1>4, <3>1
    <3> QED BY <3>4, <3>6, <3>7, <3>8
  <2>2. CASE reading = "data_header" /\ 0 \in LenRead(Filled(k))
    <3>1. lens[c] = 0
      BY <1>8, <2>2
    <3>2. Filled(k).buf = <<>> /\ r = 2 /\ k = 2
      BY <1>3, <1>4, <1>7, <2>2 DEF Has, ReadTo, Structures
    <3>3. [j \in 1 .. 0 |-> Cell(c, "buf", j - 1)] = <<>>
      OBVIOUS
    <3>4. Size(c) = 4
      BY <1>4, <3>1
    <3> QED BY <3>1, <3>2, <3>3, <3>4
  <2> QED BY <2>1, <2>2
<1>10. received' = Append(received, Filled(k)) /\ reading' = "header"
  BY DEF Returns
<1>11. received'[c] = Filled(k) /\ Len(received') = c /\ Filled(k) \in AnyMessage
  BY <1>1, <1>6, <1>10, FilledTypes
<1>12. Arrived(c)' /\ (c = Len(lens) => sending # "header")
  <2>1. c <= Len(lens) /\ Len(lens)' = Len(lens)
    BY <1>4, <1>5
  <2> QED BY <1>4, <1>5, <1>8, <1>9, <1>11, <2>1 DEF Arrived
<1>13. Current' = c + 1 /\ ReadTo' = 0
  BY <1>10, <1>11 DEF Current, ReadTo
<1> QED BY <1>4, <1>9, <1>12, <1>13

\* Reading keeps the place.
LEMMA ReadTracks ==
    ASSUME WireInv, NEW k \in 1 .. Capacity, Read(k) PROVE Tracks' /\ Held'
<1> SUFFICES ASSUME InPlace' PROVE (\E pm, po \in Places(Len(wire)') : Placed(pm, po)') /\ Held'
  BY DEF Tracks, Held
<1>1. ~overrun' /\ reading' # "closed" /\ ~PlaceLost(Len(received))' /\ (reading' \in Structures => to' = 0)
      /\ (reading' = "body" => ~Cut(Current, "data_header")')
  BY DEF InPlace
<1>2. /\ lens \in Seq(Lengths) /\ UNCHANGED <<lens, sending, from, remaining, torn>>
      /\ k \in Nat \ {0} /\ to \in Nat /\ hdr_size \in Nat /\ k <= hdr_size
      /\ reading \in Structures \cup {"body"}
      /\ "header" \in Structures /\ "data_header" \in Structures /\ "body" \notin Structures
  BY ReadValues DEF Structures
<1>3. \A m, p : Sent(m, p)' = Sent(m, p)
  BY <1>2, CutSame DEF Sent
\* Nothing is returned: the message and the place in it, before and after.
<1>4. ASSUME UNCHANGED received, reading \in Structures => k = hdr_size,
             reading = "body" => ~Cut(Current, "data_header")
      PROVE  \E c \in 1 .. Len(lens), r \in Nat :
                /\ c = Current /\ Current' = c /\ r = ReadTo /\ lens[c] \in Nat
                /\ Size(c) = 4 + (IF lens[c] \in 1 .. max_allocable_buffer THEN lens[c] ELSE 0)
                /\ r + k # Size(c) /\ ReadTo' = r + k => \E pm, po \in Places(Len(wire)') : Placed(pm, po)'
                /\ Has(c, Filled(k), reading, to + k)
                /\ reading \in Structures => k = 2 /\ to = 0
  <2>1. ~PlaceLost(Len(received))
    BY <1>1, <1>2, <1>4 DEF PlaceLost
  <2>2. InPlace /\ (reading \in Structures => k = 2 /\ to = 0)
    BY <1>1, <1>4, <2>1, PlaceBefore
  <2>3. PICK c \in 1 .. Len(lens), r \in Nat :
           /\ c = Current /\ r = ReadTo /\ lens[c] \in Nat
           /\ Size(c) = 4 + (IF lens[c] \in 1 .. max_allocable_buffer THEN lens[c] ELSE 0)
           /\ (IF r + k = Size(c) THEN Current' = c + 1 /\ ReadTo' = 0 ELSE Current' = c /\ ReadTo' = r + k)
                 => \E pm, po \in Places(Len(wire)') : Placed(pm, po)'
    BY <1>4, <2>2, ReadPlace
  <2>4. Current' = c /\ c \in Nat
    BY <1>4, <2>3 DEF Current
  <2>5. Has(c, Filled(k), reading, to + k)
    BY <1>4, <2>2, <2>3, <2>4, FilledHas
  <2> QED BY <2>2, <2>3, <2>4, <2>5
<1>5. ASSUME k < hdr_size, Expects(reading, hdr_size - k, Filled(k)),
             to' = to + (IF reading = "body" THEN k ELSE 2 * k)
      PROVE  (\E pm, po \in Places(Len(wire)') : Placed(pm, po)') /\ Held'
  <2>1. reading' = reading /\ msg' = Filled(k) /\ received' = received
    BY <1>5 DEF Expects
  <2>2. reading = "body"
    <3>1. reading \in Structures => to' # 0
      BY <1>2, <1>5
    <3> QED BY <1>1, <1>2, <2>1, <3>1
  <2>3. ~Cut(Current, "data_header")
    BY <1>1, <1>2, <2>1, <2>2 DEF Cut, Current
  <2>4. PICK c \in 1 .. Len(lens), r \in Nat :
           /\ c = Current /\ Current' = c /\ r = ReadTo /\ lens[c] \in Nat
           /\ Size(c) = 4 + (IF lens[c] \in 1 .. max_allocable_buffer THEN lens[c] ELSE 0)
           /\ r + k # Size(c) /\ ReadTo' = r + k => \E pm, po \in Places(Len(wire)') : Placed(pm, po)'
           /\ Has(c, Filled(k), reading, to + k)
    BY <1>2, <1>4, <2>1, <2>2, <2>3
  <2>5. /\ Len(Filled(k).buf) = lens[c] /\ lens[c] \in 1 .. max_allocable_buffer
        /\ \A j \in 1 .. to + k : Filled(k).buf[j] = Cell(c, "buf", j - 1)
        /\ Filled(k).op = Sent(c, 0) /\ Filled(k).sender = Sent(c, 1)
        /\ Filled(k).receiver = Sent(c, 2) /\ Filled(k).len = Sent(c, 3)
    BY <2>2, <2>4 DEF Has
  <2>6. r = 4 + to /\ to' = to + k /\ ReadTo' = 4 + to'
    BY <1>5, <2>1, <2>2, <2>4 DEF ReadTo
  <2>7. r + k # Size(c) /\ ReadTo' = r + k
    <3>1. to + hdr_size = lens[c]
      <4>1. to + hdr_size = Len(msg.buf) /\ Len(Filled(k).buf) = Len(msg.buf)
        BY <2>2, FilledTypes DEF WireInv, Reading
      <4> QED BY <2>5, <4>1
    <3>2. Size(c) = 4 + lens[c]
      BY <2>4, <2>5
    <3> QED BY <1>2, <1>5, <2>6, <3>1, <3>2
  <2>8. Held'
    <3>1. c <= Len(lens) /\ Len(lens)' = Len(lens)
      BY <1>2
    <3> QED BY <1>2, <1>3, <2>1, <2>2, <2>4, <2>5, <2>6, <3>1 DEF Held
  <2> QED BY <2>4, <2>7, <2>8
<1>6. ASSUME k = hdr_size, to' = 0, reading = "header", Expects("data_header", 2, Filled(k))
      PROVE  (\E pm, po \in Places(Len(wire)') : Placed(pm, po)') /\ Held'
  <2>1. reading' = "data_header" /\ msg' = Filled(k) /\ received' = received
    BY <1>6 DEF Expects
  <2>2. PICK c \in 1 .. Len(lens), r \in Nat :
           /\ c = Current /\ Current' = c /\ r = ReadTo /\ lens[c] \in Nat
           /\ Size(c) = 4 + (IF lens[c] \in 1 .. max_allocable_buffer THEN lens[c] ELSE 0)
           /\ r + k # Size(c) /\ ReadTo' = r + k => \E pm, po \in Places(Len(wire)') : Placed(pm, po)'
           /\ Has(c, Filled(k), reading, to + k) /\ k = 2
    BY <1>2, <1>4, <1>6, <2>1
  <2>3. Filled(k).op = Sent(c, 0) /\ Filled(k).sender = Sent(c, 1) /\ Filled(k).buf = <<>>
    BY <1>6, <2>2 DEF Has
  <2>4. r + k # Size(c) /\ ReadTo' = r + k
    <3>1. r = 0 /\ ReadTo' = 2
      BY <1>6, <2>1, <2>2 DEF ReadTo
    <3> QED BY <2>2, <3>1
  <2>5. Held'
    BY <1>3, <2>1, <2>2, <2>3 DEF Held
  <2> QED BY <2>2, <2>4, <2>5
<1>7. ASSUME k = hdr_size, to' = 0, Returns(Filled(k)),
             reading = "body" \/ (reading = "data_header" /\ 0 \in LenRead(Filled(k)))
      PROVE  (\E pm, po \in Places(Len(wire)') : Placed(pm, po)') /\ Held'
  <2>1. reading' = "header" /\ msg' = Blank /\ received' = Append(received, Filled(k))
    BY <1>7 DEF Returns
  <2>2. Len(received') = Current
    BY <2>1, FilledTypes DEF WireInv, Shapes, Current
  <2>3. ~PlaceLost(Current)
    BY <1>1, <1>2, <2>2 DEF PlaceLost
  <2>4. Held'
    BY <2>1 DEF Held, Blank
  <2> QED BY <1>1, <1>7, <2>3, <2>4, ReadReturns
<1>8. ASSUME k = hdr_size, to' = 0, reading = "data_header", NEW len \in LenRead(Filled(k)),
             len \in 1 .. max_allocable_buffer,
             Expects("body", len, [Filled(k) EXCEPT !.buf = [i \in 1 .. len |-> Unset]])
      PROVE  (\E pm, po \in Places(Len(wire)') : Placed(pm, po)') /\ Held'
  <2> DEFINE buf == [i \in 1 .. len |-> Unset]
  <2>1. reading' = "body" /\ msg' = [Filled(k) EXCEPT !.buf = buf] /\ received' = received
    BY <1>8 DEF Expects
  <2>2. Len(buf) = len /\ len \in Nat
    BY <1>8
  <2> HIDE DEF buf
  <2>3. PICK c \in 1 .. Len(lens), r \in Nat :
           /\ c = Current /\ Current' = c /\ r = ReadTo /\ lens[c] \in Nat
           /\ Size(c) = 4 + (IF lens[c] \in 1 .. max_allocable_buffer THEN lens[c] ELSE 0)
           /\ r + k # Size(c) /\ ReadTo' = r + k => \E pm, po \in Places(Len(wire)') : Placed(pm, po)'
           /\ Has(c, Filled(k), reading, to + k) /\ k = 2
    BY <1>2, <1>4, <1>8, <2>1
  <2>4. ~Cut(c, "data_header") /\ c \in Nat
    BY <1>1, <1>2, <2>1, <2>3 DEF Cut
  <2>5. /\ Filled(k).op = Sent(c, 0) /\ Filled(k).sender = Sent(c, 1)
        /\ Filled(k).receiver = Sent(c, 2) /\ Filled(k).len = Sent(c, 3)
    BY <1>8, <2>3 DEF Has
  <2>6. len = lens[c]
    BY <1>8, <2>4, <2>5, LengthRead
  <2>7. r + k # Size(c) /\ ReadTo' = r + k
    <3>1. r = 2 /\ ReadTo' = 4
      BY <1>8, <2>1, <2>3 DEF ReadTo
    <3> QED BY <1>8, <2>3, <2>6, <3>1
  <2>8. /\ msg'.buf = buf /\ msg'.op = Filled(k).op /\ msg'.sender = Filled(k).sender
        /\ msg'.receiver = Filled(k).receiver /\ msg'.len = Filled(k).len
    BY <2>1, FilledTypes DEF AnyMessage
  <2>9. Held'
    <3>1. c <= Len(lens) /\ Len(lens)' = Len(lens) /\ 1 .. to' = {}
      BY <1>2, <1>8
    <3> QED BY <1>2, <1>3, <2>1, <2>2, <2>3, <2>5, <2>6, <2>8, <3>1 DEF Held
  <2> QED BY <2>3, <2>7, <2>9
<1>9. ~Fails(Filled(k))
  BY <1>1 DEF Fails
<1> QED BY <1>5, <1>6, <1>7, <1>8, <1>9, Outcomes

\* Cells are read, and perhaps a message returned.
LEMMA ReadStep == ASSUME WireInv, NEW k \in 1 .. Capacity, Read(k) PROVE WireInv'
<1>1. Past'
  <2> SUFFICES ASSUME ~overrun', NEW i \in DOMAIN received', ~PlaceLost(i)'
               PROVE  Arrived(i)' /\ (i = Len(lens)' => sending' # "header")
    BY DEF Past
  <2>1. UNCHANGED <<lens, sending, from, remaining, torn>> /\ ~overrun
    BY ReadValues
  <2>2. ~PlaceLost(i)
    BY <2>1 DEF PlaceLost
  <2>3. received \in Seq(AnyMessage) /\ Filled(k) \in AnyMessage
    BY FilledTypes DEF WireInv, Shapes
  <2>4. ASSUME i \in DOMAIN received, received'[i] = received[i]
        PROVE  Arrived(i)' /\ (i = Len(lens)' => sending' # "header")
    <3>1. Arrived(i) /\ (i = Len(lens) => sending # "header")
      BY <2>1, <2>2, <2>4 DEF WireInv, Past
    <3> QED BY <2>1, <2>4, <3>1 DEF Arrived
  <2>5. CASE received' = received
    BY <2>4, <2>5
  <2>6. CASE Returns(Filled(k)) /\ received' # received
    <3>1. received' = Append(received, Filled(k))
      BY <2>6 DEF Returns
    <3>2. CASE i \in DOMAIN received
      <4>1. received'[i] = received[i]
        BY <2>3, <3>1, <3>2
      <4> QED BY <2>4, <3>2, <4>1
    <3>3. CASE i \notin DOMAIN received
      <4>1. i = Current
        BY <2>3, <3>1, <3>3 DEF Current
      <4>2. /\ k = hdr_size /\ to' = 0
            /\ reading = "body" \/ (reading = "data_header" /\ 0 \in LenRead(Filled(k)))
        BY <2>6, Outcomes DEF Expects, Fails
      <4> QED BY <2>1, <2>2, <2>6, <4>1, <4>2, ReadReturns
    <3> QED BY <3>2, <3>3
  <2> QED BY <2>5, <2>6, Outcomes DEF Expects, Fails
<1> QED BY <1>1, ReadTypes, ReadTracks DEF WireInv

\* The reader closes its end: it has no place any more.
LEMMA FailsStep == ASSUME WireInv, EndOfStream \/ GiveUp PROVE WireInv'
<1>1. /\ reading' = "closed" /\ hdr_size' = 0 /\ msg' = msg /\ received' = received
      /\ UNCHANGED <<to, overrun, wire, lens, sending, from, remaining, torn>>
  BY DEF EndOfStream, GiveUp, Fails, senderVars
<1>2. SenderTypes /\ ReaderTypes /\ WireTypes
  BY Types DEF WireInv
<1>3. WireTypeOK'
  <2>1. Cells' = Cells
    BY <1>1 DEF Cells
  <2>2. SenderTypes' /\ WireTypes'
    BY <1>1, <1>2, <2>1 DEF SenderTypes, WireTypes
  <2>3. ReaderTypes'
    BY <1>1, <1>2, <2>1 DEF ReaderTypes
  <2> QED BY <2>2, <2>3 DEF WireTypeOK, SenderTypes, ReaderTypes, WireTypes
<1>4. Shapes' /\ Sending' /\ Reading'
  BY <1>1 DEF WireInv, Shapes, Sending, Reading, Structures, Cut
<1>5. Tracks' /\ Held'
  BY <1>1 DEF Tracks, Held, InPlace
<1>6. Past'
  BY <1>1 DEF WireInv, Past, Arrived, PlaceLost
<1> QED BY <1>3, <1>4, <1>5, <1>6 DEF WireInv

\* The invariant of the connection, and the two properties that follow from it.
THEOREM WireInvariant == WireSpec => []WireInv
<1>1. WireInv /\ [WireNext]_wireVars => WireInv'
  <2> SUFFICES ASSUME WireInv, [WireNext]_wireVars PROVE WireInv'
    OBVIOUS
  <2>1. ASSUME NEW len \in Lengths, Request(len) PROVE WireInv'
    BY <2>1, RequestStep
  <2>2. ASSUME NEW k \in 1 .. Capacity, Write(k) PROVE WireInv'
    BY <2>2, WriteStep
  <2>3. ASSUME WriteFails \/ HangUp PROVE WireInv'
    BY <2>3, CloseStep
  <2>4. ASSUME NEW k \in 1 .. Capacity, Read(k) PROVE WireInv'
    BY <2>4, ReadStep
  <2>5. ASSUME EndOfStream \/ GiveUp PROVE WireInv'
    BY <2>5, FailsStep
  <2>6. ASSUME UNCHANGED wireVars PROVE WireInv'
    <3>1. UNCHANGED <<lens, sending, from, remaining, torn, wire, reading, to, hdr_size, msg, received, overrun>>
      BY <2>6 DEF wireVars, senderVars, readerVars
    <3>2. WireTypeOK' /\ Shapes' /\ Sending' /\ Reading'
      BY <3>1 DEF WireInv, WireTypeOK, Cells, Shapes, Sending, Reading, Cut
    <3>3. /\ \A m : Size(m)' = Size(m)
          /\ \A m, p : Sent(m, p)' = Sent(m, p)
          /\ Sizes' = Sizes /\ Current' = Current /\ ReadTo' = ReadTo /\ (InPlace' <=> InPlace)
          /\ SentMessage' = SentMessage /\ SentTo' = SentTo
      BY <3>1 DEF Size, Sent, Cut, Sizes, Current, ReadTo, InPlace, PlaceLost, SentMessage, SentTo
    <3>4. Tracks'
      <4> SUFFICES ASSUME InPlace PROVE \E pm, po \in Places(Len(wire)) : Placed(pm, po)'
        BY <3>1, <3>3 DEF Tracks
      <4>1. PICK pm, po \in Places(Len(wire)) : Placed(pm, po)
        BY DEF WireInv, Tracks
      <4>2. Placed(pm, po)'
        BY <3>1, <3>3, <4>1 DEF Placed
      <4> QED BY <4>2
    <3>5. Held' /\ Past'
      BY <3>1, <3>3 DEF WireInv, Held, Past, Arrived, PlaceLost
    <3> QED BY <3>2, <3>4, <3>5 DEF WireInv
  <2> QED BY <2>1, <2>2, <2>3, <2>4, <2>5, <2>6 DEF WireNext, Sender, Reader
<1> QED BY <1>1, InitWire, PTL DEF WireSpec

\* connections.c: no body longer than max_allocable_buffer is ever being
\* written, expected or held.
THEOREM WireTypeCorrect == WireSpec => []WireTypeOK
<1>1. WireInv => WireTypeOK
  BY DEF WireInv
<1> QED BY <1>1, WireInvariant, PTL

\* connections.c: readMsg returns what sendRequest sent, in its order, unless a
\* part was read in pieces, or a data header written in pieces.
THEOREM MessagesArrive == WireSpec => []ReadAsSent
<1>1. WireInv => ReadAsSent
  BY DEF WireInv, Past, ReadAsSent
<1> QED BY <1>1, WireInvariant, PTL

-----------------------------------------------------------------------------
(* Who writes on a descriptor: the write lock.                             *)

USE NoSlavesAssumption, VoidFdAssumption, MaxSendsAssumption, SpuriousAssumption

LEMMA SlavesAreIntegers == Slaves \subseteq Int
  BY DEF Slaves

\* The variables keep their types (slaves.c:53-57, 67-135).
THEOREM TypeCorrect == Spec => []TypeOK
<1>1. Init => TypeOK
  BY DEF Init, TypeOK, PCs
<1>2. TypeOK /\ [Next]_vars => TypeOK'
  <2> SUFFICES ASSUME TypeOK, [Next]_vars PROVE TypeOK'
    OBVIOUS
  <2> USE DEF TypeOK, PCs
  <2>1. ASSUME NEW t \in Slaves, NEW fd \in Fds, NEW f \in {"ack", "message"},
               Start(t, fd, f)
        PROVE  TypeOK'
    <3>1. sent' \in [Slaves -> 0 .. MaxSends]
      BY <2>1 DEF Start
    <3>2. CASE Reserve(t, fd)
      BY <2>1, <3>1, <3>2 DEF Start, Reserve
    <3>3. CASE GoToSleep(t)
      BY <2>1, <3>1, <3>3 DEF Start, GoToSleep
    <3> QED BY <2>1, <3>2, <3>3 DEF Start
  <2>2. ASSUME NEW t \in Slaves, Rescan(t) PROVE TypeOK'
    BY <2>2 DEF Rescan, Reserve, GoToSleep
  <2>3. ASSUME NEW t \in Slaves, WriteHeader(t) PROVE TypeOK'
    BY <2>3 DEF WriteHeader
  <2>4. ASSUME NEW t \in Slaves, WriteData(t) PROVE TypeOK'
    BY <2>4 DEF WriteData
  <2>5. ASSUME NEW t \in Slaves, Stop(t) PROVE TypeOK'
    BY <2>5 DEF Stop
  <2>6. ASSUME NEW t \in Slaves, SpuriousWakeup(t) PROVE TypeOK'
    BY <2>6 DEF SpuriousWakeup
  <2>7. CASE UNCHANGED vars
    BY <2>7 DEF vars
  <2> QED
    BY <2>1, <2>2, <2>3, <2>4, <2>5, <2>6, <2>7 DEF Next, Slave
<1> QED
  BY <1>1, <1>2, PTL DEF Spec

\* An entry of writing_fd is set exactly while its slave is between
\* start_safe_writing and stop_safe_writing (slaves.c:82, 96).
THEOREM TableTruth == Spec => []TableMatches
<1>1. Init => TableMatches
  BY DEF Init, TableMatches, InSafeWriting
<1>2. TypeOK /\ TableMatches /\ [Next]_vars => TableMatches'
  <2> SUFFICES ASSUME TypeOK, TableMatches, [Next]_vars PROVE TableMatches'
    OBVIOUS
  <2> USE DEF TypeOK, PCs, TableMatches, InSafeWriting
  <2>1. ASSUME NEW t \in Slaves, NEW fd \in Fds, NEW f \in {"ack", "message"},
               Start(t, fd, f)
        PROVE  TableMatches'
    <3>1. CASE Reserve(t, fd)
      BY <2>1, <3>1 DEF Start, Reserve
    <3>2. CASE GoToSleep(t)
      BY <2>1, <3>2 DEF Start, GoToSleep
    <3> QED BY <2>1, <3>1, <3>2 DEF Start
  <2>2. ASSUME NEW t \in Slaves, Rescan(t) PROVE TableMatches'
    BY <2>2 DEF Rescan, Reserve, GoToSleep
  <2>3. ASSUME NEW t \in Slaves, WriteHeader(t) PROVE TableMatches'
    BY <2>3 DEF WriteHeader
  <2>4. ASSUME NEW t \in Slaves, WriteData(t) PROVE TableMatches'
    BY <2>4 DEF WriteData
  <2>5. ASSUME NEW t \in Slaves, Stop(t) PROVE TableMatches'
    BY <2>5 DEF Stop
  <2>6. ASSUME NEW t \in Slaves, SpuriousWakeup(t) PROVE TableMatches'
    BY <2>6 DEF SpuriousWakeup
  <2>7. CASE UNCHANGED vars
    BY <2>7 DEF vars
  <2> QED
    BY <2>1, <2>2, <2>3, <2>4, <2>5, <2>6, <2>7 DEF Next, Slave
<1> QED
  BY <1>1, <1>2, TypeCorrect, PTL DEF Spec

\* A slave that reserves fd at index above `first` finds nobody else there.
LEMMA ReserveAlone ==
  ASSUME TypeOK, TableMatches,
         NEW t \in Slaves \ {0}, NEW fd \in Fds, NEW first \in {0, 1},
         ~BusyFrom(first, t, fd),
         NEW s \in Slaves \ {0}, s # t, InSafeWriting(s)
  PROVE  want[s] # fd
<1>1. s >= first /\ s \in Slaves
  BY DEF Slaves
<1>2. writing_fd[s] # fd
  BY <1>1 DEF BusyFrom
<1>3. writing_fd[s] = want[s]
  BY <1>1 DEF TableMatches
<1> QED
  BY <1>2, <1>3

\* Slaves other than slave 0 never write on one descriptor together, whatever
\* the waits and the broadcasts do (slaves.c:67-84).
THEOREM Exclusion == Spec => []ExclusionAboveSlave0
<1>1. Init => ExclusionAboveSlave0
  BY DEF Init, ExclusionAboveSlave0, InSafeWriting
<1>2. TypeOK /\ TableMatches /\ ExclusionAboveSlave0 /\ [Next]_vars
        => ExclusionAboveSlave0'
  <2> SUFFICES ASSUME TypeOK, TableMatches, ExclusionAboveSlave0, [Next]_vars,
                      NEW s \in Slaves \ {0}, NEW u \in Slaves \ {0}, s # u,
                      InSafeWriting(s)', InSafeWriting(u)'
               PROVE  want[s]' # want[u]'
    BY DEF ExclusionAboveSlave0
  <2>0. s \in Slaves /\ u \in Slaves
    OBVIOUS
  <2>1. ASSUME NEW t \in Slaves, NEW fd \in Fds, NEW f \in {"ack", "message"},
               Start(t, fd, f)
        PROVE  want[s]' # want[u]'
    <3>1. CASE t = s
      <4>1. ~BusyFrom(0, s, fd) /\ Reserve(s, fd) /\ want'[s] = fd
        BY <2>0, <2>1, <3>1 DEF Start, GoToSleep, InSafeWriting, FirstIndex, TypeOK
      <4>2. InSafeWriting(u) /\ want'[u] = want[u]
        BY <2>0, <2>1, <3>1, <4>1 DEF Start, Reserve, InSafeWriting, TypeOK
      <4> QED BY <2>0, <4>1, <4>2, ReserveAlone
    <3>2. CASE t = u
      <4>1. ~BusyFrom(0, u, fd) /\ Reserve(u, fd) /\ want'[u] = fd
        BY <2>0, <2>1, <3>2 DEF Start, GoToSleep, InSafeWriting, FirstIndex, TypeOK
      <4>2. InSafeWriting(s) /\ want'[s] = want[s]
        BY <2>0, <2>1, <3>2, <4>1 DEF Start, Reserve, InSafeWriting, TypeOK
      <4> QED BY <2>0, <4>1, <4>2, ReserveAlone
    <3>3. CASE t # s /\ t # u
      BY <2>0, <2>1, <3>3
      DEF Start, Reserve, GoToSleep, InSafeWriting, TypeOK, ExclusionAboveSlave0
    <3> QED BY <3>1, <3>2, <3>3
  <2>2. ASSUME NEW t \in Slaves, Rescan(t) PROVE want[s]' # want[u]'
    <3>0. want' = want /\ want[t] \in Fds
      BY <2>2 DEF Rescan, TableMatches
    <3>1. CASE t = s
      <4>1. ~BusyFrom(1, s, want[s]) /\ Reserve(s, want[s])
        BY <2>0, <2>2, <3>1 DEF Rescan, GoToSleep, InSafeWriting, RescanIndex, TypeOK
      <4>2. InSafeWriting(u)
        BY <2>0, <3>1, <4>1 DEF Reserve, InSafeWriting, TypeOK
      <4> QED BY <2>0, <3>0, <3>1, <4>1, <4>2, ReserveAlone
    <3>2. CASE t = u
      <4>1. ~BusyFrom(1, u, want[u]) /\ Reserve(u, want[u])
        BY <2>0, <2>2, <3>2 DEF Rescan, GoToSleep, InSafeWriting, RescanIndex, TypeOK
      <4>2. InSafeWriting(s)
        BY <2>0, <3>2, <4>1 DEF Reserve, InSafeWriting, TypeOK
      <4> QED BY <2>0, <3>0, <3>2, <4>1, <4>2, ReserveAlone
    <3>3. CASE t # s /\ t # u
      BY <2>0, <2>2, <3>0, <3>3
      DEF Rescan, Reserve, GoToSleep, InSafeWriting, TypeOK, ExclusionAboveSlave0
    <3> QED BY <3>1, <3>2, <3>3
  <2>3. ASSUME NEW t \in Slaves, WriteHeader(t) PROVE want[s]' # want[u]'
    BY <2>0, <2>3 DEF WriteHeader, InSafeWriting, TypeOK, ExclusionAboveSlave0
  <2>4. ASSUME NEW t \in Slaves, WriteData(t) PROVE want[s]' # want[u]'
    BY <2>0, <2>4 DEF WriteData, InSafeWriting, TypeOK, ExclusionAboveSlave0
  <2>5. ASSUME NEW t \in Slaves, Stop(t) PROVE want[s]' # want[u]'
    BY <2>0, <2>5 DEF Stop, InSafeWriting, TypeOK, ExclusionAboveSlave0
  <2>6. ASSUME NEW t \in Slaves, SpuriousWakeup(t) PROVE want[s]' # want[u]'
    BY <2>0, <2>6 DEF SpuriousWakeup, InSafeWriting, TypeOK, ExclusionAboveSlave0
  <2>7. CASE UNCHANGED vars
    BY <2>0, <2>7 DEF vars, InSafeWriting, ExclusionAboveSlave0
  <2> QED
    BY <2>1, <2>2, <2>3, <2>4, <2>5, <2>6, <2>7 DEF Next, Slave
<1> QED
  BY <1>1, <1>2, TypeCorrect, TableTruth, PTL DEF Spec

\* When a scan finds fd taken, its holder is inside its safe writing.
LEMMA BusyHasHolder ==
  ASSUME TypeOK, TableMatches, NEW t \in Slaves, NEW fd \in Fds, NEW first \in Int,
         BusyFrom(first, t, fd)
  PROVE  \E s \in Slaves \ {t} : InSafeWriting(s) /\ want[s] = fd
  BY DEF BusyFrom, TableMatches

\* A slave sleeps in start_safe_writing only while another one holds the
\* descriptor it wants (slaves.c:76-80, 96-97).
THEOREM WakeupsKept == Spec => []NoLostWakeup
<1>1. Init => NoLostWakeup
  BY DEF Init, NoLostWakeup
<1>2. TypeOK /\ TableMatches /\ NoLostWakeup /\ [Next]_vars => NoLostWakeup'
  <2> SUFFICES ASSUME TypeOK, TableMatches, NoLostWakeup, [Next]_vars,
                      NEW u \in Slaves, pc'[u] = "blocked"
               PROVE  \E s \in Slaves \ {u} : InSafeWriting(s)' /\ want'[s] = want'[u]
    BY DEF NoLostWakeup
  <2>1. ASSUME NEW t \in Slaves, NEW fd \in Fds, NEW f \in {"ack", "message"},
               Start(t, fd, f)
        PROVE  \E s \in Slaves \ {u} : InSafeWriting(s)' /\ want'[s] = want'[u]
    <3>1. CASE t = u
      <4>1. GoToSleep(u) /\ BusyFrom(0, u, fd) /\ want' = [want EXCEPT ![u] = fd]
        BY <2>1, <3>1 DEF Start, Reserve, FirstIndex, TypeOK
      <4>2. PICK s \in Slaves \ {u} : InSafeWriting(s) /\ want[s] = fd
        BY <4>1, BusyHasHolder
      <4> QED BY <4>1, <4>2 DEF GoToSleep, InSafeWriting, TypeOK
    <3>2. CASE t # u
      <4>1. pc[u] = "blocked" /\ want'[u] = want[u]
        BY <2>1, <3>2 DEF Start, Reserve, GoToSleep, TypeOK
      <4>2. PICK s \in Slaves \ {u} : InSafeWriting(s) /\ want[s] = want[u]
        BY <4>1 DEF NoLostWakeup
      <4>3. s # t
        BY <2>1, <4>2 DEF Start, InSafeWriting
      <4> QED
        BY <2>1, <4>1, <4>2, <4>3 DEF Start, Reserve, GoToSleep, InSafeWriting, TypeOK
    <3> QED BY <3>1, <3>2
  <2>2. ASSUME NEW t \in Slaves, Rescan(t)
        PROVE  \E s \in Slaves \ {u} : InSafeWriting(s)' /\ want'[s] = want'[u]
    <3>0. want' = want /\ want[t] \in Fds
      BY <2>2 DEF Rescan, TableMatches
    <3>1. CASE t = u
      <4>1. GoToSleep(u) /\ BusyFrom(1, u, want[u])
        BY <2>2, <3>1 DEF Rescan, Reserve, RescanIndex, TypeOK
      <4>2. PICK s \in Slaves \ {u} : InSafeWriting(s) /\ want[s] = want[u]
        BY <3>0, <3>1, <4>1, BusyHasHolder
      <4> QED BY <3>0, <4>1, <4>2 DEF GoToSleep, InSafeWriting, TypeOK
    <3>2. CASE t # u
      <4>1. pc[u] = "blocked"
        BY <2>2, <3>2 DEF Rescan, Reserve, GoToSleep, TypeOK
      <4>2. PICK s \in Slaves \ {u} : InSafeWriting(s) /\ want[s] = want[u]
        BY <4>1 DEF NoLostWakeup
      <4>3. s # t
        BY <2>2, <4>2 DEF Rescan, InSafeWriting
      <4> QED
        BY <2>2, <3>0, <4>2, <4>3 DEF Rescan, Reserve, GoToSleep, InSafeWriting, TypeOK
    <3> QED BY <3>1, <3>2
  <2>3. ASSUME NEW t \in Slaves, WriteHeader(t)
        PROVE  \E s \in Slaves \ {u} : InSafeWriting(s)' /\ want'[s] = want'[u]
    <3>1. PICK s \in Slaves \ {u} : InSafeWriting(s) /\ want[s] = want[u]
      BY <2>3 DEF NoLostWakeup, WriteHeader, TypeOK
    <3> QED BY <2>3, <3>1 DEF WriteHeader, InSafeWriting, TypeOK
  <2>4. ASSUME NEW t \in Slaves, WriteData(t)
        PROVE  \E s \in Slaves \ {u} : InSafeWriting(s)' /\ want'[s] = want'[u]
    <3>1. PICK s \in Slaves \ {u} : InSafeWriting(s) /\ want[s] = want[u]
      BY <2>4 DEF NoLostWakeup, WriteData, TypeOK
    <3> QED BY <2>4, <3>1 DEF WriteData, InSafeWriting, TypeOK
  <2>5. ASSUME NEW t \in Slaves, Stop(t)
        PROVE  \E s \in Slaves \ {u} : InSafeWriting(s)' /\ want'[s] = want'[u]
    \* everybody is woken: nobody is asleep after this step
    BY <2>5 DEF Stop, TypeOK
  <2>6. ASSUME NEW t \in Slaves, SpuriousWakeup(t)
        PROVE  \E s \in Slaves \ {u} : InSafeWriting(s)' /\ want'[s] = want'[u]
    <3>1. PICK s \in Slaves \ {u} : InSafeWriting(s) /\ want[s] = want[u]
      BY <2>6 DEF NoLostWakeup, SpuriousWakeup, TypeOK
    <3> QED BY <2>6, <3>1 DEF SpuriousWakeup, InSafeWriting, TypeOK
  <2>7. CASE UNCHANGED vars
    BY <2>7 DEF vars, NoLostWakeup, InSafeWriting
  <2> QED
    BY <2>1, <2>2, <2>3, <2>4, <2>5, <2>6, <2>7 DEF Next, Slave
<1> QED
  BY <1>1, <1>2, TypeCorrect, TableTruth, PTL DEF Spec

\* A slave that reserves a descriptor somebody is writing on had been waiting
\* for it, and the one writing is slave 0 (slaves.c:74-82).
THEOREM IntrusionsAreRescans == Spec => OnlyRescanOverSlave0
<1> DEFINE Intrudes(s, t) == /\ s # t
                             /\ writing_fd[t] = VOID_FD
                             /\ writing_fd'[t] \in Fds
                             /\ writing_fd[s] = writing_fd'[t]
<1>1. ASSUME TypeOK, Next, NEW s \in Slaves, NEW t \in Slaves, Intrudes(s, t)
      PROVE  s = 0 /\ pc[t] = "woken"
  <2>1. ASSUME NEW u \in Slaves, NEW fd \in Fds, NEW f \in {"ack", "message"},
               Start(u, fd, f)
        PROVE  FALSE
    <3>1. u = t /\ ~BusyFrom(0, t, fd) /\ writing_fd'[t] = fd
      BY <1>1, <2>1 DEF Start, Reserve, GoToSleep, FirstIndex, TypeOK
    <3> QED BY <1>1, <3>1 DEF BusyFrom, Slaves
  <2>2. ASSUME NEW u \in Slaves, Rescan(u) PROVE s = 0 /\ pc[t] = "woken"
    <3>1. /\ u = t /\ pc[t] = "woken"
          /\ ~BusyFrom(1, t, want[t]) /\ writing_fd'[t] = want[t]
      BY <1>1, <2>2 DEF Rescan, Reserve, GoToSleep, RescanIndex, TypeOK
    <3> QED BY <1>1, <3>1 DEF BusyFrom, Slaves
  <2>3. ASSUME NEW u \in Slaves,
               WriteHeader(u) \/ WriteData(u) \/ Stop(u) \/ SpuriousWakeup(u)
        PROVE  FALSE
    BY <1>1, <2>3 DEF WriteHeader, WriteData, Stop, SpuriousWakeup, TypeOK
  <2> QED
    BY <1>1, <2>1, <2>2, <2>3 DEF Next, Slave
<1>2. TypeOK /\ [Next]_vars
        => [\A s, t \in Slaves : Intrudes(s, t) => s = 0 /\ pc[t] = "woken"]_vars
  BY <1>1
<1> QED
  BY <1>2, TypeCorrect, PTL DEF Spec, OnlyRescanOverSlave0
=============================================================================
