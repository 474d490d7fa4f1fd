------------------------------ MODULE ChirpLink ------------------------------
(***************************************************************************)
(* The way of messages from one Chirp to another over an error-corrected   *)
(* link, as USBLink is: sendFull sends CRP_MAX_HEADER_LEN bytes and then,  *)
(* if there are more, the rest, and both are repeated when a transfer      *)
(* fails; recvFull looks for a start code and then waits for the length it *)
(* finds.  The link carries packets of at most CRP_MAX_HEADER_LEN bytes in *)
(* their order; a transfer ends with a shorter packet or with all that was *)
(* asked for.                                                              *)
(***************************************************************************)
EXTENDS ChirpCodec, FiniteSets

CONSTANTS
  CRP_MAX_HEADER_LEN,   \* bytes of the first transfer
  m_retries,
  Messages,             \* what may be sent: "call", "response" or "xdata", and arguments
  MaxMessages           \* bound: messages sent

\* A message has a type and arguments.  A list may have too many scalars, which
\* deserializeParse counts one by one; but no array is such that its two pointers, behind
\* the integer of a response, could pass CRP_MAX_ARGS, which deserializeParse would not
\* notice.
IsMessage(msg) ==
  /\ msg = [type |-> msg.type, args |-> msg.args]
  /\ msg.type \in {"call", "response", "xdata"}
  /\ msg.args = [a \in 1..Len(msg.args) |-> msg.args[a]] /\ Len(msg.args) \in Nat
  /\ \A a \in 1..Len(msg.args) :
       /\ IsArg(msg.args[a])
       /\ msg.args[a].kind = "array" =>
            2 * a + (IF msg.type = "response" THEN 1 ELSE 0) <= CRP_MAX_ARGS

\* The buffer holds at first the header, the response integer and what vserialize leaves
\* free behind them.
ASSUME LinkAssumption ==
  /\ CRP_MAX_HEADER_LEN \in Nat /\ CRP_BUFSIZE \in Nat /\ CRP_MAX_ARGS \in Nat \ {0}
  /\ m_headerLen < CRP_MAX_HEADER_LEN /\ CRP_MAX_HEADER_LEN <= CRP_BUFSIZE
  /\ m_headerLen + 4 + CRP_BUFPAD <= CRP_BUFSIZE
  /\ m_retries \in Nat \ {0} /\ MaxMessages \in Nat \ {0}
  /\ \A msg \in Messages : IsMessage(msg)

VARIABLES
  hinformer,        \* m_hinformer of the sender
  sent,             \* history: the messages given to sendChirpRetry so far, and the bytes
                    \* each was assembled to
  sender,           \* "idle", "header" or "body": what it sends next
  m_buf,            \* its buffer: what vserialize left there
  attempts,         \* how often each message was begun
  link,             \* the packets under way; history: of which attempt at which message, and
                    \* how many of its bytes come before
  receiver,         \* "header" or "body": what it waits for
  got, want,        \* the bytes it has of this message, and the length of all
  accepted,         \* history: what deserializeParse found in each message that arrived,
                    \* with which packet it was complete, and what was wrong then
  reported,         \* history: the messages reported as sent
  fault,            \* history: "none"; "missed", a receive gave up within a message or a
                    \* list was too long; "damaged", a long message was broken off
  calm              \* history: the first message sent when nothing was under way

senderVars == <<sent, sender, m_buf, attempts, reported>>
receiverVars == <<receiver, got, want, accepted>>
vars == <<hinformer, senderVars, receiverVars, link, fault, calm>>

Empty == [bytes |-> <<>>, room |-> 0, bufSize |-> CRP_BUFSIZE, held |-> TRUE]

Init ==
  /\ hinformer \in BOOLEAN
  /\ sent = <<>> /\ sender = "idle" /\ m_buf = Empty /\ attempts = <<>>
  /\ link = <<>>
  /\ receiver = "header" /\ got = <<>> /\ want = 0
  /\ accepted = <<>> /\ reported = {} /\ fault = "none" /\ calm = 1

-----------------------------------------------------------------------------
(* The sender.                                                             *)

\* The header, with the response integer behind it in a response.
Header(m, type, len) ==
  <<[is |-> "start"]>>
    \o [k \in 1..m_headerLen - 1 |-> [is |-> "header", message |-> type, length |-> len]]
    \o (IF type = "response" THEN DataBytes(m, 0, 4) ELSE <<>>)

\* vassemble, into the buffer as far as it has grown, and sendFull's header.
Assembled(m, msg) ==
  LET list == [m |-> m, args |-> msg.args, hinformer |-> hinformer]
      out == vserialize(list, Header(m, msg.type, 0), m_buf.bufSize)
      header == Header(m, msg.type, Len(out.bytes) - m_headerLen)
  IN [out EXCEPT !.bytes = header \o SubSeq(@, Len(header) + 1, Len(@))]

Quiet == sender = "idle" /\ link = <<>> /\ receiver = "header"

\* Extra data without any data is not sent.
Send(msg) ==
  /\ sender = "idle" /\ Len(sent) < MaxMessages
  /\ m_buf' = Assembled(Len(sent) + 1, msg)
  /\ sent' = Append(sent, [msg |-> msg, bytes |-> m_buf'.bytes]) /\ attempts' = Append(attempts, 1)
  /\ sender' = IF Len(m_buf'.bytes) = m_headerLen /\ msg.type # "call" THEN "idle" ELSE "header"
  /\ IF Quiet THEN fault' = "none" /\ calm' = Len(sent) + 1 ELSE UNCHANGED <<fault, calm>>
  /\ UNCHANGED <<hinformer, receiverVars, reported, link>>

IsLong == Len(m_buf.bytes) > CRP_MAX_HEADER_LEN

Packet(at, bytes) == [m |-> Len(sent), try |-> Last(attempts), at |-> at, bytes |-> bytes]

\* The first transfer goes beyond the end of a short message.
HeaderPacket == Packet(0, SubSeq(m_buf.bytes \o Padding(CRP_MAX_HEADER_LEN), 1, CRP_MAX_HEADER_LEN))

BodyPackets ==
  LET len == Len(m_buf.bytes)
      count == Align(len - CRP_MAX_HEADER_LEN, CRP_MAX_HEADER_LEN) \div CRP_MAX_HEADER_LEN
      packet(at) == Packet(at, SubSeq(m_buf.bytes, at + 1, Min({at + CRP_MAX_HEADER_LEN, len})))
  IN [p \in 1..count |-> packet(p * CRP_MAX_HEADER_LEN)]

TransferOk ==
  /\ sender' = IF sender = "header" /\ IsLong THEN "body" ELSE "idle"
  /\ reported' = IF sender' = "idle" THEN reported \cup {Len(sent)} ELSE reported
  /\ UNCHANGED <<attempts, fault>>

\* Mutant: a message is begun once more than m_retries.
Again_OneMore == Last(attempts) <= m_retries

Again == Last(attempts) < m_retries

\* Mutant: one more attempt is made without being counted.
TransferFails_Uncounted(packets, carried) ==
  /\ sender' = IF Again THEN "header" ELSE "idle"
  /\ fault' = IF IsLong /\ (IF sender = "header" THEN carried > 0 ELSE carried < Len(packets))
                THEN "damaged" ELSE fault
  /\ UNCHANGED <<attempts, reported>>

\* sendChirpRetry begins again with the header, or gives up.  A long message is broken
\* off if the other side may have its header and not all that follows.
TransferFails(packets, carried) ==
  /\ IF Again
       THEN sender' = "header" /\ attempts' = [attempts EXCEPT ![Len(sent)] = @ + 1]
       ELSE sender' = "idle" /\ UNCHANGED attempts
  /\ fault' = IF IsLong /\ (IF sender = "header" THEN carried > 0 ELSE carried < Len(packets))
                THEN "damaged" ELSE fault
  /\ UNCHANGED reported

\* A transfer carries all its packets, or fails having carried some or even all of them.
Transfer(packets) ==
  /\ \/ TransferOk /\ link' = link \o packets
     \/ \E carried \in 0..Len(packets) :
          TransferFails(packets, carried) /\ link' = link \o SubSeq(packets, 1, carried)
  /\ UNCHANGED <<hinformer, sent, m_buf, receiverVars, calm>>

SendHeader == sender = "header" /\ Transfer(<<HeaderPacket>>)

SendBody == sender = "body" /\ Transfer(BodyPackets)

-----------------------------------------------------------------------------
(* The receiver.                                                           *)

AwaitHeader == receiver' = "header" /\ got' = <<>> /\ want' = 0

Missed == fault' = IF fault = "none" THEN "missed" ELSE fault

\* Where the arguments begin: in a response with the response integer, whose type is
\* written over the end of the header.
Offset(type) == IF type = "response" THEN m_headerLen - 4 ELSE m_headerLen

\* What recvChirp finds in the bytes of a message.
FoundIn(bytes) ==
  LET type == bytes[2].message
      typed == [k \in 1..Len(bytes) |-> IF type = "response" /\ k \in {m_headerLen - 3, m_headerLen}
                                          THEN TypeByte(RespInt) ELSE bytes[k]]
  IN Parse(SubSeq(typed, Offset(type) + 1, Len(typed)))

\* recvChirp: the arguments of a message that has arrived with packet p, or an error.
Accept(p, bytes) ==
  /\ AwaitHeader
  /\ IF TooMany \in ToSet(FoundIn(bytes))
       THEN Missed /\ UNCHANGED accepted
       ELSE /\ accepted' = Append(accepted, [m |-> p.m, try |-> p.try, found |-> FoundIn(bytes), fault |-> fault])
            /\ UNCHANGED fault

IsHeader(bytes) == bytes[1] = [is |-> "start"]

\* Mutant: a message that just fills the first transfer waits for more.
FitsIn_Less(len, bytes) == len < Len(bytes)

FitsIn(len, bytes) == len <= Len(bytes)

\* A receive for the header is repeated until a start code comes; it may hold all of the
\* message, or the rest is asked for.
ReceiveHeader ==
  /\ receiver = "header" /\ link # <<>> /\ link' = Tail(link)
  /\ LET bytes == Head(link).bytes
         len == m_headerLen + bytes[2].length
     IN IF ~IsHeader(bytes)
          THEN UNCHANGED <<receiverVars, fault>>
          ELSE IF FitsIn(len, bytes)
            THEN Accept(Head(link), SubSeq(bytes, 1, len))
            ELSE /\ receiver' = "body" /\ got' = bytes /\ want' = len
                 /\ UNCHANGED <<accepted, fault>>
  /\ UNCHANGED <<hinformer, senderVars, calm>>

\* More comes than was asked for: the transfer fails.
Overflows(bytes) == Len(got) + Len(bytes) > want

\* A receive for the rest goes on, or another follows, until all is there.
ReceiveBody ==
  /\ receiver = "body" /\ link # <<>> /\ link' = Tail(link)
  /\ LET bytes == got \o Head(link).bytes
     IN IF Overflows(Head(link).bytes) THEN AwaitHeader /\ UNCHANGED <<accepted, fault>>
        ELSE IF Len(bytes) = want THEN Accept(Head(link), bytes)
        ELSE got' = bytes /\ UNCHANGED <<receiver, want, accepted, fault>>
  /\ UNCHANGED <<hinformer, senderVars, calm>>

\* A receive gives up after its timeout; what it had is lost.
ReceiveFails ==
  /\ AwaitHeader
  /\ IF receiver = "body" THEN Missed ELSE UNCHANGED fault
  /\ UNCHANGED <<hinformer, senderVars, accepted, link, calm>>

Next ==
  \/ \E msg \in Messages : Send(msg)
  \/ SendHeader \/ SendBody
  \/ ReceiveHeader \/ ReceiveBody
  \/ ReceiveFails

Spec == Init /\ [][Next]_vars

-----------------------------------------------------------------------------
(* Properties.                                                             *)

\* Every variable has its type: no packet is longer than a transfer, no message is begun
\* more often than m_retries, and what the receiver has of a message is less than all.
TypeOK ==
  /\ hinformer \in BOOLEAN /\ Len(sent) <= MaxMessages
  /\ \A m \in DOMAIN sent : sent[m].msg \in Messages
  /\ sender \in {"idle", "header", "body"} /\ receiver \in {"header", "body"}
  /\ attempts \in Seq(1..m_retries) /\ Len(attempts) = Len(sent)
  /\ reported \subseteq DOMAIN sent /\ calm \in 1..MaxMessages
  /\ fault \in {"none", "missed", "damaged"}
  /\ \A p \in ToSet(link) : Len(p.bytes) \in 1..CRP_MAX_HEADER_LEN
  /\ receiver = "body" => Len(got) < want

\* One turn: what the receiver is to find of argument a, unless it is a hint it did not
\* ask for.
Tell(list, found, a) ==
  LET arg == list.args[a]
  IN IF arg.hint /\ ~list.hinformer THEN found
     ELSE Append(found, Found(TypeByte(arg), DataBytes(list.m, a, arg.size * arg.n)))

\* The arguments of message m, as the receiver is to find them.
Expected(m) ==
  LET msg == sent[m].msg
  IN Loop(Tell, [m |-> m, args |-> msg.args, hinformer |-> hinformer],
          IF msg.type = "response" THEN <<Found(TypeByte(RespInt), DataBytes(m, 0, 4))>> ELSE <<>>,
          0, Len(msg.args))

\* The header is 12 bytes, so that a number of 8 bytes is aligned for the receiver only
\* behind the response integer.
Aligns(msg) == \A a \in 1..Len(msg.args) : msg.args[a].size = 8 => msg.type = "response"

\* Accepted before anything was broken off.
Whole == {i \in DOMAIN accepted : accepted[i].fault # "damaged"}

\* What arrives is what was sent, each argument with its type and data, the hints only
\* if they were asked for, whatever was resent, missed or cut off by a timeout, unless
\* a long message was broken off since the link was last quiet.
ReceivedIsSent ==
  \A i \in Whole : accepted[i].m \in DOMAIN sent /\ accepted[i].found = Expected(accepted[i].m)

\* Messages arrive in the order they were sent, and none more often than it was begun.
InOrder ==
  \A i \in Whole :
    /\ \A j \in Whole : j < i => accepted[j].m <= accepted[i].m
    /\ Cardinality({j \in Whole : accepted[j].m = accepted[i].m}) <= attempts[accepted[i].m]

\* A message reported as sent has arrived when nothing is under way any more, whatever
\* went wrong before the link was last quiet: recvFull finds the next message again.
SentIsReceived ==
  Quiet /\ fault = "none" =>
    \A m \in reported :
      m >= calm => \E i \in DOMAIN accepted : accepted[i].m = m /\ accepted[i].found = Expected(m)

\* vserialize writes nothing beyond its buffer, although it looks at the size only after
\* it has written a scalar or a length.
BufferHolds == m_buf.held
=============================================================================
