---------------------------- MODULE SecureChannel ----------------------------
(***************************************************************************)
(* SSLConnection::SendData and ReceiveData: one thread sends messages, the  *)
(* other end receives them.  A message is a length followed by that many    *)
(* bytes.  SSL_write and SSL_read are external: they transfer the length    *)
(* whole and any positive number of bytes of the body; once the connection  *)
(* is lost, reads return lostReturn (0 or -1), and so do writes, perhaps     *)
(* after a few more that seem to succeed.                                   *)
(***************************************************************************)
EXTENDS Integers, Sequences

CONSTANTS
    Sizes,     \* the sizes of the messages to send, a sequence
    UintMod,   \* 2^32, the range of uint32_t; any bound above all sizes
    MaxError   \* bound: failed reads of one body that are counted

ASSUME ChannelAssumption ==
    /\ Sizes \in Seq(Nat \ {0}) /\ Sizes # <<>>
    /\ UintMod \in Nat /\ \A m \in DOMAIN Sizes : Sizes[m] < UintMod - 1
    /\ MaxError \in Nat

VARIABLES
    up,              \* the connection is there
    broken,          \* a write has failed: no later one succeeds
    lostReturn,      \* what failing calls return
    wire,            \* what SSL_write has accepted and SSL_read not yet returned
    sender,          \* "header", "body" or "end"
    msg,             \* the message being sent
    sendedSize, accepted,  \* SendData's count, and what SSL_write took
    results,         \* results[m]: what SendData returned, and what was accepted
    receiver,        \* "header", "body" or "failed"
    len, receivedSize, data,
    received         \* the messages that ReceiveData has returned

connection == <<up, broken, lostReturn>>
sending    == <<sender, msg, sendedSize, accepted, results>>
receiving  == <<receiver, len, receivedSize, data, received>>
vars       == <<connection, wire, sending, receiving>>

(* Byte o of message m, and the whole message. *)
Byte(m, o) == [msg |-> m, offset |-> o]
Message(m) == [o \in 1 .. Sizes[m] |-> Byte(m, o)]

Init ==
    /\ up = TRUE /\ broken = FALSE /\ lostReturn \in {0, -1}
    /\ wire = <<>>
    /\ sender = "header" /\ msg = 1 /\ sendedSize = 0 /\ accepted = 0
    /\ results = <<>>
    /\ receiver = "header" /\ len = 0 /\ receivedSize = 0 /\ data = <<>>
    /\ received = <<>>

(* The connection is lost; some of what is under way never arrives. *)
Lose ==
    /\ up
    /\ up' = FALSE
    /\ \E n \in 0 .. Len(wire) : wire' = SubSeq(wire, 1, n)
    /\ UNCHANGED <<broken, lostReturn, sending, receiving>>

(* What SSL_write accepts is lost if the connection is. *)
Transfer(bytes) == wire' = IF up THEN wire \o bytes ELSE wire

SendReturns(result) ==
    /\ results' = Append(results, [ok |-> result, written |-> accepted'])
    /\ msg' = msg + 1
    /\ sender' = IF msg = Len(Sizes) THEN "end" ELSE "header"

SendHeader ==
    /\ sender = "header" /\ ~broken
    /\ Transfer(<<[len |-> Sizes[msg]]>>)
    /\ sender' = "body"
    /\ sendedSize' = 0 /\ accepted' = 0
    /\ UNCHANGED <<connection, msg, results, receiving>>

SendHeaderFails ==
    /\ sender = "header" /\ ~up
    /\ broken' = TRUE
    /\ accepted' = 0
    /\ SendReturns(FALSE)
    /\ UNCHANGED <<up, lostReturn, wire, sendedSize, receiving>>

(* Seeded fault: data is passed instead of data + sendedSize. *)
BytesFromStart(n) == [o \in 1 .. n |-> Byte(msg, o)]

(* The n bytes from data + sendedSize. *)
BytesToSend(n) == [o \in 1 .. n |-> Byte(msg, sendedSize + o)]

(* Seeded fault: one turn too many. *)
MoreToSendEqual(size) == size % UintMod <= Sizes[msg]

(* The loop test compares an int with a uint32_t: both become unsigned. *)
MoreToSend(size) == size % UintMod < Sizes[msg]

(* The end of a turn of SendData's loop. *)
SendTurn(size) ==
    /\ sendedSize' = size
    /\ IF MoreToSend(size) THEN UNCHANGED <<sender, msg, results>>
                           ELSE SendReturns(TRUE)

SendBody ==
    /\ sender = "body" /\ ~broken
    /\ \E n \in 1 .. Sizes[msg] - sendedSize :
          /\ Transfer(BytesToSend(n))
          /\ accepted' = accepted + n
          /\ SendTurn(sendedSize + n)
    /\ UNCHANGED <<connection, receiving>>

(* SSL_write fails; its result is added all the same. *)
SendBodyFails ==
    /\ sender = "body" /\ ~up
    /\ broken' = TRUE
    /\ UNCHANGED accepted
    /\ SendTurn(sendedSize + lostReturn)
    /\ UNCHANGED <<up, lostReturn, wire, receiving>>

RecvHeader ==
    /\ receiver = "header"
    /\ wire # <<>>
    /\ len' = Head(wire).len
    /\ wire' = Tail(wire)
    /\ receivedSize' = 0 /\ data' = <<>>
    /\ receiver' = "body"
    /\ UNCHANGED <<connection, sending, received>>

(* The callers give the connection up when ReceiveData returns false. *)
RecvHeaderFails ==
    /\ receiver = "header"
    /\ wire = <<>> /\ ~up
    /\ receiver' = "failed"
    /\ UNCHANGED <<connection, wire, sending, len, receivedSize, data, received>>

(* Seeded fault: SSL_read is asked for len bytes in every turn. *)
WantedWhole == len

(* How many bytes SSL_read is asked for. *)
Wanted == len - receivedSize

(* The end of a turn of ReceiveData's loop. *)
RecvTurn(size, bytes) ==
    /\ receivedSize' = size
    /\ data' = data \o bytes
    /\ IF size < len THEN UNCHANGED <<receiver, received>>
                     ELSE receiver' = "header" /\ received' = Append(received, data')

RecvBody ==
    /\ receiver = "body"
    /\ \E n \in 1 .. Len(wire) :
          /\ n <= Wanted
          /\ RecvTurn(receivedSize + n, SubSeq(wire, 1, n))
          /\ wire' = SubSeq(wire, n + 1, Len(wire))
    /\ UNCHANGED <<connection, sending, len>>

(* SSL_read fails; its result is added all the same.  The count is followed  *)
(* down to -MaxError only; the overflow of the int, about 2^31 failing reads  *)
(* later, is not reached.                                                     *)
RecvBodyFails ==
    /\ receiver = "body"
    /\ wire = <<>> /\ ~up
    /\ RecvTurn(IF receivedSize > -MaxError THEN receivedSize + lostReturn
                ELSE receivedSize, <<>>)
    /\ UNCHANGED <<connection, wire, sending, len>>

(* All messages are sent and nothing is under way. *)
Idle ==
    /\ sender = "end" /\ wire = <<>> /\ receiver # "body"
    /\ UNCHANGED vars

Sender   == SendHeader \/ SendHeaderFails \/ SendBody \/ SendBodyFails
Receiver == RecvHeader \/ RecvHeaderFails \/ RecvBody \/ RecvBodyFails

Next == Lose \/ Sender \/ Receiver \/ Idle

(* Both threads keep being scheduled. *)
Spec == Init /\ [][Next]_vars /\ WF_vars(Sender) /\ WF_vars(Receiver)
-----------------------------------------------------------------------------
(* Every variable has its type; a failing read is counted to -MaxError only. *)
TypeOK ==
    /\ up \in BOOLEAN /\ broken \in BOOLEAN /\ lostReturn \in {0, -1}
    /\ \A n \in DOMAIN wire : wire[n] \in [len : Nat] \cup [msg : Nat, offset : Nat]
    /\ sender \in {"header", "body", "end"} /\ msg \in 1 .. Len(Sizes) + 1
    /\ sendedSize \in Int /\ accepted \in Nat
    /\ results \in Seq([ok : BOOLEAN, written : Nat])
    /\ receiver \in {"header", "body", "failed"}
    /\ len \in Nat /\ receivedSize \in -MaxError .. len
    /\ received \in Seq(Seq([msg : Nat, offset : Nat]))

(* However SSL_write and SSL_read split a message and wherever the           *)
(* connection breaks, ReceiveData returns the messages given to SendData:    *)
(* whole, in order, none twice.                                              *)
Framing ==
    /\ Len(received) <= Len(Sizes)
    /\ \A m \in DOMAIN received : received[m] = Message(m)

(* As long as the connection holds, every message arrives, and SendData      *)
(* reports every one as sent when SSL_write has taken all of it.  (When the  *)
(* connection is lost it may report success for a part.)                     *)
Delivered ==
    []up => <>(/\ Len(received) = Len(Sizes)
               /\ \A m \in DOMAIN results : results[m].ok /\ results[m].written = Sizes[m])

(* "@return false fail": when the connection is lost, ReceiveData returns.   *)
LossIsReported == ~up ~> receiver = "failed"
=============================================================================
