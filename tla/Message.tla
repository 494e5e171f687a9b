------------------------------- MODULE Message ------------------------------
(***************************************************************************)
(* How a message of common/message.h crosses a connection: class           *)
(* FcopyMessage encodes it as a header, a body and, for a chunk, the data; *)
(* the connection delivers the bytes in fragments cut anywhere; append     *)
(* puts them together.  When the connection breaks, the same object is     *)
(* encoded again for the next try (see module Fcopy for what that does to  *)
(* the upload), and the receiver starts from nothing.                      *)
(*                                                                         *)
(* A cell stands for one field of the header or of the body, or for one    *)
(* block of data; lengths are in cells.  Byte order, and fragments that    *)
(* end inside a field, are left out: append only counts bytes.             *)
(***************************************************************************)
EXTENDS Integers, Sequences, SequencesExt

CONSTANTS
  Messages,   \* [cmd, error, f (the fields), data] of the messages sent
  SizeLimit,  \* request_size_limit of the receiver
  LenWidth,   \* lengths, and the sum of two, are numbers below it: 2^32 in the code
  RetryMax    \* FcopyClientParams::retry_max

\* The fields of each message; a response has none but its error.
FieldsOf ==
  [create |-> {"chunk_size", "file_perm", "file_size", "partition", "relative_path",
               "file_name"},
   send |-> {"max_chain_len", "compress_type", "origin_size", "crc32", "offset", "file_token"},
   close |-> {"wait_close", "file_token"},
   chain |-> {"file_token", "targets"},
   create_resp |-> {"file_token"}, delete |-> {"file_token"}, resp |-> {}]

Commands == DOMAIN FieldsOf

IsMessage(m) ==
  /\ m.cmd \in Commands
  /\ m.f = [n \in FieldsOf[m.cmd] |-> m.f[n]]
  /\ m.cmd = "chain" =>
       /\ m.f.targets \in Seq(ToSet(m.f.targets))
       /\ \A t \in ToSet(m.f.targets) : t = [n \in {"host", "port", "file_token"} |-> t[n]]
  /\ m.data \in Seq(ToSet(m.data))
  /\ m.data # <<>> => m.cmd = "send"

ASSUME MessageAssumption ==
  /\ RetryMax \in Nat /\ SizeLimit \in Nat /\ LenWidth \in Nat \ {0}
  /\ \A m \in Messages : IsMessage(m)

VARIABLES
  msg,   \* MessageBase: the message being sent
  body,  \* MessageBase::body of the sender, kept from one try to the next
  wire,  \* the cells encoded and not yet delivered
  rcv,   \* the receiver's FcopyMessage
  try,   \* the number of tries that broke
  st     \* "send", "sent", "broken" or "failed"

messageVars == <<msg, body, wire, rcv, try, st>>

HeaderSize == 6

-----------------------------------------------------------------------------
(* Encoding.                                                               *)

EncodeTarget(t) == <<t.host, t.port, t.file_token>>

\* One target after the other, three cells each.
EncodeTargets(ts) ==
  [j \in 1..(3 * Len(ts)) |-> EncodeTarget(ts[((j-1) \div 3) + 1])[((j-1) % 3) + 1]]

EncodeBody(cmd, f) ==
  CASE cmd = "create" -> <<f.chunk_size, f.file_perm, f.file_size, f.partition,
                           f.relative_path, f.file_name>>
    [] cmd = "send"   -> <<f.max_chain_len, f.compress_type, f.origin_size,
                           f.crc32, f.offset, f.file_token>>
    [] cmd = "close"  -> <<f.wait_close, f.file_token>>
    [] cmd = "chain"  -> <<f.file_token, Len(f.targets)>> \o EncodeTargets(f.targets)
    [] cmd \in {"create_resp", "delete"} -> <<f.file_token>>
    [] cmd = "resp"   -> <<>>

\* Each length of its own fits in the header; their sum may not.
ASSUME LengthsAssumption ==
  \A m \in Messages : Len(EncodeBody(m.cmd, m.f)) < LenWidth /\ Len(m.data) < LenWidth

\* A plausible bug: the body of the try before is not cleared.
Encode_NoClear(m, old) ==
  LET b == old \o EncodeBody(m.cmd, m.f)
  IN [body |-> b,
      wire |-> <<"MAGIC", "VERSION", m.cmd, m.error, Len(b), Len(m.data)>> \o b \o m.data]

\* FcopyMessage::encode; old is the body left by the try before.
Encode(m, old) ==
  LET b == EncodeBody(m.cmd, m.f)
  IN [body |-> b,
      wire |-> <<"MAGIC", "VERSION", m.cmd, m.error, Len(b), Len(m.data)>> \o b \o m.data]

-----------------------------------------------------------------------------
(* Decoding.                                                               *)

\* What a decoder returns for a body it does not accept.
NoFields == [bad |-> 0]

\* decode_body: every field is there and nothing is left.
DecodeBody(cmd, b) ==
  CASE cmd = "create" ->
         IF Len(b) # 6 THEN NoFields
         ELSE [chunk_size |-> b[1], file_perm |-> b[2], file_size |-> b[3],
               partition |-> b[4], relative_path |-> b[5], file_name |-> b[6]]
    [] cmd = "send" ->
         IF Len(b) # 6 THEN NoFields
         ELSE [max_chain_len |-> b[1], compress_type |-> b[2], origin_size |-> b[3],
               crc32 |-> b[4], offset |-> b[5], file_token |-> b[6]]
    [] cmd = "close" ->
         IF Len(b) # 2 THEN NoFields ELSE [wait_close |-> b[1], file_token |-> b[2]]
    [] cmd = "chain" ->
         IF Len(b) < 2 \/ Len(b) # 2 + 3 * b[2] THEN NoFields
         ELSE [file_token |-> b[1],
               targets |-> [k \in 1..b[2] |->
                              [host |-> b[3*k], port |-> b[3*k + 1],
                               file_token |-> b[3*k + 2]]]]
    [] cmd \in {"create_resp", "delete"} ->
         IF Len(b) # 1 THEN NoFields ELSE [file_token |-> b[1]]
    [] cmd = "resp" -> IF b # <<>> THEN NoFields ELSE <<>>

\* decode_head, create_message and the limit, which sees what 32 bits keep of
\* the sum.
HeadRefused(h) ==
  \/ h[1] # "MAGIC" \/ h[2] # "VERSION"
  \/ h[3] \notin Commands
  \/ ((h[5] + h[6]) % LenWidth) + HeaderSize > SizeLimit

Fresh == [head |-> <<>>, body |-> <<>>, data |-> <<>>, f |-> NoFields, st |-> "more"]

\* have, completed from buf up to n cells, and what is left of buf.
Fill(have, n, buf) == have \o SubSeq(buf, 1, Min({n - Len(have), Len(buf)}))
Left(have, n, buf) == SubSeq(buf, n - Len(have) + 1, Len(buf))

\* A plausible bug: every fragment of the data is stored at its beginning.
AppendBody_Overwrites(r, buf) ==
  LET b == Fill(r.body, r.head[5], buf)
      d == Fill(<<>>, r.head[6], Left(r.body, r.head[5], buf))
      f == DecodeBody(r.head[3], b)
      n == IF Len(d) > Len(r.data) THEN d ELSE d \o SubSeq(r.data, Len(d) + 1, Len(r.data))
  IN IF Len(b) < r.head[5] THEN [r EXCEPT !.body = b]
     ELSE IF Len(r.data) + Len(d) < r.head[6] THEN [r EXCEPT !.body = b, !.data = n]
     ELSE [r EXCEPT !.body = b, !.data = n, !.f = f,
                    !.st = IF f = NoFields THEN "bad" ELSE "done"]

\* A plausible bug: an empty rest of a fragment is taken for "more to come".
AppendBody_Waits(r, buf) ==
  LET b == Fill(r.body, r.head[5], buf)
      d == Fill(r.data, r.head[6], Left(r.body, r.head[5], buf))
      f == DecodeBody(r.head[3], b)
  IN IF buf = <<>> \/ Len(b) < r.head[5] THEN [r EXCEPT !.body = b]
     ELSE IF Len(d) < r.head[6] THEN [r EXCEPT !.body = b, !.data = d]
     ELSE [r EXCEPT !.body = b, !.data = d, !.f = f,
                    !.st = IF f = NoFields THEN "bad" ELSE "done"]

\* append_body, also with nothing left of the fragment the header ended in.
AppendBody(r, buf) ==
  LET b == Fill(r.body, r.head[5], buf)
      d == Fill(r.data, r.head[6], Left(r.body, r.head[5], buf))
      f == DecodeBody(r.head[3], b)
  IN IF Len(b) < r.head[5] THEN [r EXCEPT !.body = b]
     ELSE IF Len(d) < r.head[6] THEN [r EXCEPT !.body = b, !.data = d]
     ELSE [r EXCEPT !.body = b, !.data = d, !.f = f,
                    !.st = IF f = NoFields THEN "bad" ELSE "done"]

\* FcopyMessage::append.
Receive(r, buf) ==
  LET h == Fill(r.head, HeaderSize, buf)
  IN IF Len(h) < HeaderSize THEN [r EXCEPT !.head = h]
     ELSE IF Len(r.head) < HeaderSize /\ HeadRefused(h)
     THEN [r EXCEPT !.head = h, !.st = "bad"]
     ELSE AppendBody([r EXCEPT !.head = h], Left(r.head, HeaderSize, buf))

-----------------------------------------------------------------------------
MessageInit ==
  /\ msg \in Messages
  /\ LET e == Encode(msg, <<>>) IN body = e.body /\ wire = e.wire
  /\ rcv = Fresh
  /\ try = 0
  /\ st = "send"

\* A fragment arrives; a receiver that refuses it breaks the connection.
Deliver ==
  /\ st = "send"
  /\ \E n \in 1..Len(wire) :
       /\ rcv' = Receive(rcv, SubSeq(wire, 1, n))
       /\ wire' = SubSeq(wire, n + 1, Len(wire))
  /\ st' = CASE rcv'.st = "done" -> "sent"
             [] rcv'.st = "bad"  -> "broken"
             [] rcv'.st = "more" -> "send"
  /\ UNCHANGED <<msg, body, try>>

Break ==
  /\ st = "send"
  /\ st' = "broken"
  /\ UNCHANGED <<msg, body, wire, rcv, try>>

\* A plausible bug: the tries are not counted.
Retry_Forever ==
  /\ st = "broken"
  /\ LET e == Encode(msg, body) IN body' = e.body /\ wire' = e.wire
  /\ rcv' = Fresh /\ try' = try /\ st' = "send"
  /\ UNCHANGED msg

\* The task of the call connects anew and encodes the message again.
Retry ==
  /\ st = "broken"
  /\ \/ /\ try < RetryMax
        /\ LET e == Encode(msg, body) IN body' = e.body /\ wire' = e.wire
        /\ rcv' = Fresh /\ try' = try + 1 /\ st' = "send"
     \/ /\ try = RetryMax
        /\ st' = "failed"
        /\ UNCHANGED <<body, wire, rcv, try>>
  /\ UNCHANGED msg

MessageNext ==
  \/ Deliver \/ Break \/ Retry
  \/ st \in {"sent", "failed"} /\ UNCHANGED messageVars

MessageSpec     == MessageInit /\ [][MessageNext]_messageVars
MessageFairSpec == MessageSpec /\ WF_messageVars(Deliver) /\ WF_messageVars(Retry)

-----------------------------------------------------------------------------
(* Properties.                                                             *)

\* Whatever the fragments and the try, the message that comes out is the one
\* that went in, its header, every field and the data.
RoundTrip ==
  st = "sent" => /\ rcv.head[3] = msg.cmd /\ rcv.head[4] = msg.error
                 /\ rcv.f = msg.f /\ rcv.data = msg.data

\* The message is complete with its last cell: neither before it, when the
\* rest would be taken for the next message, nor never.
CompleteAtEnd == st \in {"send", "sent"} => (st = "sent" <=> wire = <<>>)

\* A receiver refuses only a message above its limit: a second try looks
\* like the first.  It does not refuse all of them: where the sum of the lengths
\* wraps, the message is taken, and must come through whole.
RefusesOnlyLong ==
  rcv.st = "bad"
    => Len(EncodeBody(msg.cmd, msg.f)) + Len(msg.data) + HeaderSize > SizeLimit

\* Every call ends: the message is received or the tries are used up.
CallEnds == <>(st \in {"sent", "failed"})
=============================================================================
