------------------------------- MODULE Framing -------------------------------
(***************************************************************************)
(* The stream of the server's messages: it comes through the socket any    *)
(* number of bytes at a time, read_msg (src/pg-wired/src/async_conn.rs)    *)
(* keeps what has come in a buffer, and parse_message                      *)
(* (src/pg-wired/src/protocol/backend.rs) takes one frame after the other  *)
(* out of it.                                                              *)
(*                                                                         *)
(* The server sends frames, each with the kind and the body it likes, and  *)
(* may end the connection in the middle of one.  The bytes it has sent are *)
(* kept in flow, and where each frame begins in begins.                    *)
(***************************************************************************)
EXTENDS Codec

CONSTANTS
  Frames,    \* what the server may send: the kind and the body of a message
  MaxSent    \* bound: how many frames the server sends

\* A body is a sequence.
ASSUME FramesAssumption ==
  \A f \in Frames : /\ f = [tag |-> f.tag, body |-> f.body]
                    /\ Len(f.body) \in Nat
                    /\ f.body = [k \in 1..Len(f.body) |-> f.body[k]]
ASSUME MaxMessageAssumption == MaxMessage \in Nat

VARIABLES
  sent,      \* the frames that the server has sent
  flow,      \* their bytes
  begins,    \* how many bytes come before each of them, and before the next
  arrived,   \* how many bytes have come through the socket
  over,      \* is the connection over: no byte comes any more
  buf,       \* the bytes that have come and are in no frame yet
  look,      \* where read_msg is
  read       \* of each frame taken out of buf, the message it gave, or None

framingVars == <<sent, flow, begins, arrived, over, buf, look, read>>

-----------------------------------------------------------------------------
(* parse_message.                                                          *)

\* What is left after the frame at the beginning of the buffer.
\* Variant: the buffer is cleared.
PastFrame_Clears(b, len) == <<>>
PastFrame(b, len) == SubSeq(b, len + 2, Len(b))

\* What a whole frame gives: None if it is of a kind that nobody knows, or no message.
MessageOf(tag, body) == IF tag \in Tags THEN ParseBody(tag, body) ELSE None

\* What is left of the buffer, and one of: a message, an error, neither, or a frame that was
\* skipped.  The caller cannot tell the last two from each other.
ParseMessage(b) ==
  LET len  == b[2]
      Is(left, res, has) == [buf |-> left, res |-> res, has |-> has]
      Took(msg) == Is(PastFrame(b, len),
                      IF b[1] \notin Tags THEN "skipped" ELSE IF msg = None THEN "error" ELSE "message", <<msg>>)
  IN IF Len(b) < 2 THEN Is(b, "none", <<>>)
     ELSE IF len < 1 \/ len > MaxMessage THEN Is(b, "error", <<>>)
     ELSE IF Len(b) < 1 + len THEN Is(b, "none", <<>>)
     ELSE Took(MessageOf(b[1], SubSeq(b, 3, 1 + len)))

-----------------------------------------------------------------------------
FramingInit ==
  /\ sent = <<>> /\ flow = <<>> /\ begins = <<0>> /\ arrived = 0 /\ over = FALSE
  /\ buf = <<>> /\ look = "parse" /\ read = <<>>

\* The server: a kind, the length of what follows, the body.
Frame(f) == <<f.tag, 1 + Len(f.body)>> \o f.body
Send ==
  /\ ~over
  /\ Len(sent) < MaxSent
  /\ \E f \in Frames :
       /\ sent'   = Append(sent, f)
       /\ flow'   = flow \o Frame(f)
       /\ begins' = Append(begins, Len(flow) + Len(f.body) + 2)
  /\ UNCHANGED <<arrived, over, buf, look, read>>

\* The connection ends.  What has not arrived is lost.
End == ~over /\ over' = TRUE /\ UNCHANGED <<sent, flow, begins, arrived, buf, look, read>>

\* read_buf: some bytes; or no more, after which the buffer is looked at once more; or an
\* error, after which it is not.
Arrive ==
  /\ look = "wait" /\ ~over
  /\ \E n \in 1..(Len(flow) - arrived) :
       /\ arrived' = arrived + n
       /\ buf'     = buf \o SubSeq(flow, arrived + 1, arrived + n)
  /\ look' = "parse"
  /\ UNCHANGED <<sent, flow, begins, over, read>>
ReadNothing ==
  look = "wait" /\ over /\ look' = "last" /\ UNCHANGED <<sent, flow, begins, arrived, over, buf, read>>
ReadFails ==
  look = "wait" /\ over /\ look' = "broken" /\ UNCHANGED <<sent, flow, begins, arrived, over, buf, read>>

\* A message is given to the caller, who comes back for the next; an error ends the reader.
Parse ==
  LET p == ParseMessage(buf)
  IN /\ look \in {"parse", "last"}
     /\ buf'  = p.buf
     /\ read' = read \o p.has
     /\ look' = CASE p.res = "message" -> "parse"
                  [] p.res = "error"   -> "failed"
                  [] OTHER             -> IF look = "last" THEN "closed" ELSE "wait"
     /\ UNCHANGED <<sent, flow, begins, arrived, over>>

FramingNext == Send \/ End \/ Arrive \/ ReadNothing \/ ReadFails \/ Parse
FramingSpec == FramingInit /\ [][FramingNext]_framingVars

-----------------------------------------------------------------------------
(* What is promised.                                                       *)

Known(f)    == f.tag \in Tags
TooLong(f)  == 1 + Len(f.body) > MaxMessage
HasCome(i)    == i \in DOMAIN sent /\ begins[i + 1] <= arrived
LastTaken   == sent[Len(read)]

\* Frame after frame of what was sent has been taken out, and each has given what its kind
\* and its own body say, and after one that gives an error there is none.
InOrder ==
  /\ Len(read) <= Len(sent)
  /\ \A i \in DOMAIN read : read[i] = MessageOf(sent[i].tag, sent[i].body)
  /\ \A i \in 1..(Len(read) - 1) : Known(sent[i]) => read[i] # None

\* read_msg does not wait, or give up, with a whole frame in its buffer; but for what came
\* after a frame of a kind it does not know.
NoneLeft ==
  look \in {"wait", "closed", "broken"} /\ HasCome(Len(read) + 1) =>
    Len(read) > 0 /\ ~Known(LastTaken)

\* It is an error only if the server sent what is none of its messages.
ErrorsReal ==
  look = "failed" =>
    \/ Len(read) > 0 /\ Known(LastTaken) /\ read[Len(read)] = None
    \/ Len(read) < Len(sent) /\ TooLong(sent[Len(read) + 1])

\* Wherever the stream of the server is cut, and wherever it ends, read_msg gives the messages
\* that were sent, each once and in order, as soon as it is complete, and no half of one
\* (backend.rs parse_message, async_conn.rs read_msg).
FramesKept == InOrder /\ NoneLeft /\ ErrorsReal
=============================================================================
