-------------------------- MODULE AlgorithmProofs --------------------------
(***************************************************************************)
(* What TLAPS proves of the pure parts: for every server and every way its *)
(* stream is cut, what read_msg makes of it is what was sent; for any      *)
(* contents, a request is as long as it says, and the cells of a row are   *)
(* those the server wrote and lie within its body; for any number of       *)
(* compilers, queries and schemas, what the files of checked queries say   *)
(* is what one database said; for every time since 1970 the versions of    *)
(* migrations have the dates of the calendar, and they grow with time.     *)
(***************************************************************************)
EXTENDS Framing, Metadata, Calendar, SequenceTheorems, WellFoundedInduction, TLAPS

-----------------------------------------------------------------------------
(* The stream.                                                             *)

Unit     == Nat \cup {f.tag : f \in Frames} \cup UNION {{f.body[k] : k \in DOMAIN f.body} : f \in Frames}
Messages == {MessageOf(f.tag, f.body) : f \in Frames}
Looks    == {"parse", "wait", "last", "closed", "broken", "failed"}

StreamTypes ==
  /\ sent \in Seq(Frames) /\ flow \in Seq(Unit) /\ begins \in Seq(Nat) /\ arrived \in Nat /\ over \in BOOLEAN
  /\ buf \in Seq(Unit) /\ look \in Looks /\ read \in Seq(Messages)

\* Where each frame lies in the stream.
Laid ==
  /\ Len(begins) = Len(sent) + 1
  /\ begins[1] = 0
  /\ begins[Len(sent) + 1] = Len(flow)
  /\ \A i \in 1..Len(sent) : begins[i + 1] = begins[i] + Len(sent[i].body) + 2
  /\ \A i \in 1..Len(sent) : begins[i + 1] <= Len(flow)
FrameAt(i) ==
  /\ flow[begins[i] + 1] = sent[i].tag
  /\ flow[begins[i] + 2] = 1 + Len(sent[i].body)
  /\ \A k \in 1..Len(sent[i].body) : flow[begins[i] + 2 + k] = sent[i].body[k]
Filled == \A i \in 1..Len(sent) : FrameAt(i)

\* The buffer holds what has come since the last frame that was taken.
Buffered ==
  /\ Len(read) <= Len(sent)
  /\ arrived <= Len(flow)
  /\ begins[Len(read) + 1] + Len(buf) = arrived
  /\ \A k \in 1..Len(buf) : buf[k] = flow[begins[Len(read) + 1] + k]

\* Nothing is taken after an error.
ErrorLast == Len(read) > 0 /\ Known(LastTaken) /\ read[Len(read)] = None => look = "failed"

StreamInv ==
  /\ StreamTypes /\ Laid /\ Filled /\ Buffered /\ ErrorLast
  /\ InOrder /\ NoneLeft /\ ErrorsReal

LEMMA FrameTyped ==
  ASSUME NEW f \in Frames
  PROVE  /\ Len(f.body) \in Nat /\ f.body \in Seq(Unit) /\ f.tag \in Unit
         /\ Frame(f) \in Seq(Unit) /\ Len(Frame(f)) = Len(f.body) + 2
         /\ Frame(f)[1] = f.tag /\ Frame(f)[2] = 1 + Len(f.body)
         /\ \A k \in 1..Len(f.body) : Frame(f)[2 + k] = f.body[k]
<1> DEFINE n == Len(f.body)
<1>1. n \in Nat /\ f.body = [k \in 1..n |-> f.body[k]]
  BY FramesAssumption
<1>2. \A k \in 1..n : f.body[k] \in Unit
  <2> SUFFICES ASSUME NEW k \in 1..n PROVE f.body[k] \in Unit
    OBVIOUS
  <2>1. DOMAIN f.body = 1..n
    BY <1>1
  <2>2. f.body[k] \in {f.body[m] : m \in DOMAIN f.body}
    BY <2>1
  <2> QED BY <2>2 DEF Unit
<1>3. f.body \in [1..n -> Unit]
  BY <1>1, <1>2
<1>4. f.body \in Seq(Unit)
  BY <1>1, <1>3, SeqDef
<1>5. f.tag \in Unit /\ 1 + n \in Unit
  BY <1>1 DEF Unit
<1>6. <<f.tag, 1 + n>> \in Seq(Unit)
  BY <1>5
<1> QED BY <1>1, <1>4, <1>5, <1>6 DEF Frame

LEMMA FramesTyped ==
  ASSUME StreamTypes, NEW i \in 1..Len(sent)
  PROVE  sent[i] \in Frames /\ Len(sent[i].body) \in Nat /\ sent[i].body \in Seq(Unit)
<1>1. sent[i] \in Frames
  BY DEF StreamTypes
<1> QED BY <1>1, FrameTyped

LEMMA FramingStarts == FramingInit => StreamInv
<1> SUFFICES ASSUME FramingInit PROVE StreamInv
  OBVIOUS
<1> USE DEF FramingInit
<1>1. StreamTypes
  <2>1. sent \in Seq(Frames) /\ flow \in Seq(Unit) /\ buf \in Seq(Unit) /\ read \in Seq(Messages)
    OBVIOUS
  <2>2. begins \in Seq(Nat)
    BY 0 \in Nat
  <2>3. arrived \in Nat /\ over \in BOOLEAN
    OBVIOUS
  <2>4. look \in Looks
    BY DEF Looks
  <2> QED BY <2>1, <2>2, <2>3, <2>4 DEF StreamTypes
<1>2. Laid /\ Filled /\ Buffered
  BY DEF Laid, Filled, Buffered
<1>3. ErrorLast /\ InOrder /\ NoneLeft /\ ErrorsReal
  BY DEF ErrorLast, InOrder, NoneLeft, ErrorsReal
<1> QED BY <1>1, <1>2, <1>3 DEF StreamInv

(* What parse_message makes of the buffer.                                 *)

LEMMA NextBegins ==
  ASSUME StreamInv
  PROVE  /\ Len(read) \in Nat /\ Len(sent) \in Nat /\ Len(flow) \in Nat /\ Len(buf) \in Nat
         /\ begins[Len(read) + 1] \in Nat /\ arrived \in Nat
         /\ begins[Len(read) + 1] + Len(buf) = arrived
         /\ Len(read) = Len(sent) => Len(buf) = 0
         /\ Len(read) < Len(sent) =>
              /\ Len(read) + 1 \in 1..Len(sent)
              /\ begins[Len(read) + 2] = begins[Len(read) + 1] + Len(sent[Len(read) + 1].body) + 2
              /\ begins[Len(read) + 2] <= Len(flow)
              /\ Len(sent[Len(read) + 1].body) \in Nat
              /\ FrameAt(Len(read) + 1)
<1>1. Len(read) \in Nat /\ Len(sent) \in Nat /\ Len(flow) \in Nat /\ Len(buf) \in Nat /\ arrived \in Nat
  BY DEF StreamInv, StreamTypes
<1>2. Len(read) <= Len(sent) /\ Len(begins) = Len(sent) + 1
  BY DEF StreamInv, Buffered, Laid
<1>3. begins[Len(read) + 1] \in Nat
  BY <1>1, <1>2 DEF StreamInv, StreamTypes
<1>4. Len(read) = Len(sent) => Len(buf) = 0
  BY <1>1, <1>3 DEF StreamInv, Buffered, Laid
<1>5. ASSUME Len(read) < Len(sent)
      PROVE  /\ Len(read) + 1 \in 1..Len(sent)
             /\ begins[Len(read) + 2] = begins[Len(read) + 1] + Len(sent[Len(read) + 1].body) + 2
             /\ begins[Len(read) + 2] <= Len(flow)
             /\ Len(sent[Len(read) + 1].body) \in Nat
             /\ FrameAt(Len(read) + 1)
  <2>1. Len(read) + 1 \in 1..Len(sent)
    BY <1>1, <1>5
  <2>2. Len(sent[Len(read) + 1].body) \in Nat
    BY <2>1, FramesTyped DEF StreamInv
  <2>3. FrameAt(Len(read) + 1)
    BY <2>1 DEF StreamInv, Filled
  <2>4. (Len(read) + 1) + 1 = Len(read) + 2
    BY <1>1
  <2> QED BY <2>1, <2>2, <2>3, <2>4 DEF StreamInv, Laid
<1>6. begins[Len(read) + 1] + Len(buf) = arrived
  BY DEF StreamInv, Buffered
<1> QED BY <1>1, <1>3, <1>4, <1>5, <1>6

LEMMA RoomOfFrame ==
  ASSUME NEW a \in Nat, NEW b \in Nat, NEW c \in Nat, NEW n \in Nat, NEW m \in Nat,
         c = a + n + 2, a + m = b, c <= b
  PROVE  m >= n + 2 /\ ~(m < 2) /\ ~(m < 1 + (1 + n))
  OBVIOUS

\* With less than a whole frame, and no length that is too long, nothing happens.
LEMMA ParseNothing ==
  ASSUME StreamInv, ParseMessage(buf).res = "none"
  PROVE  /\ ParseMessage(buf).buf = buf /\ ParseMessage(buf).has = <<>>
         /\ ~HasCome(Len(read) + 1)
<1> DEFINE n == Len(sent[Len(read) + 1].body)
           a == begins[Len(read) + 1]
<1>1. Len(buf) \in Nat /\ Len(read) \in Nat /\ arrived \in Nat /\ a \in Nat /\ a + Len(buf) = arrived
  BY NextBegins
<1>2. ASSUME HasCome(Len(read) + 1)
      PROVE  Len(read) < Len(sent) /\ n \in Nat /\ Len(buf) >= n + 2 /\ ~(Len(buf) < 2) /\ ~(Len(buf) < 1 + (1 + n))
  <2>1. Len(read) + 1 \in DOMAIN sent /\ begins[(Len(read) + 1) + 1] <= arrived
    BY <1>2 DEF HasCome
  <2>2. Len(sent) \in Nat /\ DOMAIN sent = 1..Len(sent)
    BY DEF StreamInv, StreamTypes
  <2>3. Len(read) < Len(sent) /\ (Len(read) + 1) + 1 = Len(read) + 2
    BY <1>1, <2>1, <2>2
  <2>4. n \in Nat /\ begins[Len(read) + 2] = a + n + 2
    BY <2>3, NextBegins
  <2>5. begins[Len(read) + 2] \in Nat /\ begins[Len(read) + 2] <= arrived
    BY <1>1, <2>1, <2>3, <2>4, SMTT(40)
  <2> HIDE DEF n, a
  <2> QED BY ONLY <1>1, <2>3, <2>4, <2>5, RoomOfFrame
<1>3. CASE Len(buf) < 2
  <2>1. ParseMessage(buf) = [buf |-> buf, res |-> "none", has |-> <<>>]
    BY <1>3 DEF ParseMessage
  <2> QED BY <1>2, <1>3, <2>1
<1>4. CASE ~(Len(buf) < 2)
  <2>1. ~(buf[2] < 1 \/ buf[2] > MaxMessage) /\ Len(buf) < 1 + buf[2]
    BY <1>4 DEF ParseMessage
  <2>2. ParseMessage(buf) = [buf |-> buf, res |-> "none", has |-> <<>>]
    BY <1>4, <2>1 DEF ParseMessage
  <2>3. ASSUME HasCome(Len(read) + 1) PROVE FALSE
    <3>1. Len(read) < Len(sent)
      BY <1>2, <2>3
    <3>2. 2 \in 1..Len(buf)
      BY <1>1, <1>4
    <3>3. buf[2] = flow[begins[Len(read) + 1] + 2]
      BY <3>2 DEF StreamInv, Buffered
    <3>4. FrameAt(Len(read) + 1)
      BY <3>1, NextBegins
    <3>5. buf[2] = 1 + n
      BY <3>3, <3>4 DEF FrameAt
    <3> QED BY <1>2, <2>1, <2>3, <3>5
  <2> QED BY <2>2, <2>3
<1> QED BY <1>3, <1>4

\* Otherwise a frame is taken, the one whose turn it is, or it is too long.
LEMMA ParseTakes ==
  ASSUME StreamInv, ParseMessage(buf).res # "none"
  PROVE  /\ Len(read) < Len(sent)
         /\ \/ /\ TooLong(sent[Len(read) + 1])
               /\ ParseMessage(buf) = [buf |-> buf, res |-> "error", has |-> <<>>]
            \/ LET f   == sent[Len(read) + 1]
                   msg == MessageOf(f.tag, f.body)
               IN /\ begins[Len(read) + 2] <= arrived
                  /\ ParseMessage(buf) =
                       [buf |-> SubSeq(buf, Len(f.body) + 3, Len(buf)),
                        res |-> IF ~Known(f) THEN "skipped" ELSE IF msg = None THEN "error" ELSE "message",
                        has |-> <<msg>>]
<1> DEFINE f == sent[Len(read) + 1]
           n == Len(f.body)
           msg == MessageOf(f.tag, f.body)
<1>1. Len(buf) >= 2
  <2> SUFFICES ASSUME Len(buf) < 2 PROVE FALSE
    BY NextBegins
  <2> QED BY DEF ParseMessage
<1>2. Len(read) < Len(sent)
  BY <1>1, NextBegins DEF StreamInv, Buffered
<1>3. /\ n \in Nat /\ FrameAt(Len(read) + 1) /\ f \in Frames /\ f.body \in Seq(Unit)
      /\ Len(buf) \in Nat /\ Len(read) \in Nat /\ begins[Len(read) + 1] \in Nat
      /\ begins[Len(read) + 2] = begins[Len(read) + 1] + n + 2
      /\ begins[Len(read) + 1] + Len(buf) = arrived
  BY <1>2, NextBegins, FramesTyped DEF StreamInv
<1>4. buf[1] = f.tag /\ buf[2] = 1 + n
  <2>1. 1 \in 1..Len(buf) /\ 2 \in 1..Len(buf)
    BY <1>1, <1>3
  <2>2. buf[1] = flow[begins[Len(read) + 1] + 1] /\ buf[2] = flow[begins[Len(read) + 1] + 2]
    BY <2>1 DEF StreamInv, Buffered
  <2> QED BY <1>3, <2>2 DEF FrameAt
<1>5. CASE 1 + n > MaxMessage
  <2>1. ParseMessage(buf) = [buf |-> buf, res |-> "error", has |-> <<>>]
    BY <1>1, <1>3, <1>4, <1>5 DEF ParseMessage
  <2> QED BY <1>2, <1>5, <2>1 DEF TooLong
<1>6. CASE ~(1 + n > MaxMessage)
  <2>1. ~(Len(buf) < 2) /\ ~(buf[2] < 1 \/ buf[2] > MaxMessage)
    BY <1>1, <1>3, <1>4, <1>6, MaxMessageAssumption, SMTT(40)
  <2>2. ~(Len(buf) < 1 + buf[2])
    BY <2>1 DEF ParseMessage
  <2>3. SubSeq(buf, 3, 1 + buf[2]) = f.body
    <3>1. buf \in Seq(Unit) /\ 1 + buf[2] = n + 2 /\ n + 2 <= Len(buf)
      BY <1>3, <1>4, <2>2, SMTT(40) DEF StreamInv, StreamTypes
    <3>2. SubSeq(buf, 3, n + 2) \in Seq(Unit) /\ Len(SubSeq(buf, 3, n + 2)) = n
      BY <1>3, <3>1
    <3>3. ASSUME NEW k \in 1..n PROVE SubSeq(buf, 3, n + 2)[k] = f.body[k]
      <4>1. 2 + k \in 1..Len(buf)
        BY <1>3, <3>1
      <4>5. SubSeq(buf, 3, n + 2)[k] = buf[2 + k]
        <5>1. SubSeq(buf, 3, n + 2)[k] = buf[3 + k - 1]
          BY <1>3, <3>1, SubSeqProperties
        <5> QED BY <1>3, <5>1
      <4>2. buf[2 + k] = flow[begins[Len(read) + 1] + (2 + k)]
        BY <4>1 DEF StreamInv, Buffered
      <4>3. begins[Len(read) + 1] + (2 + k) = begins[Len(read) + 1] + 2 + k
        <5>1. k \in Nat /\ begins[Len(read) + 1] \in Nat
          BY <1>3
        <5> QED BY <5>1
      <4> QED BY <1>3, <4>2, <4>3, <4>5 DEF FrameAt
    <3> QED BY <1>3, <3>1, <3>2, <3>3, SeqEqual
  <2>4. PastFrame(buf, buf[2]) = SubSeq(buf, n + 3, Len(buf))
    BY <1>3, <1>4 DEF PastFrame
  <2>5. ParseMessage(buf) =
          [buf |-> SubSeq(buf, n + 3, Len(buf)),
           res |-> IF ~Known(f) THEN "skipped" ELSE IF msg = None THEN "error" ELSE "message",
           has |-> <<msg>>]
    BY <1>4, <2>1, <2>2, <2>3, <2>4, Zenon DEF ParseMessage, Known
  <2>6. begins[Len(read) + 2] <= arrived
    BY <1>3, <1>4, <2>2, SMTT(40)
  <2> QED BY <1>2, <2>5, <2>6
<1> QED BY <1>5, <1>6

(* Every step.                                                             *)

LEMMA WithinFrame ==
  ASSUME NEW a \in Nat, NEW n \in Nat, NEW m \in Nat, a + n + 2 <= m, NEW j \in 1..(n + 2)
  PROVE  a + j \in 1..m
  OBVIOUS

LEMMA RestLength ==
  ASSUME NEW m \in Nat, NEW n \in Nat, n + 2 <= m
  PROVE  (IF n + 3 <= m THEN m - (n + 3) + 1 ELSE 0) = m - (n + 2)
  OBVIOUS

\* What is left of a sequence when its beginning is taken away.
LEMMA Rest ==
  ASSUME NEW S, NEW s \in Seq(S), NEW n \in Nat, n + 2 <= Len(s)
  PROVE  /\ SubSeq(s, n + 3, Len(s)) \in Seq(S)
         /\ Len(SubSeq(s, n + 3, Len(s))) = Len(s) - (n + 2)
         /\ \A k \in 1..(Len(s) - (n + 2)) : SubSeq(s, n + 3, Len(s))[k] = s[n + 2 + k]
<1>1. Len(s) \in Nat /\ n + 3 \in Int /\ Len(s) \in Int /\ \A k \in (n + 3)..Len(s) : s[k] \in S
  OBVIOUS
<1>2. SubSeq(s, n + 3, Len(s)) \in Seq(S)
  BY <1>1, SubSeqProperties
<1>3. Len(SubSeq(s, n + 3, Len(s))) = IF n + 3 <= Len(s) THEN Len(s) - (n + 3) + 1 ELSE 0
  BY <1>1, SubSeqProperties
<1>4. \A k \in 1..(Len(s) - (n + 3) + 1) : SubSeq(s, n + 3, Len(s))[k] = s[(n + 3) + k - 1]
  BY <1>1, SubSeqProperties
<1>5. ASSUME NEW k \in 1..(Len(s) - (n + 2)) PROVE SubSeq(s, n + 3, Len(s))[k] = s[n + 2 + k]
  <2>1. k \in 1..(Len(s) - (n + 3) + 1) /\ (n + 3) + k - 1 = n + 2 + k
    BY <1>1
  <2> QED BY <1>4, <2>1
<1> QED BY <1>1, <1>2, <1>3, <1>5, RestLength

LEMMA SendKeeps == ASSUME StreamInv, Send PROVE StreamInv'
<1>1. PICK f \in Frames :
        /\ sent' = Append(sent, f) /\ flow' = flow \o Frame(f)
        /\ begins' = Append(begins, Len(flow) + Len(f.body) + 2)
        /\ arrived' = arrived /\ over' = over /\ buf' = buf /\ look' = look /\ read' = read
  BY DEF Send
<1> DEFINE n == Len(sent)
           b == Len(flow) + Len(f.body) + 2
<1>2. /\ sent \in Seq(Frames) /\ flow \in Seq(Unit) /\ begins \in Seq(Nat) /\ arrived \in Nat
      /\ read \in Seq(Messages) /\ n \in Nat /\ Len(flow) \in Nat /\ Len(begins) = n + 1
      /\ Len(f.body) \in Nat /\ b \in Nat /\ Len(read) \in Nat /\ Len(read) <= n
  BY FrameTyped, SMTT(40) DEF StreamInv, StreamTypes, Laid, Buffered
<1>3. StreamTypes'
  <2>1. sent' \in Seq(Frames) /\ begins' \in Seq(Nat)
    BY <1>1, <1>2
  <2>2. flow' \in Seq(Unit)
    BY <1>1, <1>2, FrameTyped
  <2> QED BY <1>1, <2>1, <2>2 DEF StreamInv, StreamTypes
\* What was there stays where it is.
<1>16. /\ Frame(f) \in Seq(Unit) /\ Len(Frame(f)) = Len(f.body) + 2
       /\ Len(flow \o Frame(f)) = Len(flow) + Len(Frame(f))
       /\ \A i \in 1..(Len(flow) + Len(Frame(f))) :
            (flow \o Frame(f))[i] = IF i <= Len(flow) THEN flow[i] ELSE Frame(f)[i - Len(flow)]
  <2>1. Frame(f) \in Seq(Unit) /\ Len(Frame(f)) = Len(f.body) + 2
    BY FrameTyped
  <2>2. flow \in Seq(Unit)
    BY <1>2
  <2> QED BY ONLY <2>1, <2>2, ConcatProperties
<1>4. Len(sent') = n + 1 /\ Len(begins') = n + 2 /\ Len(flow') = b
  BY <1>1, <1>2, <1>16
<1>5. /\ \A i \in 1..n : sent'[i] = sent[i]
      /\ \A i \in 1..(n + 1) : begins'[i] = begins[i]
      /\ sent'[n + 1] = f /\ begins'[n + 2] = b /\ begins[n + 1] = Len(flow)
  BY <1>1, <1>2 DEF StreamInv, Laid
<1>6. /\ \A i \in 1..Len(flow) : flow'[i] = flow[i]
      /\ \A i \in 1..(Len(f.body) + 2) : flow'[Len(flow) + i] = Frame(f)[i]
  <2>1. ASSUME NEW i \in 1..Len(flow) PROVE flow'[i] = flow[i]
    <3>1. i \in 1..(Len(flow) + Len(Frame(f))) /\ i <= Len(flow)
      BY <1>2, <1>16
    <3> QED BY <1>1, <1>16, <3>1
  <2>2. ASSUME NEW i \in 1..(Len(f.body) + 2) PROVE flow'[Len(flow) + i] = Frame(f)[i]
    <3>1. /\ Len(flow) + i \in 1..(Len(flow) + Len(Frame(f))) /\ ~(Len(flow) + i <= Len(flow))
          /\ Len(flow) + i - Len(flow) = i
      BY <1>2, <1>16
    <3> QED BY <1>1, <1>16, <3>1
  <2> QED BY <2>1, <2>2
<1>7. Laid'
  <2>1. \A i \in 1..n : begins[i + 1] = begins[i] + Len(sent[i].body) + 2 /\ begins[i + 1] <= Len(flow)
    BY DEF StreamInv, Laid
  <2>2. \A i \in 1..(n + 1) : /\ begins'[i + 1] = begins'[i] + Len(sent'[i].body) + 2
                              /\ begins'[i + 1] <= Len(flow')
    <3> SUFFICES ASSUME NEW i \in 1..(n + 1)
                 PROVE  begins'[i + 1] = begins'[i] + Len(sent'[i].body) + 2 /\ begins'[i + 1] <= Len(flow')
      OBVIOUS
    <3>1. CASE i \in 1..n
      <4>1. begins[i + 1] \in Nat /\ i + 1 \in 1..(n + 1) /\ i \in 1..(n + 1)
        BY <1>2, <3>1
      <4>2. begins'[i + 1] = begins[i + 1] /\ begins'[i] = begins[i] /\ sent'[i] = sent[i]
        BY <1>5, <3>1, <4>1
      <4>3. begins[i + 1] <= b
        <5>1. begins[i + 1] <= Len(flow)
          BY <2>1, <3>1
        <5>2. begins[i + 1] \in Nat /\ Len(flow) \in Nat /\ Len(f.body) \in Nat
          BY <1>2, <4>1
        <5> QED BY <5>1, <5>2
      <4> QED BY <1>4, <2>1, <3>1, <4>2, <4>3
    <3>2. CASE i = n + 1
      <4>1. i + 1 = n + 2 /\ n + 1 \in 1..(n + 1)
        BY <1>2, <3>2
      <4>2. begins'[i + 1] = b /\ begins'[i] = Len(flow) /\ sent'[i] = f
        BY <1>5, <3>2, <4>1
      <4> QED BY <1>2, <1>4, <4>2
    <3> QED BY <1>2, <3>1, <3>2
  <2>3. begins'[1] = 0
    BY <1>2, <1>5 DEF StreamInv, Laid
  <2> QED BY <1>2, <1>4, <1>5, <2>2, <2>3 DEF Laid
<1>8. Filled'
  <2> SUFFICES ASSUME NEW i \in 1..(n + 1) PROVE FrameAt(i)'
    BY <1>4 DEF Filled
  <2>1. CASE i \in 1..n
    <3>1. /\ FrameAt(i) /\ Len(sent[i].body) \in Nat /\ begins[i] \in Nat
          /\ begins[i + 1] = begins[i] + Len(sent[i].body) + 2 /\ begins[i + 1] <= Len(flow)
      <4>1. FrameAt(i) /\ begins[i + 1] = begins[i] + Len(sent[i].body) + 2 /\ begins[i + 1] <= Len(flow)
        BY <2>1 DEF StreamInv, Filled, Laid
      <4>2. Len(sent[i].body) \in Nat
        BY <2>1, FramesTyped DEF StreamInv
      <4>3. begins[i] \in Nat
        BY <1>2, <2>1
      <4> QED BY <4>1, <4>2, <4>3
    <3>2. sent'[i] = sent[i] /\ begins'[i] = begins[i]
      BY <1>2, <1>5, <2>1
    <3>3. \A j \in 1..(Len(sent[i].body) + 2) : flow'[begins[i] + j] = flow[begins[i] + j]
      <4> SUFFICES ASSUME NEW j \in 1..(Len(sent[i].body) + 2) PROVE flow'[begins[i] + j] = flow[begins[i] + j]
        OBVIOUS
      <4>1. begins[i] + j \in 1..Len(flow)
        <5>1. begins[i] + Len(sent[i].body) + 2 <= Len(flow)
          BY <3>1
        <5>2. begins[i] \in Nat /\ Len(sent[i].body) \in Nat /\ Len(flow) \in Nat
          BY <1>2, <3>1
        <5> QED BY <5>1, <5>2, WithinFrame
      <4> QED BY <1>6, <4>1
    <3>4. flow'[begins[i] + 1] = flow[begins[i] + 1] /\ flow'[begins[i] + 2] = flow[begins[i] + 2]
      BY <3>1, <3>3
    <3>5. ASSUME NEW k \in 1..Len(sent[i].body)
          PROVE  flow'[begins[i] + 2 + k] = flow[begins[i] + 2 + k]
      <4>1. 2 + k \in 1..(Len(sent[i].body) + 2) /\ begins[i] + (2 + k) = begins[i] + 2 + k
        BY <3>1, SMTT(40)
      <4> QED BY <3>3, <4>1
    <3> QED BY <3>1, <3>2, <3>4, <3>5 DEF FrameAt
  <2>2. CASE i = n + 1
    <3>1. sent'[i] = f /\ begins'[i] = Len(flow)
      BY <1>2, <1>5, <2>2
    <3>2. Frame(f)[1] = f.tag /\ Frame(f)[2] = 1 + Len(f.body)
          /\ \A k \in 1..Len(f.body) : Frame(f)[2 + k] = f.body[k]
      BY FrameTyped
    <3>3. flow'[Len(flow) + 1] = f.tag /\ flow'[Len(flow) + 2] = 1 + Len(f.body)
      BY <1>2, <1>6, <3>2, SMTT(40)
    <3>4. ASSUME NEW k \in 1..Len(f.body) PROVE flow'[Len(flow) + 2 + k] = f.body[k]
      <4>1. 2 + k \in 1..(Len(f.body) + 2) /\ Len(flow) + (2 + k) = Len(flow) + 2 + k
        BY <1>2
      <4> QED BY <1>6, <3>2, <4>1
    <3> QED BY <3>1, <3>3, <3>4 DEF FrameAt
  <2> QED BY <1>2, <2>1, <2>2
<1>9. Buffered'
  <2>1. /\ arrived <= Len(flow) /\ begins[Len(read) + 1] + Len(buf) = arrived /\ begins[Len(read) + 1] \in Nat
        /\ Len(buf) \in Nat /\ \A k \in 1..Len(buf) : buf[k] = flow[begins[Len(read) + 1] + k]
    BY NextBegins DEF StreamInv, Buffered
  <2>2. begins'[Len(read) + 1] = begins[Len(read) + 1]
    BY <1>2, <1>5
  <2>3. \A k \in 1..Len(buf) : flow'[begins[Len(read) + 1] + k] = flow[begins[Len(read) + 1] + k]
    <3> SUFFICES ASSUME NEW k \in 1..Len(buf)
                 PROVE  flow'[begins[Len(read) + 1] + k] = flow[begins[Len(read) + 1] + k]
      OBVIOUS
    <3>1. begins[Len(read) + 1] + k \in 1..Len(flow)
      BY <1>2, <2>1, SMTT(40)
    <3> QED BY <1>6, <3>1
  <2>4. Len(read) <= Len(sent') /\ arrived <= Len(flow')
    BY <1>2, <1>4, <2>1, SMTT(40)
  <2> QED BY <1>1, <2>1, <2>2, <2>3, <2>4 DEF Buffered
<1>10. \A i \in 1..Len(read) : i \in 1..n /\ sent'[i] = sent[i]
  BY <1>2, <1>5
<1>11. Len(read) > 0 => LastTaken' = LastTaken
  BY <1>1, <1>2, <1>10 DEF LastTaken
<1>12. ErrorLast'
  BY <1>1, <1>11 DEF StreamInv, ErrorLast, Known
<1>13. InOrder'
  <2>1. InOrder
    BY DEF StreamInv
  <2>2. DOMAIN read = 1..Len(read)
    BY <1>2
  <2>3. Len(read) <= Len(sent')
    BY <1>2, <1>4
  <2>4. \A i \in DOMAIN read : read[i] = MessageOf(sent'[i].tag, sent'[i].body)
    BY <1>10, <2>1, <2>2 DEF InOrder
  <2>5. ASSUME NEW i \in 1..(Len(read) - 1), sent'[i].tag \in Tags PROVE read[i] # None
    <3>1. i \in 1..Len(read)
      BY <1>2
    <3>2. sent[i].tag \in Tags
      BY <1>10, <2>5, <3>1
    <3> QED BY <2>1, <3>2 DEF InOrder, Known
  <2> QED BY <1>1, <2>3, <2>4, <2>5 DEF InOrder, Known
<1>14. NoneLeft'
  <2> SUFFICES ASSUME look \in {"wait", "closed", "broken"}, HasCome(Len(read) + 1)'
               PROVE  Len(read) > 0 /\ ~Known(LastTaken)
    BY <1>1, <1>11 DEF NoneLeft, Known
  <2>1. begins'[Len(read) + 2] <= arrived
    <3>1. begins'[(Len(read) + 1) + 1] <= arrived
      BY <1>1 DEF HasCome
    <3>2. (Len(read) + 1) + 1 = Len(read) + 2
      BY <1>2
    <3> QED BY <3>1, <3>2
  <2>2. Len(read) # n
    <3> SUFFICES ASSUME Len(read) = n PROVE FALSE
      OBVIOUS
    <3>1. arrived <= Len(flow)
      BY DEF StreamInv, Buffered
    <3> QED BY <1>2, <1>5, <2>1, <3>1
  <2>3. Len(read) + 2 \in 1..(n + 1) /\ Len(read) + 1 \in 1..n
    BY <1>2, <2>2
  <2>4. HasCome(Len(read) + 1)
    <3>1. Len(read) + 1 \in DOMAIN sent /\ begins[(Len(read) + 1) + 1] <= arrived
      BY <1>2, <1>5, <2>1, <2>3, SMTT(40)
    <3> QED BY <3>1 DEF HasCome
  <2> QED BY <2>4 DEF StreamInv, NoneLeft
<1>15. ErrorsReal'
  <2> SUFFICES ASSUME look = "failed"
               PROVE  \/ Len(read) > 0 /\ Known(LastTaken) /\ read[Len(read)] = None
                      \/ Len(read) < Len(sent') /\ TooLong(sent'[Len(read) + 1])
    BY <1>1, <1>11 DEF ErrorsReal, Known, TooLong
  <2>1. CASE Len(read) < Len(sent) /\ TooLong(sent[Len(read) + 1])
    <3>1. Len(read) + 1 \in 1..n
      BY <1>2, <2>1
    <3> QED BY <1>2, <1>4, <1>5, <2>1, <3>1
  <2> QED BY <2>1 DEF StreamInv, ErrorsReal
<1> QED BY <1>3, <1>7, <1>8, <1>9, <1>12, <1>13, <1>14, <1>15 DEF StreamInv

LEMMA EndKeeps == ASSUME StreamInv, End PROVE StreamInv'
<1> USE DEF End
<1>1. StreamTypes'
  BY DEF StreamInv, StreamTypes
<1>2. Laid' /\ Filled' /\ Buffered'
  BY DEF StreamInv, Laid, Filled, FrameAt, Buffered
<1>3. ErrorLast' /\ InOrder' /\ NoneLeft' /\ ErrorsReal'
  BY DEF StreamInv, ErrorLast, InOrder, NoneLeft, ErrorsReal, LastTaken, HasCome, Known, TooLong
<1> QED BY <1>1, <1>2, <1>3 DEF StreamInv

LEMMA WaitsOver ==
  ASSUME StreamInv, look = "wait", look' \in {"last", "broken"},
         UNCHANGED <<sent, flow, begins, arrived, over, buf, read>>
  PROVE  StreamInv'
<1>1. /\ sent' = sent /\ flow' = flow /\ begins' = begins /\ arrived' = arrived /\ over' = over
      /\ buf' = buf /\ read' = read
  OBVIOUS
<1>2. StreamTypes'
  BY <1>1 DEF StreamInv, StreamTypes, Looks
<1>3. Laid' /\ Filled' /\ Buffered'
  <2>1. Laid' /\ Filled'
    BY <1>1 DEF StreamInv, Laid, Filled, FrameAt
  <2>2. Buffered
    BY DEF StreamInv
  <2> QED BY <1>1, <2>1, <2>2 DEF Buffered
<1>4. InOrder' /\ ErrorsReal'
  BY <1>1 DEF StreamInv, InOrder, ErrorsReal, Known
<1>5. ErrorLast'
  <2>1. ~(Len(read) > 0 /\ Known(LastTaken) /\ read[Len(read)] = None)
    BY DEF StreamInv, ErrorLast
  <2> QED BY <1>1, <2>1 DEF ErrorLast, LastTaken, Known
<1>6. NoneLeft'
  <2>1. HasCome(Len(read) + 1) => Len(read) > 0 /\ ~Known(LastTaken)
    BY DEF StreamInv, NoneLeft
  <2> QED BY <1>1, <2>1 DEF NoneLeft, HasCome, LastTaken, Known
<1> QED BY <1>2, <1>3, <1>4, <1>5, <1>6 DEF StreamInv

LEMMA ArriveKeeps == ASSUME StreamInv, Arrive PROVE StreamInv'
<1>1. PICK n \in 1..(Len(flow) - arrived) :
        arrived' = arrived + n /\ buf' = buf \o SubSeq(flow, arrived + 1, arrived + n)
  BY DEF Arrive
<1>2. /\ look = "wait" /\ look' = "parse" /\ sent' = sent /\ flow' = flow /\ begins' = begins
      /\ over' = over /\ read' = read
  BY DEF Arrive
<1>3. /\ flow \in Seq(Unit) /\ buf \in Seq(Unit) /\ arrived \in Nat /\ Len(flow) \in Nat /\ Len(buf) \in Nat
      /\ n \in Nat /\ 1 <= n /\ arrived + n <= Len(flow)
  <2>1. flow \in Seq(Unit) /\ buf \in Seq(Unit) /\ arrived \in Nat
    BY DEF StreamInv, StreamTypes
  <2> QED BY <2>1
<1> DEFINE s == SubSeq(flow, arrived + 1, arrived + n)
           at == begins[Len(read) + 1]
<1>4. /\ s \in Seq(Unit) /\ Len(s) = n /\ \A k \in 1..n : s[k] = flow[arrived + k]
  <2>1. \A k \in (arrived + 1)..(arrived + n) : flow[k] \in Unit
    BY <1>3
  <2>2. arrived + 1 \in Int /\ arrived + n \in Int
    BY <1>3
  <2>3. s \in Seq(Unit)
    BY <2>1, <2>2, SubSeqProperties
  <2>4. Len(s) = IF arrived + 1 <= arrived + n THEN (arrived + n) - (arrived + 1) + 1 ELSE 0
    BY <2>1, <2>2, SubSeqProperties
  <2>5. \A k \in 1..((arrived + n) - (arrived + 1) + 1) : s[k] = flow[(arrived + 1) + k - 1]
    BY <2>1, <2>2, SubSeqProperties
  <2>6. ASSUME NEW k \in 1..n PROVE s[k] = flow[arrived + k]
    <3>1. k \in 1..((arrived + n) - (arrived + 1) + 1) /\ (arrived + 1) + k - 1 = arrived + k
      BY <1>3
    <3> QED BY <2>5, <3>1
  <2>7. Len(s) = n
    <3>1. arrived + 1 <= arrived + n /\ (arrived + n) - (arrived + 1) + 1 = n
      BY <1>3
    <3> QED BY <2>4, <3>1
  <2> QED BY <2>3, <2>6, <2>7
<1>5. /\ buf \o s \in Seq(Unit) /\ Len(buf \o s) = Len(buf) + Len(s)
      /\ \A k \in 1..(Len(buf) + Len(s)) : (buf \o s)[k] = IF k <= Len(buf) THEN buf[k] ELSE s[k - Len(buf)]
  <2>1. buf \in Seq(Unit) /\ s \in Seq(Unit)
    BY <1>3, <1>4
  <2> QED BY ONLY <2>1, ConcatProperties
<1>6. StreamTypes'
  BY <1>1, <1>2, <1>3, <1>5 DEF StreamInv, StreamTypes, Looks
<1>7. Laid' /\ Filled' /\ InOrder' /\ NoneLeft'
  BY <1>2 DEF StreamInv, Laid, Filled, FrameAt, InOrder, NoneLeft, Known
<1>8. ErrorLast' /\ ErrorsReal'
  <2>1. ~(Len(read) > 0 /\ Known(LastTaken) /\ read[Len(read)] = None)
    BY <1>2 DEF StreamInv, ErrorLast
  <2> QED BY <1>2, <2>1 DEF ErrorLast, ErrorsReal, LastTaken, Known
<1>9. Buffered'
  <2>1. /\ Len(read) <= Len(sent) /\ at \in Nat /\ at + Len(buf) = arrived
        /\ \A k \in 1..Len(buf) : buf[k] = flow[at + k]
    BY NextBegins DEF StreamInv, Buffered
  <2>2. ASSUME NEW k \in 1..(Len(buf) + n) PROVE (buf \o s)[k] = flow[at + k]
    <3>1. CASE k <= Len(buf)
      <4>1. k \in 1..Len(buf) /\ k \in 1..(Len(buf) + Len(s))
        BY <1>3, <1>4, <3>1
      <4> QED BY <1>5, <2>1, <3>1, <4>1
    <3>2. CASE ~(k <= Len(buf))
      <4>1. k - Len(buf) \in 1..n /\ k \in 1..(Len(buf) + Len(s)) /\ arrived + (k - Len(buf)) = at + k
        <5>1. k \in Nat /\ k <= Len(buf) + n /\ Len(buf) \in Nat /\ n \in Nat /\ at \in Nat
          BY <1>3, <2>1
        <5>2. at + Len(buf) = arrived /\ Len(s) = n
          BY <1>4, <2>1
        <5>3. /\ k - Len(buf) \in 1..n /\ k \in 1..(Len(buf) + n)
              /\ (at + Len(buf)) + (k - Len(buf)) = at + k
          BY ONLY <3>2, <5>1, SMTT(40)
        <5> QED BY ONLY <5>2, <5>3, ZenonT(40)
      <4>2. (buf \o s)[k] = s[k - Len(buf)]
        BY <1>5, <3>2, <4>1
      <4> QED BY <1>4, <4>1, <4>2
    <3> QED BY <3>1, <3>2
  <2>3. Len(buf') = Len(buf) + n /\ arrived' = arrived + n
    BY <1>1, <1>4, <1>5
  <2>4. \A k \in 1..Len(buf') : buf'[k] = flow[at + k]
    BY <1>1, <2>2, <2>3
  <2>5. at + Len(buf') = arrived' /\ arrived' <= Len(flow)
    <3>1. at + Len(buf) = arrived /\ at \in Nat
      BY <2>1
    <3> QED BY <1>3, <2>3, <3>1, SMTT(40)
  <2> QED BY <1>2, <2>1, <2>4, <2>5 DEF Buffered
<1> QED BY <1>6, <1>7, <1>8, <1>9 DEF StreamInv

LEMMA ParseKeeps == ASSUME StreamInv, Parse PROVE StreamInv'
<1> DEFINE p == ParseMessage(buf)
           r == Len(read)
<1>1. /\ look \in {"parse", "last"} /\ buf' = p.buf /\ read' = read \o p.has
      /\ sent' = sent /\ flow' = flow /\ begins' = begins /\ arrived' = arrived /\ over' = over
      /\ look' = CASE p.res = "message" -> "parse" [] p.res = "error" -> "failed"
                   [] OTHER -> IF look = "last" THEN "closed" ELSE "wait"
  BY DEF Parse
<1>2. ~(r > 0 /\ Known(LastTaken) /\ read[r] = None)
  BY <1>1 DEF StreamInv, ErrorLast
<1>3. read \in Seq(Messages) /\ r \in Nat /\ buf \in Seq(Unit) /\ arrived \in Nat /\ InOrder
  BY DEF StreamInv, StreamTypes
<1>4. look' \in Looks
  BY <1>1 DEF Looks
<1>5. Laid' /\ Filled'
  BY <1>1 DEF StreamInv, Laid, Filled, FrameAt
\* The buffer stays as it is, and so does what was read.
<1>6. ASSUME p.buf = buf, p.has = <<>>,
             look' \in {"wait", "closed"} => ~HasCome(r + 1),
             look' = "failed" => r < Len(sent) /\ TooLong(sent[r + 1])
      PROVE  StreamInv'
  <2>1. read' = read /\ buf' = buf
    BY <1>1, <1>3, <1>6
  <2>2. StreamTypes'
    BY <1>1, <1>4, <2>1 DEF StreamInv, StreamTypes
  <2>3. Buffered' /\ InOrder'
    <3>1. Buffered /\ InOrder
      BY DEF StreamInv
    <3>2. Buffered'
      BY <1>1, <2>1, <3>1 DEF Buffered
    <3> QED BY <1>1, <2>1, <3>1, <3>2 DEF InOrder, Known
  <2>4. ErrorLast'
    BY <1>1, <1>2, <2>1 DEF ErrorLast, LastTaken, Known
  <2>5. NoneLeft'
    <3>1. look' # "broken"
      BY <1>1
    <3> QED BY <1>1, <1>6, <2>1, <3>1 DEF NoneLeft, HasCome
  <2>6. ErrorsReal'
    BY <1>1, <1>6, <2>1 DEF ErrorsReal, TooLong
  <2> QED BY <1>5, <2>2, <2>3, <2>4, <2>5, <2>6 DEF StreamInv
<1>7. CASE p.res = "none"
  <2>1. p.buf = buf /\ p.has = <<>> /\ ~HasCome(r + 1)
    BY <1>7, ParseNothing
  <2>2. look' # "failed"
    BY <1>1, <1>7
  <2> QED BY <1>6, <2>1, <2>2
<1>8. CASE p.res # "none" /\ TooLong(sent[r + 1]) /\ p = [buf |-> buf, res |-> "error", has |-> <<>>]
  <2>1. r < Len(sent) /\ look' = "failed"
    BY <1>1, <1>8, ParseTakes
  <2> QED BY <1>6, <1>8, <2>1
<1>9. CASE /\ p.res # "none"
           /\ ~(TooLong(sent[r + 1]) /\ p = [buf |-> buf, res |-> "error", has |-> <<>>])
  <2> DEFINE f == sent[r + 1]
             msg == MessageOf(f.tag, f.body)
             n == Len(f.body)
  <2>1. /\ r < Len(sent) /\ begins[r + 2] <= arrived
        /\ p.buf = SubSeq(buf, n + 3, Len(buf)) /\ p.has = <<msg>>
        /\ p.res = IF ~Known(f) THEN "skipped" ELSE IF msg = None THEN "error" ELSE "message"
    <3>1. /\ r < Len(sent) /\ begins[r + 2] <= arrived
          /\ p = [buf |-> SubSeq(buf, n + 3, Len(buf)),
                  res |-> IF ~Known(f) THEN "skipped" ELSE IF msg = None THEN "error" ELSE "message",
                  has |-> <<msg>>]
      BY <1>9, ParseTakes, Zenon
    <3> HIDE DEF p, msg
    <3> QED BY <3>1
  <2>2. /\ n \in Nat /\ Len(buf) \in Nat /\ Len(sent) \in Nat /\ begins[r + 1] \in Nat
        /\ begins[r + 1] + Len(buf) = arrived /\ begins[r + 2] = begins[r + 1] + n + 2
        /\ r + 1 \in 1..Len(sent) /\ n + 2 <= Len(buf)
    <3>1. /\ n \in Nat /\ Len(buf) \in Nat /\ Len(sent) \in Nat /\ begins[r + 1] \in Nat
          /\ begins[r + 1] + Len(buf) = arrived /\ begins[r + 2] = begins[r + 1] + n + 2
          /\ r + 1 \in 1..Len(sent)
      BY <2>1, NextBegins
    <3>2. n + 2 <= Len(buf)
      BY <2>1, <3>1
    <3> QED BY <3>1, <3>2
  <2>3. f \in Frames /\ msg \in Messages
    <3>1. f \in Frames
      BY <2>2, FramesTyped DEF StreamInv
    <3> QED BY <3>1 DEF Messages
  <2>4. /\ read' \in Seq(Messages) /\ Len(read') = r + 1 /\ read'[r + 1] = msg
        /\ \A i \in 1..r : read'[i] = read[i]
    BY <1>1, <1>3, <2>1, <2>3
  <2>5. /\ buf' \in Seq(Unit) /\ Len(buf') = Len(buf) - (n + 2)
        /\ \A k \in 1..Len(buf') : buf'[k] = buf[n + 2 + k]
    <3>1. buf \in Seq(Unit) /\ n \in Nat /\ n + 2 <= Len(buf)
      BY <1>3, <2>2
    <3> HIDE DEF n
    <3>2. /\ SubSeq(buf, n + 3, Len(buf)) \in Seq(Unit)
          /\ Len(SubSeq(buf, n + 3, Len(buf))) = Len(buf) - (n + 2)
          /\ \A k \in 1..(Len(buf) - (n + 2)) : SubSeq(buf, n + 3, Len(buf))[k] = buf[n + 2 + k]
      BY <3>1, Rest
    <3>3. buf' = SubSeq(buf, n + 3, Len(buf))
      BY <1>1, <2>1
    <3> QED BY <3>2, <3>3
  <2>6. StreamTypes'
    BY <1>1, <1>4, <2>4, <2>5 DEF StreamInv, StreamTypes
  <2>7. Buffered'
    <3>1. /\ r <= Len(sent) /\ arrived <= Len(flow)
          /\ \A k \in 1..Len(buf) : buf[k] = flow[begins[r + 1] + k]
      BY DEF StreamInv, Buffered
    <3>2. (r + 1) + 1 = r + 2 /\ r + 1 <= Len(sent)
      BY <1>3, <2>2
    <3>3. begins[r + 2] + Len(buf') = arrived
      BY <2>2, <2>5, SMTT(40)
    <3>4. ASSUME NEW k \in 1..Len(buf') PROVE buf'[k] = flow[begins[r + 2] + k]
      <4>1. n + 2 + k \in 1..Len(buf) /\ begins[r + 1] + (n + 2 + k) = begins[r + 2] + k
        BY <2>2, <2>5, SMTT(40)
      <4> QED BY <2>5, <3>1, <4>1
    <3> QED BY <1>1, <2>4, <3>1, <3>2, <3>3, <3>4 DEF Buffered
  <2>8. LastTaken' = f /\ read'[Len(read')] = msg
    BY <1>1, <2>4 DEF LastTaken
  <2>9. ErrorLast'
    BY <1>1, <2>1, <2>8 DEF ErrorLast, Known
  <2>10. InOrder'
    <3>1. Len(read') <= Len(sent)
      BY <2>2, <2>4
    <3>2. DOMAIN read' = 1..(r + 1)
      BY <2>4
    <3>3. \A i \in 1..(r + 1) : read'[i] = MessageOf(sent[i].tag, sent[i].body)
      <4> SUFFICES ASSUME NEW i \in 1..(r + 1) PROVE read'[i] = MessageOf(sent[i].tag, sent[i].body)
        OBVIOUS
      <4>1. CASE i = r + 1
        BY <2>4, <4>1
      <4>2. CASE i \in 1..r
        <5>1. i \in DOMAIN read
          BY <1>3, <4>2
        <5> QED BY <1>3, <2>4, <4>2, <5>1 DEF InOrder
      <4> QED BY <1>3, <4>1, <4>2
    <3>4. ASSUME NEW i \in 1..((r + 1) - 1), Known(sent[i]) PROVE read'[i] # None
      <4>1. i \in 1..r /\ (i \in 1..(r - 1) \/ i = r)
        BY <1>3
      <4>2. CASE i \in 1..(r - 1)
        BY <1>3, <2>4, <3>4, <4>1, <4>2 DEF InOrder
      <4>3. CASE i = r
        <5>1. Known(LastTaken) /\ r > 0
          BY <1>3, <3>4, <4>1, <4>3 DEF LastTaken
        <5> QED BY <1>2, <2>4, <4>1, <4>3, <5>1
      <4> QED BY <4>1, <4>2, <4>3
    <3> QED BY <1>1, <2>4, <3>1, <3>2, <3>3, <3>4 DEF InOrder, Known
  <2>11. NoneLeft'
    <3>1. look' \in {"wait", "closed", "broken"} => p.res = "skipped"
      BY <1>1, <2>1
    <3>2. p.res = "skipped" => ~Known(f)
      BY <2>1
    <3>3. Len(read') > 0
      BY <1>3, <2>4
    <3> QED BY <2>8, <3>1, <3>2, <3>3 DEF NoneLeft, Known
  <2>12. ErrorsReal'
    <3>1. look' = "failed" => Known(f) /\ msg = None
      BY <1>1, <2>1
    <3>2. Len(read') > 0
      BY <1>3, <2>4
    <3> QED BY <2>8, <3>1, <3>2 DEF ErrorsReal, Known
  <2> QED BY <1>5, <2>6, <2>7, <2>9, <2>10, <2>11, <2>12 DEF StreamInv
<1> QED BY <1>7, <1>8, <1>9

LEMMA StreamSteps == StreamInv /\ [FramingNext]_framingVars => StreamInv'
<1> SUFFICES ASSUME StreamInv, [FramingNext]_framingVars PROVE StreamInv'
  OBVIOUS
<1>1. CASE Send
  BY <1>1, SendKeeps
<1>2. CASE End
  BY <1>2, EndKeeps
<1>3. CASE Arrive
  BY <1>3, ArriveKeeps
<1>4. CASE ReadNothing
  BY <1>4, WaitsOver DEF ReadNothing
<1>5. CASE ReadFails
  BY <1>5, WaitsOver DEF ReadFails
<1>6. CASE Parse
  BY <1>6, ParseKeeps
<1>7. CASE UNCHANGED framingVars
  <2>1. /\ sent' = sent /\ flow' = flow /\ begins' = begins /\ arrived' = arrived /\ over' = over
        /\ buf' = buf /\ look' = look /\ read' = read
    BY <1>7 DEF framingVars
  <2>2. StreamTypes' /\ Laid' /\ Filled' /\ Buffered'
    BY <2>1 DEF StreamInv, StreamTypes, Laid, Filled, FrameAt, Buffered
  <2>3. ErrorLast' /\ InOrder' /\ NoneLeft' /\ ErrorsReal'
    BY <2>1 DEF StreamInv, ErrorLast, InOrder, NoneLeft, ErrorsReal, LastTaken, HasCome, Known, TooLong
  <2> QED BY <2>2, <2>3 DEF StreamInv
<1> QED BY <1>1, <1>2, <1>3, <1>4, <1>5, <1>6, <1>7 DEF FramingNext

\* Whatever the server sends, wherever its stream is cut and wherever it ends, read_msg and
\* parse_message give the messages that were sent, each once and in order, as soon as it is
\* complete, and no half of one.
THEOREM StreamRead == FramingSpec => []FramesKept
<1>1. StreamInv => FramesKept
  BY DEF StreamInv, FramesKept
<1> QED BY <1>1, FramingStarts, StreamSteps, PTL DEF FramingSpec

-----------------------------------------------------------------------------
(* The calendar.  A day is the u-th of a year that begins in March, the    *)
(* t-th of four, the q-th four of a century c of the era.                  *)

LongYear(c, q, t) == t = 3 /\ (q < 24 \/ c = 3)
Place(era, c, q, t, u) ==
  /\ era \in Nat /\ c \in 0..3 /\ q \in 0..24 /\ t \in 0..3
  /\ u \in 0..365 /\ (u = 365 => LongYear(c, q, t))
EraDay(c, q, t, u) == 36524 * c + 1461 * q + 365 * t + u
DayAt(era, c, q, t, u) == 146097 * era + EraDay(c, q, t, u)

LEMMA Divided ==
  ASSUME NEW z \in Nat, NEW k \in Nat \ {0}
  PROVE  /\ z \div k \in Nat /\ z = k * (z \div k) + (z % k)
         /\ z % k \in Nat /\ z % k < k
<1>1. z \div k \in Nat
  BY SMT
<1>2. z % k \in 0..(k - 1)
  BY SMT
<1>3. z = k * (z \div k) + (z % k)
  BY SMT
<1> QED
  BY <1>1, <1>2, <1>3, SMT

LEMMA Quotient ==
  ASSUME NEW k \in Nat \ {0}, NEW a \in Int, NEW r \in Nat, r < k, NEW n, n = k * a + r
  PROVE  n \div k = a
  BY SMT

LEMMA EveryDayHasAPlace ==
  ASSUME NEW z \in Nat
  PROVE  \E era, c, q, t, u : Place(era, c, q, t, u) /\ z = DayAt(era, c, q, t, u)
<1>1. \E era, e \in Nat : z = 146097 * era + e /\ e < 146097
  <2>1. z \div 146097 \in Nat /\ z = 146097 * (z \div 146097) + (z % 146097) /\ z % 146097 \in Nat /\ z % 146097 < 146097
    BY Divided, SMT
  <2> QED
    BY <2>1, SMT
<1>2. PICK era, e \in Nat : z = 146097 * era + e /\ e < 146097
  BY <1>1, SMT
<1>3. \E c, r \in Nat : e = 36524 * c + r /\ c <= 3 /\ (r < 36524 \/ (c = 3 /\ r = 36524))
  <2>1. CASE e = 146096
    <3>1. e = 36524 * 3 + 36524
      BY <2>1, SMT
    <3> QED
      BY <3>1, SMT
  <2>2. CASE e < 146096
    <3>1. e \div 36524 \in Nat /\ e = 36524 * (e \div 36524) + (e % 36524) /\ e % 36524 \in Nat /\ e % 36524 < 36524
      BY <1>2, Divided, SMT
    <3>2. e \div 36524 <= 3
      BY <1>2, <2>2, <3>1, SMT
    <3> QED
      BY <3>1, <3>2, SMT
  <2> QED
    BY <1>2, <2>1, <2>2, SMT
<1>4. PICK c, r \in Nat : e = 36524 * c + r /\ c <= 3 /\ (r < 36524 \/ (c = 3 /\ r = 36524))
  BY <1>3, SMT
<1>5. \E q, s \in Nat : r = 1461 * q + s /\ q <= 24 /\ s <= 1460
  <2>1. r \div 1461 \in Nat /\ r = 1461 * (r \div 1461) + (r % 1461) /\ r % 1461 \in Nat /\ r % 1461 < 1461
    BY <1>4, Divided, SMT
  <2>2. r \div 1461 <= 24
    BY <1>4, <2>1, SMT
  <2> QED
    BY <2>1, <2>2, SMT
<1>6. PICK q, s \in Nat : r = 1461 * q + s /\ q <= 24 /\ s <= 1460
  BY <1>5, SMT
<1>7. \E t, u \in Nat : s = 365 * t + u /\ t <= 3 /\ (u < 365 \/ (t = 3 /\ u = 365))
  <2>1. CASE s = 1460
    <3>1. s = 365 * 3 + 365
      BY <2>1, SMT
    <3> QED
      BY <3>1, SMT
  <2>2. CASE s < 1460
    <3>1. s \div 365 \in Nat /\ s = 365 * (s \div 365) + (s % 365) /\ s % 365 \in Nat /\ s % 365 < 365
      BY <1>6, Divided, SMT
    <3>2. s \div 365 <= 3
      BY <1>6, <2>2, <3>1, SMT
    <3> QED
      BY <3>1, <3>2, SMT
  <2> QED
    BY <1>6, <2>1, <2>2, SMT
<1>8. PICK t, u \in Nat : s = 365 * t + u /\ t <= 3 /\ (u < 365 \/ (t = 3 /\ u = 365))
  BY <1>7, SMT
<1>9. u = 365 => LongYear(c, q, t)
  BY <1>4, <1>6, <1>8, SMT DEF LongYear
<1>10. Place(era, c, q, t, u)
  BY <1>2, <1>4, <1>6, <1>8, <1>9, SMT DEF Place
<1>11. z = DayAt(era, c, q, t, u)
  BY <1>2, <1>4, <1>6, <1>8, SMT DEF DayAt, EraDay
<1> QED
  BY <1>10, <1>11, SMT

\* What the code computes of a day of the era: the year, and the day in it.
LEMMA YearFound ==
  ASSUME NEW era, NEW c, NEW q, NEW t, NEW u, Place(era, c, q, t, u)
  PROVE  /\ YearOf(EraDay(c, q, t, u)) = 100 * c + 4 * q + t
         /\ DayOf(EraDay(c, q, t, u), 100 * c + 4 * q + t) = u
<1> DEFINE doe == EraDay(c, q, t, u)
<1>e. doe = 36524 * c + 1461 * q + 365 * t + u
  BY SMT DEF EraDay
<1> HIDE DEF doe
<1> DEFINE y == 100 * c + 4 * q + t
<1>1. /\ c \in 0..3 /\ q \in 0..24 /\ t \in 0..3 /\ u \in 0..365
      /\ (u = 365 => t = 3 /\ (q < 24 \/ c = 3))
  BY SMT DEF Place, LongYear
<1>2. PICK late \in 0..1 : late = 1 <=> 24 * c + q + 365 * t + u >= 1460
  BY <1>1, SMT
<1>3. PICK last \in 0..1 : last = 1 <=> u = 365 /\ q = 24 /\ t = 3
  BY <1>1, SMT
<1>4. doe \div 1460 = 25 * c + q + late
  <2>1. 24 * c + q + 365 * t + u - 1460 * late \in Nat /\ 24 * c + q + 365 * t + u - 1460 * late < 1460
    BY <1>1, <1>2, SMT
  <2>2. doe = 1460 * (25 * c + q + late) + (24 * c + q + 365 * t + u - 1460 * late)
    BY <1>1, <1>e, SMT
  <2>3. 25 * c + q + late \in Int /\ 1460 \in Nat \ {0}
    BY <1>1, SMT
  <2> QED
    BY <1>1, <2>1, <2>2, <2>3, Quotient, SMT
<1>5. doe \div 36524 = c + last
  <2>1. 1461 * q + 365 * t + u - 36524 * last \in Nat /\ 1461 * q + 365 * t + u - 36524 * last < 36524
    <3>1. CASE last = 1
      BY <1>1, <1>3, <3>1, SMT
    <3>2. CASE last = 0
      BY <1>1, <1>3, <1>e, <3>2, SMT
    <3> QED
      BY <1>1, <1>3, <3>1, <3>2, SMT
  <2>2. doe = 36524 * (c + last) + (1461 * q + 365 * t + u - 36524 * last)
    BY <1>1, <1>e, SMT
  <2>3. c + last \in Int /\ 36524 \in Nat \ {0}
    BY <1>1, SMT
  <2> QED
    BY <1>1, <2>1, <2>2, <2>3, Quotient, SMT
<1>6. doe \div 146096 = last
  <2>1. doe - 146096 * last \in Nat /\ doe - 146096 * last < 146096
    <3>1. CASE last = 1
      BY <1>1, <1>3, <1>e, <3>1, SMT
    <3>2. CASE last = 0
      BY <1>1, <1>3, <1>e, <3>2, SMT
    <3> QED
      BY <1>1, <1>3, <3>1, <3>2, SMT
  <2>2. doe = 146096 * last + (doe - 146096 * last)
    BY <1>1, <1>e, <1>3, SMT
  <2>3. last \in Int /\ 146096 \in Nat \ {0}
    BY <1>1, SMT
  <2> QED
    BY <1>1, <2>1, <2>2, <2>3, Quotient, SMT
<1>7. doe - doe \div 1460 + doe \div 36524 - doe \div 146096 = 365 * y + (u - late)
  BY <1>1, <1>e, <1>4, <1>5, <1>6, SMT
<1>8. u - late \in Nat /\ u - late < 365
  BY <1>1, <1>2, SMT
<1>9. (doe - doe \div 1460 + doe \div 36524 - doe \div 146096) \div 365 = y
  <2>1. y \in Int /\ 365 \in Nat \ {0}
    BY <1>1, SMT
  <2> HIDE DEF y
  <2> QED
    BY <1>1, <1>7, <1>8, <2>1, Quotient, SMT
<1>10. y \div 4 = 25 * c + q
  <2>1. y = 4 * (25 * c + q) + t /\ t \in Nat /\ t < 4 /\ 25 * c + q \in Int /\ 4 \in Nat \ {0}
    BY <1>1, SMT
  <2> HIDE DEF y
  <2> QED
    BY <1>1, <2>1, Quotient, SMT
<1>11. y \div 100 = c
  <2>1. y = 100 * c + (4 * q + t) /\ 4 * q + t \in Nat /\ 4 * q + t < 100 /\ 100 \in Nat \ {0}
    BY <1>1, SMT
  <2> HIDE DEF y
  <2> QED
    BY <1>1, <2>1, Quotient, SMT
<1>12. doe - (365 * y + y \div 4 - y \div 100) = u
  BY <1>1, <1>e, <1>10, <1>11, SMT
<1> QED
  BY <1>1, <1>9, <1>12, SMT DEF YearOf, DayOf, doe

LEMMA DateOfPlace ==
  ASSUME NEW days \in Nat, NEW era, NEW c, NEW q, NEW t, NEW u,
         Place(era, c, q, t, u), days + 719468 = DayAt(era, c, q, t, u)
  PROVE  CivilOfDay(days) = MarchDate(400 * era + 100 * c + 4 * q + t, u)
<1>1. /\ era \in Nat /\ c \in 0..3 /\ q \in 0..24 /\ t \in 0..3
      /\ u \in 0..365 /\ (u = 365 => LongYear(c, q, t))
  BY SMT DEF Place
<1> DEFINE z   == days + 719468
           e   == EraDay(c, q, t, u)
           yoe == 100 * c + 4 * q + t
<1>2. e \in Nat /\ e < 146097 /\ z = 146097 * era + e /\ era \in Int /\ 146097 \in Nat \ {0}
  BY <1>1, SMT DEF LongYear, DayAt, EraDay
<1>3. YearOf(e) = yoe /\ DayOf(e, yoe) = u
  <2>1. YearOf(EraDay(c, q, t, u)) = 100 * c + 4 * q + t
    BY YearFound, SMT
  <2>2. DayOf(EraDay(c, q, t, u), 100 * c + 4 * q + t) = u
    BY YearFound, SMT
  <2> QED
    BY <2>1, <2>2, SMT
<1> HIDE DEF e, z
<1>4. z \div 146097 = era
  BY <1>2, Quotient, SMT
<1>5. z - (z \div 146097) * 146097 = e
  BY <1>2, <1>4, SMT
<1>6. CivilOfDay(days) = MarchDate(YearOf(e) + era * 400, DayOf(e, YearOf(e)))
  BY <1>4, <1>5, SMT DEF CivilOfDay, z
<1>7. yoe + era * 400 = 400 * era + 100 * c + 4 * q + t
  BY <1>1, SMT
<1> QED
  BY <1>3, <1>6, <1>7, SMT

\* The months of a year that begins in March.
Month(u) ==
  IF u <= 183 THEN IF u <= 91 THEN IF u <= 30 THEN 3 ELSE IF u <= 60 THEN 4 ELSE 5
                   ELSE IF u <= 121 THEN 6 ELSE IF u <= 152 THEN 7 ELSE 8
  ELSE IF u <= 274 THEN IF u <= 213 THEN 9 ELSE IF u <= 244 THEN 10 ELSE 11
       ELSE IF u <= 305 THEN 12 ELSE IF u <= 336 THEN 1 ELSE 2
First(u) ==
  IF u <= 183 THEN IF u <= 91 THEN IF u <= 30 THEN 0 ELSE IF u <= 60 THEN 31 ELSE 61
                   ELSE IF u <= 121 THEN 92 ELSE IF u <= 152 THEN 122 ELSE 153
  ELSE IF u <= 274 THEN IF u <= 213 THEN 184 ELSE IF u <= 244 THEN 214 ELSE 245
       ELSE IF u <= 305 THEN 275 ELSE IF u <= 336 THEN 306 ELSE 337

LEMMA MonthTable ==
  ASSUME NEW u \in 0..365
  PROVE  /\ u >= 0 /\ u <= 30 => Month(u) = 3 /\ First(u) = 0
         /\ u >= 31 /\ u <= 60 => Month(u) = 4 /\ First(u) = 31
         /\ u >= 61 /\ u <= 91 => Month(u) = 5 /\ First(u) = 61
         /\ u >= 92 /\ u <= 121 => Month(u) = 6 /\ First(u) = 92
         /\ u >= 122 /\ u <= 152 => Month(u) = 7 /\ First(u) = 122
         /\ u >= 153 /\ u <= 183 => Month(u) = 8 /\ First(u) = 153
         /\ u >= 184 /\ u <= 213 => Month(u) = 9 /\ First(u) = 184
         /\ u >= 214 /\ u <= 244 => Month(u) = 10 /\ First(u) = 214
         /\ u >= 245 /\ u <= 274 => Month(u) = 11 /\ First(u) = 245
         /\ u >= 275 /\ u <= 305 => Month(u) = 12 /\ First(u) = 275
         /\ u >= 306 /\ u <= 336 => Month(u) = 1 /\ First(u) = 306
         /\ u >= 337 /\ u <= 365 => Month(u) = 2 /\ First(u) = 337
<1>1. ASSUME u >= 0 /\ u <= 30 PROVE Month(u) = 3 /\ First(u) = 0
  BY <1>1, SMT DEF Month, First
<1>2. ASSUME u >= 31 /\ u <= 60 PROVE Month(u) = 4 /\ First(u) = 31
  BY <1>2, SMT DEF Month, First
<1>3. ASSUME u >= 61 /\ u <= 91 PROVE Month(u) = 5 /\ First(u) = 61
  BY <1>3, SMT DEF Month, First
<1>4. ASSUME u >= 92 /\ u <= 121 PROVE Month(u) = 6 /\ First(u) = 92
  BY <1>4, SMT DEF Month, First
<1>5. ASSUME u >= 122 /\ u <= 152 PROVE Month(u) = 7 /\ First(u) = 122
  BY <1>5, SMT DEF Month, First
<1>6. ASSUME u >= 153 /\ u <= 183 PROVE Month(u) = 8 /\ First(u) = 153
  BY <1>6, SMT DEF Month, First
<1>7. ASSUME u >= 184 /\ u <= 213 PROVE Month(u) = 9 /\ First(u) = 184
  BY <1>7, SMT DEF Month, First
<1>8. ASSUME u >= 214 /\ u <= 244 PROVE Month(u) = 10 /\ First(u) = 214
  BY <1>8, SMT DEF Month, First
<1>9. ASSUME u >= 245 /\ u <= 274 PROVE Month(u) = 11 /\ First(u) = 245
  BY <1>9, SMT DEF Month, First
<1>10. ASSUME u >= 275 /\ u <= 305 PROVE Month(u) = 12 /\ First(u) = 275
  BY <1>10, SMT DEF Month, First
<1>11. ASSUME u >= 306 /\ u <= 336 PROVE Month(u) = 1 /\ First(u) = 306
  BY <1>11, SMT DEF Month, First
<1>12. ASSUME u >= 337 /\ u <= 365 PROVE Month(u) = 2 /\ First(u) = 337
  BY <1>12, SMT DEF Month, First
<1> QED
  BY <1>1, <1>2, <1>3, <1>4, <1>5, <1>6, <1>7, <1>8, <1>9, <1>10, <1>11, <1>12

DateIn(y, u) == [y |-> y + (IF Month(u) <= 2 THEN 1 ELSE 0), m |-> Month(u), d |-> u - First(u) + 1]

LEMMA MonthFound ==
  ASSUME NEW y \in Int, NEW u \in 0..365
  PROVE  MarchDate(y, u) = DateIn(y, u)
<1> DEFINE mp == (5 * u + 2) \div 153
<1>1. /\ (u <= 30 => mp = 0)  /\ (u \in 31..60 => mp = 1)  /\ (u \in 61..91 => mp = 2)
      /\ (u \in 92..121 => mp = 3) /\ (u \in 122..152 => mp = 4) /\ (u \in 153..183 => mp = 5)
      /\ (u \in 184..213 => mp = 6) /\ (u \in 214..244 => mp = 7) /\ (u \in 245..274 => mp = 8)
      /\ (u \in 275..305 => mp = 9) /\ (u \in 306..336 => mp = 10) /\ (u \in 337..365 => mp = 11)
  BY SMT
<1>2. /\ (153 * 0 + 2) \div 5 = 0 /\ (153 * 1 + 2) \div 5 = 31 /\ (153 * 2 + 2) \div 5 = 61
      /\ (153 * 3 + 2) \div 5 = 92 /\ (153 * 4 + 2) \div 5 = 122 /\ (153 * 5 + 2) \div 5 = 153
      /\ (153 * 6 + 2) \div 5 = 184 /\ (153 * 7 + 2) \div 5 = 214 /\ (153 * 8 + 2) \div 5 = 245
      /\ (153 * 9 + 2) \div 5 = 275 /\ (153 * 10 + 2) \div 5 = 306 /\ (153 * 11 + 2) \div 5 = 337
  BY SMT
<1>3. (IF mp < 10 THEN mp + 3 ELSE mp - 9) = Month(u) /\ (153 * mp + 2) \div 5 = First(u)
  <2> HIDE DEF mp
  <2> QED
    BY <1>1, <1>2, SMT DEF Month, First
<1> QED
  BY <1>3, SMT DEF MarchDate, DateIn

LEMMA Remainder ==
  ASSUME NEW k \in Nat \ {0}, NEW a \in Int, NEW r \in Nat, r < k, NEW n, n = k * a + r
  PROVE  n % k = r
  BY SMT

\* A year is long when the February in it is one day longer.
LEMMA LongIsLeap ==
  ASSUME NEW era \in Nat, NEW c \in 0..3, NEW q \in 0..24, NEW t \in 0..3
  PROVE  Leap(400 * era + 100 * c + 4 * q + t + 1) <=> LongYear(c, q, t)
<1> DEFINE y == 400 * era + 100 * c + 4 * q + t + 1
<1>1. y % 4 = (IF t = 3 THEN 0 ELSE t + 1)
  <2>1. CASE t = 3
    <3>1. y = 4 * (100 * era + 25 * c + q + 1) + 0 /\ 100 * era + 25 * c + q + 1 \in Int /\ 0 \in Nat /\ 4 \in Nat \ {0} /\ 0 < 4
      BY <2>1, SMT
    <3> HIDE DEF y
    <3> QED
      BY <2>1, <3>1, Remainder, SMT
  <2>2. CASE t < 3
    <3>1. y = 4 * (100 * era + 25 * c + q) + (t + 1) /\ 100 * era + 25 * c + q \in Int /\ t + 1 \in Nat /\ 4 \in Nat \ {0} /\ t + 1 < 4
      BY <2>2, SMT
    <3> HIDE DEF y
    <3> QED
      BY <2>2, <3>1, Remainder, SMT
  <2> QED
    BY <2>1, <2>2, SMT
<1>2. y % 100 = (IF q = 24 /\ t = 3 THEN 0 ELSE 4 * q + t + 1)
  <2>1. CASE q = 24 /\ t = 3
    <3>1. y = 100 * (4 * era + c + 1) + 0 /\ 4 * era + c + 1 \in Int /\ 0 \in Nat /\ 100 \in Nat \ {0} /\ 0 < 100
      BY <2>1, SMT
    <3> HIDE DEF y
    <3> QED
      BY <2>1, <3>1, Remainder, SMT
  <2>2. CASE ~(q = 24 /\ t = 3)
    <3>1. y = 100 * (4 * era + c) + (4 * q + t + 1) /\ 4 * era + c \in Int /\ 4 * q + t + 1 \in Nat /\ 100 \in Nat \ {0} /\ 4 * q + t + 1 < 100
      BY <2>2, SMT
    <3> HIDE DEF y
    <3> QED
      BY <2>2, <3>1, Remainder, SMT
  <2> QED
    BY <2>1, <2>2, SMT
<1>3. y % 400 = (IF c = 3 /\ q = 24 /\ t = 3 THEN 0 ELSE 100 * c + 4 * q + t + 1)
  <2>1. CASE c = 3 /\ q = 24 /\ t = 3
    <3>1. y = 400 * (era + 1) + 0 /\ era + 1 \in Int /\ 0 \in Nat /\ 400 \in Nat \ {0} /\ 0 < 400
      BY <2>1, SMT
    <3> HIDE DEF y
    <3> QED
      BY <2>1, <3>1, Remainder, SMT
  <2>2. CASE ~(c = 3 /\ q = 24 /\ t = 3)
    <3>1. y = 400 * era + (100 * c + 4 * q + t + 1) /\ era \in Int /\ 100 * c + 4 * q + t + 1 \in Nat /\ 400 \in Nat \ {0} /\ 100 * c + 4 * q + t + 1 < 400
      BY <2>2, SMT
    <3> HIDE DEF y
    <3> QED
      BY <2>2, <3>1, Remainder, SMT
  <2> QED
    BY <2>1, <2>2, SMT
<1> HIDE DEF y
<1>4. Leap(y) <=> LongYear(c, q, t)
  BY <1>1, <1>2, <1>3, SMT DEF Leap, LongYear
<1> QED
  BY <1>4, SMT DEF y

\* The place of the next day.
LEMMA NextPlace ==
  ASSUME NEW era, NEW c, NEW q, NEW t, NEW u, Place(era, c, q, t, u)
  PROVE  LET y == 400 * era + 100 * c + 4 * q + t
             last == IF LongYear(c, q, t) THEN 365 ELSE 364
         IN \/ u < last /\ Place(era, c, q, t, u + 1) /\ DayAt(era, c, q, t, u + 1) = DayAt(era, c, q, t, u) + 1
            \/ /\ u = last
               /\ \E e2, c2, q2, t2 :
                    /\ Place(e2, c2, q2, t2, 0) /\ DayAt(e2, c2, q2, t2, 0) = DayAt(era, c, q, t, u) + 1
                    /\ 400 * e2 + 100 * c2 + 4 * q2 + t2 = y + 1
<1> DEFINE y == 400 * era + 100 * c + 4 * q + t
           last == IF LongYear(c, q, t) THEN 365 ELSE 364
<1>1. /\ era \in Nat /\ c \in 0..3 /\ q \in 0..24 /\ t \in 0..3
      /\ u \in 0..365 /\ (u = 365 => LongYear(c, q, t))
  BY SMT DEF Place
<1>2. CASE u < last
  BY <1>1, <1>2, SMT DEF Place, DayAt, EraDay, LongYear
<1>3. CASE u = last
  <2> DEFINE Follows(e2, c2, q2, t2) ==
        /\ Place(e2, c2, q2, t2, 0) /\ DayAt(e2, c2, q2, t2, 0) = DayAt(era, c, q, t, u) + 1
        /\ 400 * e2 + 100 * c2 + 4 * q2 + t2 = y + 1
  <2>1. CASE t < 3
    <3>1. u = 364
      BY <1>3, <2>1, SMT DEF LongYear
    <3>2. Follows(era, c, q, t + 1)
      BY <1>1, <2>1, <3>1, SMT DEF Place, DayAt, EraDay, LongYear
    <3> QED
      BY <1>3, <3>2, SMT
  <2>2. CASE t = 3 /\ q < 24
    <3>1. u = 365
      BY <1>1, <1>3, <2>2, SMT DEF LongYear
    <3>2. Follows(era, c, q + 1, 0)
      BY <1>1, <2>2, <3>1, SMT DEF Place, DayAt, EraDay, LongYear
    <3> QED
      BY <1>3, <3>2, SMT
  <2>3. CASE t = 3 /\ q = 24 /\ c < 3
    <3>1. u = 364
      BY <1>1, <1>3, <2>3, SMT DEF LongYear
    <3>2. Follows(era, c + 1, 0, 0)
      BY <1>1, <2>3, <3>1, SMT DEF Place, DayAt, EraDay, LongYear
    <3> QED
      BY <1>3, <3>2, SMT
  <2>4. CASE t = 3 /\ q = 24 /\ c = 3
    <3>1. u = 365
      BY <1>1, <1>3, <2>4, SMT DEF LongYear
    <3>2. Follows(era + 1, 0, 0, 0)
      BY <1>1, <2>4, <3>1, SMT DEF Place, DayAt, EraDay, LongYear
    <3> QED
      BY <1>3, <3>2, SMT
  <2>5. t < 3 \/ (t = 3 /\ (q < 24 \/ (q = 24 /\ (c < 3 \/ c = 3))))
    BY <1>1, SMT
  <2> QED
    BY <2>1, <2>2, <2>3, <2>4, <2>5, SMT
<1>4. u < last \/ u = last
  BY <1>1, SMT
<1> QED
  BY <1>2, <1>3, <1>4, SMT

LEMMA NextInYear ==
  ASSUME NEW y \in Int, NEW u \in 0..365, u < 364 \/ (u = 364 /\ Leap(y + 1))
  PROVE  MarchDate(y, u + 1) = NextDay(MarchDate(y, u))
<1>1. u + 1 \in 0..365
  BY SMT
<1> DEFINE w == DateIn(y, u)   v == DateIn(y, u + 1)
<1>2. MarchDate(y, u) = w /\ MarchDate(y, u + 1) = v
  BY <1>1, MonthFound
<1>w. w = [y |-> y + (IF Month(u) <= 2 THEN 1 ELSE 0), m |-> Month(u), d |-> u - First(u) + 1]
  BY DEF DateIn
<1>v. v = [y |-> y + (IF Month(u + 1) <= 2 THEN 1 ELSE 0), m |-> Month(u + 1), d |-> (u + 1) - First(u + 1) + 1]
  BY DEF DateIn
<1> HIDE DEF w, v
<1>3. CASE u \notin {30, 60, 91, 121, 152, 183, 213, 244, 274, 305, 336}
  <2>1. Month(u + 1) = Month(u) /\ First(u + 1) = First(u)
    BY <1>3, SMT DEF Month, First
  <2>2. w.d < MonthDays(w.y, w.m)
    BY <1>3, <1>w, SMT DEF Month, First, MonthDays
  <2>3. v = [y |-> w.y, m |-> w.m, d |-> w.d + 1]
    <3>1. (u + 1) - First(u) + 1 = (u - First(u) + 1) + 1
      BY SMT DEF Month, First
    <3>2. w.y = y + (IF Month(u) <= 2 THEN 1 ELSE 0) /\ w.m = Month(u) /\ w.d + 1 = (u - First(u) + 1) + 1
      BY <1>w
    <3>3. v = [y |-> y + (IF Month(u) <= 2 THEN 1 ELSE 0), m |-> Month(u), d |-> (u + 1) - First(u) + 1]
      BY <1>v, <2>1
    <3> QED
      BY <3>1, <3>2, <3>3
  <2> QED
    BY <1>2, <2>2, <2>3, SMT DEF NextDay
<1>4. CASE u \in {30, 60, 91, 121, 152, 183, 213, 244, 274, 336}
  <2>1. w.d = u - First(u) + 1 /\ w.m = Month(u)
    BY <1>w
  <2>2. /\ Month(u) \in Nat /\ Month(u) <= 11 /\ Month(u + 1) = Month(u) + 1 /\ First(u + 1) = u + 1
        /\ Month(u) # 2
    <3>1. Month(u) \in Nat /\ Month(u) <= 11 /\ Month(u) # 2
      BY <1>4, MonthTable, SMT
    <3>2. Month(u + 1) = Month(u) + 1
      BY <1>4, SMT DEF Month, First
    <3>3. First(u + 1) = u + 1
      BY <1>4, SMT DEF Month, First
    <3> QED
      BY <3>1, <3>2, <3>3
  <2>3. u - First(u) + 1 = (IF Month(u) \in {4, 6, 9, 11} THEN 30 ELSE 31)
    BY <1>4, SMT DEF Month, First
  <2>4. w.d = MonthDays(w.y, w.m) /\ w.d \in Nat /\ w.m < 12
    BY <2>1, <2>2, <2>3, SMT DEF MonthDays
  <2>5. v = [y |-> w.y, m |-> w.m + 1, d |-> 1]
    <3>1. (u + 1) - First(u + 1) + 1 = 1 /\ Month(u) + 1 = Month(u + 1)
      BY <2>2, SMT
    <3>2. (IF Month(u) <= 2 THEN 1 ELSE 0) = (IF Month(u + 1) <= 2 THEN 1 ELSE 0)
      BY <2>2, SMT DEF Month, First
    <3> QED
      BY <1>w, <1>v, <3>1, <3>2
  <2>6. ~(w.d < MonthDays(w.y, w.m))
    BY <2>4, SMT
  <2> QED
    BY <1>2, <2>4, <2>5, <2>6 DEF NextDay
<1>5. CASE u = 305
  <2>1. w = [y |-> y, m |-> 12, d |-> 31] /\ v = [y |-> y + 1, m |-> 1, d |-> 1]
    BY <1>5, <1>w, <1>v, SMT DEF Month, First
  <2>2. MonthDays(y, 12) = 31
    BY SMT DEF MonthDays
  <2> QED
    BY <1>2, <2>1, <2>2, SMT DEF NextDay
<1> QED
  BY <1>3, <1>4, <1>5, SMT

LEMMA NextYear ==
  ASSUME NEW y \in Int, NEW u \in 364..365, u = 365 <=> Leap(y + 1)
  PROVE  MarchDate(y + 1, 0) = NextDay(MarchDate(y, u))
<1>1. MarchDate(y, u) = [y |-> y + 1, m |-> 2, d |-> u - 336] /\ MarchDate(y + 1, 0) = [y |-> y + 1, m |-> 3, d |-> 1]
  <2>1. u \in 0..365 /\ 0 \in 0..365 /\ y + 1 \in Int
    BY SMT
  <2>2. MarchDate(y, u) = DateIn(y, u) /\ MarchDate(y + 1, 0) = DateIn(y + 1, 0)
    BY <2>1, MonthFound, SMT
  <2>3. Month(u) = 2 /\ First(u) = 337
    BY MonthTable, SMT
  <2>4. Month(0) = 3 /\ First(0) = 0
    BY SMT DEF Month, First
  <2>5. DateIn(y, u) = [y |-> y + 1, m |-> 2, d |-> u - 336]
    BY <2>3, SMT DEF DateIn
  <2>6. DateIn(y + 1, 0) = [y |-> y + 1, m |-> 3, d |-> 1]
    BY <2>4, SMT DEF DateIn
  <2> QED
    BY <2>2, <2>5, <2>6
<1>2. MonthDays(y + 1, 2) = u - 336
  BY SMT DEF MonthDays
<1> DEFINE w == [y |-> y + 1, m |-> 2, d |-> u - 336]
<1>3. w.y = y + 1 /\ w.m = 2 /\ w.d = u - 336
  BY SMT
<1>4. ~(w.d < MonthDays(w.y, w.m)) /\ w.m < 12
  BY <1>2, <1>3, SMT
<1>5. [y |-> w.y, m |-> w.m + 1, d |-> 1] = [y |-> y + 1, m |-> 3, d |-> 1]
  BY <1>3, SMT
<1>6. NextDay(w) = [y |-> y + 1, m |-> 3, d |-> 1]
  BY <1>4, <1>5, SMT DEF NextDay
<1> QED
  BY <1>1, <1>6

LEMMA DayAfterDay ==
  ASSUME NEW day \in Nat
  PROVE  CivilOfDay(day + 1) = NextDay(CivilOfDay(day))
<1>1. day + 719468 \in Nat /\ day + 1 \in Nat /\ (day + 1) + 719468 = (day + 719468) + 1
  BY SMT
<1>2. PICK era, c, q, t, u : Place(era, c, q, t, u) /\ day + 719468 = DayAt(era, c, q, t, u)
  BY <1>1, EveryDayHasAPlace, SMT
<1> DEFINE y == 400 * era + 100 * c + 4 * q + t
<1>3. CivilOfDay(day) = MarchDate(y, u)
  BY <1>2, DateOfPlace, SMT
<1>4. era \in Nat /\ c \in 0..3 /\ q \in 0..24 /\ t \in 0..3 /\ u \in 0..365 /\ y \in Int
  BY <1>2, SMT DEF Place
<1>5. Leap(y + 1) <=> LongYear(c, q, t)
  BY <1>4, LongIsLeap, SMTT(20)
<1>6. CASE u < (IF LongYear(c, q, t) THEN 365 ELSE 364)
  <2>1. Place(era, c, q, t, u + 1) /\ (day + 1) + 719468 = DayAt(era, c, q, t, u + 1)
    BY <1>1, <1>2, <1>4, <1>6, NextPlace, SMT
  <2>2. CivilOfDay(day + 1) = MarchDate(y, u + 1)
    BY <1>1, <2>1, DateOfPlace, SMT
  <2>3. u < 364 \/ (u = 364 /\ Leap(y + 1))
    BY <1>4, <1>5, <1>6, SMT
  <2> HIDE DEF y
  <2> QED
    BY <1>3, <1>4, <2>2, <2>3, NextInYear, SMTT(20)
<1>7. CASE ~(u < (IF LongYear(c, q, t) THEN 365 ELSE 364))
  <2>1. u = (IF LongYear(c, q, t) THEN 365 ELSE 364)
    BY <1>2, <1>4, <1>7, SMT DEF Place
  <2>2. PICK e2, c2, q2, t2 :
           /\ Place(e2, c2, q2, t2, 0) /\ DayAt(e2, c2, q2, t2, 0) = DayAt(era, c, q, t, u) + 1
           /\ 400 * e2 + 100 * c2 + 4 * q2 + t2 = y + 1
    BY <1>2, <1>7, NextPlace, SMT
  <2>3. CivilOfDay(day + 1) = MarchDate(400 * e2 + 100 * c2 + 4 * q2 + t2, 0)
    BY <1>1, <1>2, <2>2, DateOfPlace, SMT
  <2>4. CivilOfDay(day + 1) = MarchDate(y + 1, 0)
    BY <2>2, <2>3, SMT
  <2>5. u \in 364..365 /\ (u = 365 <=> Leap(y + 1))
    BY <1>5, <2>1, SMT
  <2> HIDE DEF y
  <2> QED
    BY <1>3, <1>4, <2>4, <2>5, NextYear, SMT
<1> QED
  BY <1>6, <1>7, SMT

\* The first date is that of 1970-01-01, and the date of the next day is the next date of
\* the calendar (civil_from_days, migrate.rs:115-126), without end.
THEOREM DatesFollow ==
  /\ CivilOfDay(0) = [y |-> 1970, m |-> 1, d |-> 1]
  /\ \A day \in Nat : CivilOfDay(day + 1) = NextDay(CivilOfDay(day))
<1>1. CivilOfDay(0) = [y |-> 1970, m |-> 1, d |-> 1]
  <2>1. 719468 = DayAt(4, 3, 17, 1, 306) /\ Place(4, 3, 17, 1, 306)
    BY SMT DEF DayAt, EraDay, Place
  <2>2. CivilOfDay(0) = MarchDate(400 * 4 + 100 * 3 + 4 * 17 + 1, 306)
    BY <2>1, DateOfPlace, SMT
  <2> QED
    BY <2>2, SMT DEF MarchDate
<1> QED
  BY <1>1, DayAfterDay

-----------------------------------------------------------------------------
(* Versions.                                                               *)

EarlierDay(s, t) == s.y < t.y \/ (s.y = t.y /\ (s.m < t.m \/ (s.m = t.m /\ s.d < t.d)))
Date(t) == t.y \in Nat /\ t.m \in 1..12 /\ t.d \in 1..31

LEMMA DateType ==
  ASSUME NEW y \in Nat, NEW u \in 0..365
  PROVE  Date(MarchDate(y, u))
<1>1. MarchDate(y, u) = DateIn(y, u)
  <2>1. y \in Int
    BY SMT
  <2> QED
    BY <2>1, MonthFound
<1>2. Month(u) \in 1..12 /\ u - First(u) + 1 \in 1..31
  BY MonthTable, SMT
<1>3. /\ DateIn(y, u).y = y + (IF Month(u) <= 2 THEN 1 ELSE 0) /\ DateIn(y, u).m = Month(u)
      /\ DateIn(y, u).d = u - First(u) + 1
  BY DEF DateIn
<1> QED
  BY <1>1, <1>2, <1>3, SMT DEF Date

LEMMA LaterInYear ==
  ASSUME NEW y \in Int, NEW u \in 0..365, NEW v \in 0..365, u < v
  PROVE  EarlierDay(MarchDate(y, u), MarchDate(y, v))
<1>1. MarchDate(y, u) = DateIn(y, u) /\ MarchDate(y, v) = DateIn(y, v)
  BY MonthFound
<1>2. /\ DateIn(y, u).y = y + (IF Month(u) <= 2 THEN 1 ELSE 0) /\ DateIn(y, u).m = Month(u)
      /\ DateIn(y, u).d = u - First(u) + 1
  BY DEF DateIn
<1>3. /\ DateIn(y, v).y = y + (IF Month(v) <= 2 THEN 1 ELSE 0) /\ DateIn(y, v).m = Month(v)
      /\ DateIn(y, v).d = v - First(v) + 1
  BY DEF DateIn
<1>4. \/ Month(u) = Month(v) /\ First(u) = First(v)
      \/ Month(u) <= 12 /\ Month(u) >= 3 /\ Month(v) <= 2
      \/ Month(u) < Month(v) /\ (Month(u) >= 3 \/ Month(v) <= 2)
  BY MonthTable, SMTT(30)
<1>5. Month(u) \in 1..12 /\ Month(v) \in 1..12 /\ First(u) \in Nat
  BY MonthTable, SMT
<1> QED
  BY <1>1, <1>2, <1>3, <1>4, <1>5, SMT DEF EarlierDay

LEMMA LaterYear ==
  ASSUME NEW x \in Int, NEW y \in Int, x < y, NEW u \in 0..365, NEW v \in 0..365
  PROVE  EarlierDay(MarchDate(x, u), MarchDate(y, v))
<1>1. MarchDate(x, u) = DateIn(x, u) /\ MarchDate(y, v) = DateIn(y, v)
  BY MonthFound
<1>2. DateIn(x, u).y = x + (IF Month(u) <= 2 THEN 1 ELSE 0) /\ DateIn(x, u).m = Month(u)
  BY DEF DateIn
<1>3. DateIn(y, v).y = y + (IF Month(v) <= 2 THEN 1 ELSE 0) /\ DateIn(y, v).m = Month(v)
  BY DEF DateIn
<1>5. Month(u) \in 1..12 /\ Month(v) \in 1..12
  BY MonthTable, SMT
<1> QED
  BY <1>1, <1>2, <1>3, <1>5, SMT DEF EarlierDay

LEMMA LaterDay ==
  ASSUME NEW a \in Nat, NEW b \in Nat, a < b
  PROVE  /\ EarlierDay(CivilOfDay(a), CivilOfDay(b))
         /\ Date(CivilOfDay(a)) /\ Date(CivilOfDay(b))
<1>1. a + 719468 \in Nat /\ b + 719468 \in Nat
  BY SMT
<1>2. PICK era, c, q, t, u : Place(era, c, q, t, u) /\ a + 719468 = DayAt(era, c, q, t, u)
  BY <1>1, EveryDayHasAPlace, SMT
<1>3. PICK era2, c2, q2, t2, u2 : Place(era2, c2, q2, t2, u2) /\ b + 719468 = DayAt(era2, c2, q2, t2, u2)
  BY <1>1, EveryDayHasAPlace, SMT
<1> DEFINE x == 400 * era + 100 * c + 4 * q + t
           y == 400 * era2 + 100 * c2 + 4 * q2 + t2
<1>4. CivilOfDay(a) = MarchDate(x, u) /\ CivilOfDay(b) = MarchDate(y, u2)
  BY <1>2, <1>3, DateOfPlace, SMT
<1>5. /\ era \in Nat /\ c \in 0..3 /\ q \in 0..24 /\ t \in 0..3 /\ u \in 0..365
      /\ (u = 365 => t = 3 /\ (q < 24 \/ c = 3))
  BY <1>2, SMT DEF Place, LongYear
<1>6. /\ era2 \in Nat /\ c2 \in 0..3 /\ q2 \in 0..24 /\ t2 \in 0..3 /\ u2 \in 0..365
      /\ (u2 = 365 => t2 = 3 /\ (q2 < 24 \/ c2 = 3))
  BY <1>3, SMT DEF Place, LongYear
<1>7. 146097 * era + 36524 * c + 1461 * q + 365 * t + u < 146097 * era2 + 36524 * c2 + 1461 * q2 + 365 * t2 + u2
  BY <1>2, <1>3, <1>5, <1>6, SMT DEF DayAt, EraDay
<1>8. x < y \/ (x = y /\ u < u2)
  <2>1. era <= era2
    BY <1>5, <1>6, <1>7, SMT
  <2>2. era = era2 => c <= c2
    BY <1>5, <1>6, <1>7, SMT
  <2>3. era = era2 /\ c = c2 => q <= q2
    BY <1>5, <1>6, <1>7, SMT
  <2>4. era = era2 /\ c = c2 /\ q = q2 => t <= t2
    BY <1>5, <1>6, <1>7, SMT
  <2>5. era = era2 /\ c = c2 /\ q = q2 /\ t = t2 => u < u2
    BY <1>5, <1>6, <1>7, SMT
  <2> QED
    BY <1>5, <1>6, <2>1, <2>2, <2>3, <2>4, <2>5, SMT
<1>9. x \in Nat /\ y \in Nat /\ x \in Int /\ y \in Int
  BY <1>5, <1>6, SMT
<1>12. u \in 0..365 /\ u2 \in 0..365
  BY <1>5, <1>6, SMT
<1> HIDE DEF x, y
<1>10. EarlierDay(CivilOfDay(a), CivilOfDay(b))
  <2>1. CASE x < y
    <3>1. EarlierDay(MarchDate(x, u), MarchDate(y, u2))
      BY <1>9, <1>12, <2>1, LaterYear, ZenonT(40)
    <3> QED
      BY <1>4, <3>1, SMT
  <2>2. CASE x = y /\ u < u2
    <3>1. EarlierDay(MarchDate(x, u), MarchDate(x, u2))
      BY <1>9, <1>12, <2>2, LaterInYear
    <3> QED
      BY <1>4, <2>2, <3>1, SMT
  <2> QED
    BY <1>8, <2>1, <2>2, SMT
<1>11. Date(CivilOfDay(a)) /\ Date(CivilOfDay(b))
  BY <1>4, <1>9, <1>12, DateType, SMTT(40)
<1> QED
  BY <1>10, <1>11, SMT

LEMMA LaterNumber ==
  ASSUME NEW s, NEW t, Date(s), Date(t)
  PROVE  DateNumber(s) \in Nat /\ (EarlierDay(s, t) => DateNumber(s) + 1 <= DateNumber(t))
<1>1. PICK y, m, d \in Nat : y = s.y /\ m = s.m /\ d = s.d /\ m <= 12 /\ d <= 31 /\ m >= 1 /\ d >= 1
  BY SMT DEF Date
<1>2. PICK y2, m2, d2 \in Nat : y2 = t.y /\ m2 = t.m /\ d2 = t.d /\ m2 <= 12 /\ d2 <= 31 /\ m2 >= 1 /\ d2 >= 1
  BY SMT DEF Date
<1>3. DateNumber(s) = 10000 * y + 100 * m + d /\ DateNumber(t) = 10000 * y2 + 100 * m2 + d2
  BY <1>1, <1>2, SMT DEF DateNumber
<1>4. EarlierDay(s, t) => y < y2 \/ (y = y2 /\ (m < m2 \/ (m = m2 /\ d < d2)))
  BY <1>1, <1>2, SMT DEF EarlierDay
<1> QED
  BY <1>1, <1>2, <1>3, <1>4, SMT

LEMMA ClockRuns ==
  ASSUME NEW s \in Nat, NEW t \in Nat, s < t, t < 86400
  PROVE  ClockNumber(s) < ClockNumber(t)
<1>1. s % 3600 \in Nat /\ t % 3600 \in Nat
  BY Divided, SMT
<1>2. PICK h, r \in Nat : h = s \div 3600 /\ r = s % 3600 /\ s = 3600 * h + r /\ r < 3600
  BY Divided, SMT
<1>3. PICK h2, r2 \in Nat : h2 = t \div 3600 /\ r2 = t % 3600 /\ t = 3600 * h2 + r2 /\ r2 < 3600
  BY Divided, SMT
<1>4. PICK m, e \in Nat : m = r \div 60 /\ e = r % 60 /\ r = 60 * m + e /\ e < 60
  BY <1>2, Divided, SMT
<1>5. PICK m2, e2 \in Nat : m2 = r2 \div 60 /\ e2 = r2 % 60 /\ r2 = 60 * m2 + e2 /\ e2 < 60
  BY <1>3, Divided, SMT
<1>6. s % 60 = e
  <2>1. s = 60 * (60 * h + m) + e /\ 60 * h + m \in Int /\ 60 \in Nat \ {0}
    BY <1>2, <1>4, SMT
  <2> QED
    BY <1>4, <2>1, Remainder, SMT
<1>7. t % 60 = e2
  <2>1. t = 60 * (60 * h2 + m2) + e2 /\ 60 * h2 + m2 \in Int /\ 60 \in Nat \ {0}
    BY <1>3, <1>5, SMT
  <2> QED
    BY <1>5, <2>1, Remainder, SMT
<1>8. ClockNumber(s) = 10000 * h + 100 * m + e /\ ClockNumber(t) = 10000 * h2 + 100 * m2 + e2
  BY <1>2, <1>3, <1>4, <1>5, <1>6, <1>7, SMT DEF ClockNumber
<1>9. h < h2 \/ (h = h2 /\ (m < m2 \/ (m = m2 /\ e < e2)))
  BY <1>2, <1>3, <1>4, <1>5, SMT
<1>10. m <= 59 /\ m2 <= 59
  BY <1>2, <1>3, <1>4, <1>5, SMT
<1> QED
  BY <1>4, <1>5, <1>8, <1>9, <1>10, SMT

LEMMA ClockType ==
  ASSUME NEW s \in Nat, s < 86400
  PROVE  ClockNumber(s) \in Nat /\ ClockNumber(s) < 1000000
<1>1. PICK h, r \in Nat : h = s \div 3600 /\ r = s % 3600 /\ s = 3600 * h + r /\ r < 3600
  BY Divided, SMT
<1>2. PICK m, e \in Nat : m = r \div 60 /\ e = s % 60 /\ r - 60 * m < 60 /\ r >= 60 * m /\ e < 60
  BY <1>1, Divided, SMT
<1>3. ClockNumber(s) = 10000 * h + 100 * m + e
  BY <1>1, <1>2, SMT DEF ClockNumber
<1>4. h <= 23 /\ m <= 59
  BY <1>1, <1>2, SMT
<1> QED
  BY <1>2, <1>3, <1>4, SMT

\* A migration that is created later has the larger version (migrate.rs:88-129): the
\* number that format_yyyymmddhhmmss writes grows with every second.
THEOREM VersionsGrow == \A s, t \in Nat : s < t => VersionOf(s) < VersionOf(t)
<1> SUFFICES ASSUME NEW s \in Nat, NEW t \in Nat, s < t PROVE VersionOf(s) < VersionOf(t)
  BY SMT
<1>1. PICK a, i \in Nat : a = s \div 86400 /\ i = s % 86400 /\ s = 86400 * a + i /\ i < 86400
  BY Divided, SMT
<1>2. PICK b, j \in Nat : b = t \div 86400 /\ j = t % 86400 /\ t = 86400 * b + j /\ j < 86400
  BY Divided, SMT
<1>3. /\ ClockNumber(i) \in Nat /\ ClockNumber(i) < 1000000
      /\ ClockNumber(j) \in Nat /\ ClockNumber(j) < 1000000
  BY <1>1, <1>2, ClockType, SMT
<1>4. /\ VersionOf(s) = 1000000 * DateNumber(CivilOfDay(a)) + ClockNumber(i)
      /\ VersionOf(t) = 1000000 * DateNumber(CivilOfDay(b)) + ClockNumber(j)
  BY <1>1, <1>2, SMT DEF VersionOf
<1>5. a < b \/ (a = b /\ i < j)
  BY <1>1, <1>2, SMT
<1>6. CASE a < b
  <2>1. EarlierDay(CivilOfDay(a), CivilOfDay(b)) /\ Date(CivilOfDay(a)) /\ Date(CivilOfDay(b))
    BY <1>6, LaterDay, SMT
  <2>2. /\ DateNumber(CivilOfDay(a)) \in Nat /\ DateNumber(CivilOfDay(b)) \in Nat
        /\ DateNumber(CivilOfDay(a)) + 1 <= DateNumber(CivilOfDay(b))
    BY <2>1, LaterNumber, SMT
  <2> QED
    BY <1>3, <1>4, <2>2, SMT
<1>7. CASE a = b /\ i < j
  <2>1. ClockNumber(i) < ClockNumber(j)
    BY <1>1, <1>2, <1>7, ClockRuns, SMT
  <2>2. DateNumber(CivilOfDay(a)) \in Nat
    <3>1. a + 1 \in Nat /\ a < a + 1
      BY SMT
    <3> QED
      BY <3>1, LaterDay, LaterNumber, SMT
  <2> QED
    BY <1>3, <1>4, <1>7, <2>1, <2>2, SMT
<1> QED
  BY <1>5, <1>6, <1>7, SMT

-----------------------------------------------------------------------------
(* The files of checked queries.                                           *)

FileState  == [is : {"absent", "empty", "torn", "whole"}, entry : CacheEntries]
BuildState == [at : {"idle", "describe", "nulls", "open", "fill", "done"}, ask : Requests \cup {NoRequest},
               saw : Description, has : CacheEntries]
PrepState  == [at : {"idle", "describe", "open", "fill", "done", "failed"}, next : Nat \ {0},
               entry : CacheEntries, failed : BOOLEAN]

MetadataTypes ==
  /\ db \in Databases /\ had \subseteq Databases /\ db \in had
  /\ files \in [Texts -> FileState] /\ build \in [Builders -> BuildState] /\ prep \in PrepState
  /\ alone \in [Builders -> BOOLEAN] /\ calm \in BOOLEAN

\* What a compiler and prepare know is what a database said.
BuilderKnows(all, s) ==
  /\ s.at # "idle" => s.ask \in Requests
  /\ s.at = "nulls" => \E d \in all : s.ask.sql \in DOMAIN d.says /\ s.saw = d.says[s.ask.sql]
  /\ s.at \in {"open", "fill", "done"} => Honest(all, s.ask.sql, s.has)
PrepKnows(all, p) ==
  p.at \in {"open", "fill"} => p.next \in DOMAIN Scanned /\ Honest(all, Scanned[p.next], p.entry)

\* Who is alone with a file finds in it what it has put there.
Fills(s, t)     == s.at = "fill" /\ s.ask.sql = t
PrepFills(p, t) == p.at = "fill" /\ Scanned[p.next] = t
Kept(s, f)      == f = IF s.at = "fill" THEN Emptied ELSE Whole(s.has)
Owned ==
  \A b \in Builders : alone[b] =>
    /\ build[b].at \in {"fill", "done"}
    /\ \A c \in Builders : c # b => ~Fills(build[c], build[b].ask.sql)
    /\ ~PrepFills(prep, build[b].ask.sql)
    /\ Kept(build[b], files[build[b].ask.sql])

\* While nobody disturbs prepare, its files are those of the database as it is.
Current(d, t, f) == f.is = "whole" /\ t \in DOMAIN d.says /\ f.entry = Prepared(d.says[t])
Undisturbed(d, fs, p) ==
  p.at \in {"describe", "open", "fill", "done"} =>
    /\ ~p.failed => \A i \in DOMAIN Scanned : i < p.next => Current(d, Scanned[i], fs[Scanned[i]])
    /\ p.at \in {"open", "fill"} => Scanned[p.next] \in DOMAIN d.says /\ p.entry = Prepared(d.says[Scanned[p.next]])
    /\ p.at = "fill" => fs[Scanned[p.next]] = Emptied
    /\ p.at = "done" => p.next > Len(Scanned)
Calm == calm => /\ prep.at # "idle" /\ Undisturbed(db, files, prep)
                /\ \A b \in Builders : build[b].at # "fill"

MetadataInv ==
  /\ MetadataTypes /\ FilesHonest
  /\ \A b \in Builders : BuilderKnows(had, build[b])
  /\ PrepKnows(had, prep)
  /\ Owned /\ Calm

(* Entries.                                                                *)

LEMMA NothingTyped ==
  /\ NoEntry \in CacheEntries /\ NoDescription \in Description
  /\ NoFile \in FileState /\ Emptied \in FileState /\ Torn \in FileState
  /\ NoFile.is # "whole" /\ Emptied.is # "whole" /\ Torn.is # "whole"
  /\ \A e \in CacheEntries : Whole(e) \in FileState /\ Whole(e).is = "whole" /\ Whole(e).entry = e
<1>1. NoEntry \in CacheEntries /\ NoDescription \in Description
  BY DEF NoEntry, NoDescription, CacheEntries, Description
<1> QED BY <1>1 DEF NoFile, Emptied, Torn, Whole, FileState

LEMMA DescriptionsTyped ==
  ASSUME NEW d \in Databases, NEW t \in DOMAIN d.says
  PROVE  d.says[t] \in Description /\ NoAttribute \notin d.notnull
  BY DatabasesAssumption

LEMMA FieldsLemma ==
  ASSUME NEW d \in Description
  PROVE  /\ d.oids \in Seq(Oids) /\ Len(d.fields) \in Nat /\ DOMAIN d.fields = 1..Len(d.fields)
         /\ \A i \in DOMAIN d.fields : d.fields[i].name \in Names /\ d.fields[i].oid \in Oids
<1> DEFINE F == [name : Names, oid : Oids, attribute : Attributes \cup {NoAttribute}]
<1>1. d.oids \in Seq(Oids) /\ d.fields \in Seq(F)
  BY DEF Description
<1> HIDE DEF F
<1>2. /\ Len(d.fields) \in Nat /\ DOMAIN d.fields = 1..Len(d.fields)
      /\ \A i \in DOMAIN d.fields : d.fields[i] \in F
  BY <1>1
<1>3. \A f \in F : f.name \in Names /\ f.oid \in Oids
  BY DEF F
<1> QED BY <1>1, <1>2, <1>3

LEMMA PreparedTyped ==
  ASSUME NEW d \in Description
  PROVE  Prepared(d) \in CacheEntries
<1> DEFINE c == [i \in DOMAIN d.fields |->
                  [name |-> d.fields[i].name, oid |-> d.fields[i].oid, nullable |-> "unsaid"]]
           C == [name : Names, oid : Oids, nullable : {"yes", "no", "unsaid"}]
<1>1. \A i \in DOMAIN d.fields : c[i] \in C
  BY FieldsLemma
<1>2. c \in [1..Len(d.fields) -> C]
  BY <1>1, FieldsLemma
<1>3. c \in Seq(C)
  <2>1. Len(d.fields) \in Nat
    BY FieldsLemma
  <2> HIDE DEF c, C
  <2> QED BY <1>2, <2>1
<1>4. Prepared(d) = [oids |-> d.oids, columns |-> c]
  BY DEF Prepared
<1> QED BY <1>3, <1>4, FieldsLemma DEF CacheEntries

LEMMA DescribedTyped ==
  ASSUME NEW d \in Description, NEW n
  PROVE  Described(d, n) \in CacheEntries
<1> DEFINE c == [i \in DOMAIN d.fields |->
                  [name |-> d.fields[i].name, oid |-> d.fields[i].oid,
                   nullable |-> IF d.fields[i].attribute \in n THEN "no" ELSE "yes"]]
           C == [name : Names, oid : Oids, nullable : {"yes", "no", "unsaid"}]
<1>1. \A i \in DOMAIN d.fields : c[i] \in C
  BY FieldsLemma
<1>2. c \in [1..Len(d.fields) -> C]
  BY <1>1, FieldsLemma
<1>3. c \in Seq(C)
  <2>1. Len(d.fields) \in Nat
    BY FieldsLemma
  <2> HIDE DEF c, C
  <2> QED BY <1>2, <2>1
<1>4. Described(d, n) = [oids |-> d.oids, columns |-> c]
  BY DEF Described
<1> QED BY <1>3, <1>4, FieldsLemma DEF CacheEntries

LEMMA PreparedHonest ==
  ASSUME NEW all, NEW d \in all, NEW t \in DOMAIN d.says
  PROVE  Honest(all, t, Prepared(d.says[t]))
  BY DEF Honest, Said, Prepared

LEMMA DescribedHonest ==
  ASSUME NEW all, NEW d \in all, NEW n \in all, NEW t \in DOMAIN d.says, NEW s \in {n.notnull, {}}
  PROVE  Honest(all, t, Described(d.says[t], s))
<1> DEFINE e == Described(d.says[t], s)
<1>1. Said(d, t, e)
  BY DEF Said, Described
<1>2. ASSUME NEW i \in DOMAIN e.columns, e.columns[i].nullable = "no"
      PROVE  d.says[t].fields[i].attribute \in n.notnull
  BY <1>2 DEF Described
<1> QED BY <1>1, <1>2 DEF Honest

LEMMA HonestStays ==
  ASSUME NEW all, NEW more, all \subseteq more
  PROVE  /\ \A t, e : Honest(all, t, e) => Honest(more, t, e)
         /\ \A s : BuilderKnows(all, s) => BuilderKnows(more, s)
         /\ \A p : PrepKnows(all, p) => PrepKnows(more, p)
<1>1. \A t, e : Honest(all, t, e) => Honest(more, t, e)
  BY DEF Honest
<1> QED BY <1>1 DEF BuilderKnows, PrepKnows

LEMMA TextsLemma ==
  /\ \A r \in Requests : r.sql \in Texts
  /\ \A i \in DOMAIN Scanned : Scanned[i] \in Texts
  BY DEF Texts

LEMMA MetadataStarts == MetadataInit => MetadataInv
<1> SUFFICES ASSUME MetadataInit PROVE MetadataInv
  OBVIOUS
<1>1. Idle \in BuildState /\ Idle.at = "idle" /\ Idle.ask = NoRequest
  BY NothingTyped DEF Idle, Does, BuildState
<1>2. prep \in PrepState /\ prep.at = "idle"
  BY NothingTyped DEF MetadataInit, PrepState
<1>3. MetadataTypes
  BY <1>1, <1>2, NothingTyped DEF MetadataInit, MetadataTypes
<1>4. FilesHonest
  BY NothingTyped DEF MetadataInit, FilesHonest, Readable
<1>5. \A b \in Builders : build[b] = Idle /\ alone[b] = FALSE
  BY DEF MetadataInit
<1>6. /\ \A b \in Builders : BuilderKnows(had, build[b])
      /\ PrepKnows(had, prep)
  BY <1>1, <1>2, <1>5 DEF BuilderKnows, PrepKnows
<1>7. Owned /\ Calm
  BY <1>5 DEF Owned, Calm, MetadataInit
<1> QED BY <1>3, <1>4, <1>6, <1>7 DEF MetadataInv

(* Every step.                                                             *)

\* A compiler goes on, and no file is touched.
LEMMA BuilderGoesOn ==
  ASSUME MetadataInv, NEW b \in Builders, NEW s \in BuildState,
         s.at # "fill", BuilderKnows(had, s),
         build' = [build EXCEPT ![b] = s],
         alone' \in [Builders -> BOOLEAN], \A c \in Builders : alone'[c] => alone[c] /\ c # b,
         db' = db, had' = had, files' = files, prep' = prep, calm' = calm
  PROVE  MetadataInv'
<1>1. MetadataTypes /\ build \in [Builders -> BuildState]
  BY DEF MetadataInv, MetadataTypes
<1>2. build' \in [Builders -> BuildState] /\ build'[b] = s /\ \A c \in Builders : c # b => build'[c] = build[c]
  BY <1>1
<1>3. MetadataTypes'
  BY <1>1, <1>2 DEF MetadataTypes
<1>4. FilesHonest'
  BY DEF MetadataInv, FilesHonest, Readable
<1>5. ASSUME NEW c \in Builders PROVE BuilderKnows(had', build'[c])
  BY <1>2 DEF MetadataInv
<1>6. PrepKnows(had', prep')
  BY DEF MetadataInv
<1>7. ASSUME NEW c \in Builders, alone'[c]
      PROVE  /\ build'[c].at \in {"fill", "done"}
             /\ \A o \in Builders : o # c => ~Fills(build'[o], build'[c].ask.sql)
             /\ ~PrepFills(prep', build'[c].ask.sql)
             /\ Kept(build'[c], files'[build'[c].ask.sql])
  <2>1. alone[c] /\ build'[c] = build[c]
    BY <1>2, <1>7
  <2>2. ~Fills(s, build[c].ask.sql)
    BY DEF Fills
  <2> QED BY <1>2, <2>1, <2>2 DEF MetadataInv, Owned
<1>8. Calm'
  BY <1>2 DEF MetadataInv, Calm
<1> QED BY <1>3, <1>4, <1>5, <1>6, <1>7, <1>8 DEF MetadataInv, Owned

\* A compiler leaves the file that it has open.
LEMMA BuilderLeaves ==
  ASSUME MetadataInv, NEW b \in Builders, NEW s \in BuildState, NEW f \in FileState,
         build[b].at = "fill", s.at # "fill", BuilderKnows(had, s),
         f.is = "whole" => Honest(had, build[b].ask.sql, f.entry),
         build' = [build EXCEPT ![b] = s],
         files' = [files EXCEPT ![build[b].ask.sql] = f],
         alone' \in [Builders -> BOOLEAN], \A c \in Builders : alone'[c] => alone[c],
         alone'[b] => s.at = "done" /\ s.ask = build[b].ask /\ f = Whole(s.has),
         db' = db, had' = had, prep' = prep, calm' = calm
  PROVE  MetadataInv'
<1> DEFINE t == build[b].ask.sql
<1>1. MetadataTypes /\ build \in [Builders -> BuildState] /\ files \in [Texts -> FileState]
  BY DEF MetadataInv, MetadataTypes
<1>2. build' \in [Builders -> BuildState] /\ build'[b] = s /\ \A c \in Builders : c # b => build'[c] = build[c]
  BY <1>1
<1>3. t \in Texts
  BY TextsLemma DEF MetadataInv, BuilderKnows
<1>4. files' \in [Texts -> FileState] /\ files'[t] = f /\ \A u \in Texts : u # t => files'[u] = files[u]
  BY <1>1, <1>3
<1>5. MetadataTypes'
  BY <1>1, <1>2, <1>4 DEF MetadataTypes
<1>6. FilesHonest'
  BY <1>4 DEF MetadataInv, FilesHonest, Readable
<1>7. ASSUME NEW c \in Builders PROVE BuilderKnows(had', build'[c])
  BY <1>2 DEF MetadataInv
<1>8. PrepKnows(had', prep')
  BY DEF MetadataInv
<1>9. ASSUME NEW c \in Builders, alone'[c]
      PROVE  /\ build'[c].at \in {"fill", "done"}
             /\ \A o \in Builders : o # c => ~Fills(build'[o], build'[c].ask.sql)
             /\ ~PrepFills(prep', build'[c].ask.sql)
             /\ Kept(build'[c], files'[build'[c].ask.sql])
  <2>1. /\ build[c].at \in {"fill", "done"}
        /\ \A o \in Builders : o # c => ~Fills(build[o], build[c].ask.sql)
        /\ ~PrepFills(prep, build[c].ask.sql)
        /\ Kept(build[c], files[build[c].ask.sql])
    BY <1>9 DEF MetadataInv, Owned
  <2>2. \A o \in Builders : Fills(build'[o], build[c].ask.sql) => o # b /\ Fills(build[o], build[c].ask.sql)
    BY <1>2 DEF Fills
  <2>3. CASE c = b
    BY <1>2, <1>4, <1>9, <2>1, <2>2, <2>3 DEF Kept
  <2>4. CASE c # b
    <3>1. build'[c] = build[c]
      BY <1>2, <2>4
    <3>2. build[c].ask.sql # t
      BY <2>1, <2>4 DEF Fills
    <3>3. build[c].ask.sql \in Texts
      BY <2>1, TextsLemma DEF MetadataInv, BuilderKnows
    <3> QED BY <1>4, <2>1, <2>2, <3>1, <3>2, <3>3
  <2> QED BY <2>3, <2>4
<1>10. calm = FALSE
  BY <1>1 DEF MetadataInv, Calm, MetadataTypes
<1>11. Calm'
  BY <1>10 DEF Calm
<1> QED BY <1>5, <1>6, <1>7, <1>8, <1>9, <1>11 DEF MetadataInv, Owned

LEMMA ExpandKeeps == ASSUME MetadataInv, NEW b \in Builders, Expand(b) PROVE MetadataInv'
<1>1. PICK r \in Requests, offline \in BOOLEAN :
        build' = [build EXCEPT ![b] =
          IF Readable(r.sql) THEN Does("done", r, NoDescription, files[r.sql].entry)
          ELSE IF offline THEN Idle ELSE Does("describe", r, NoDescription, NoEntry)]
  BY DEF Expand
<1> DEFINE s == IF Readable(r.sql) THEN Does("done", r, NoDescription, files[r.sql].entry)
                ELSE IF offline THEN Idle ELSE Does("describe", r, NoDescription, NoEntry)
<1>2. r.sql \in Texts /\ files[r.sql] \in FileState
  BY TextsLemma DEF MetadataInv, MetadataTypes
<1>3. s \in BuildState /\ s.at # "fill"
  BY <1>2, NothingTyped DEF FileState, BuildState, Does, Idle
<1>4. BuilderKnows(had, s)
  <2>1. CASE Readable(r.sql)
    BY <1>2, <2>1 DEF MetadataInv, FilesHonest, BuilderKnows, Does
  <2>2. CASE ~Readable(r.sql)
    BY <2>2 DEF BuilderKnows, Does, Idle
  <2> QED BY <2>1, <2>2
<1>5. alone' \in [Builders -> BOOLEAN] /\ \A c \in Builders : alone'[c] => alone[c] /\ c # b
  BY DEF Expand, MetadataInv, MetadataTypes
<1>6. db' = db /\ had' = had /\ files' = files /\ prep' = prep /\ calm' = calm
  BY DEF Expand
<1> HIDE DEF s
<1> QED BY <1>1, <1>3, <1>4, <1>5, <1>6, BuilderGoesOn DEF s

\* Whoever has not opened a file is alone with none.
LEMMA NotAlone ==
  ASSUME MetadataInv, NEW b \in Builders, build[b].at \notin {"fill", "done"}
  PROVE  /\ \A c \in Builders : alone[c] => alone[c] /\ c # b
         /\ alone \in [Builders -> BOOLEAN]
  BY DEF MetadataInv, Owned, MetadataTypes

LEMMA IdleFits == Idle \in BuildState /\ Idle.at = "idle" /\ BuilderKnows(had, Idle)
  BY NothingTyped DEF Idle, Does, BuildState, BuilderKnows

LEMMA AskTyped ==
  ASSUME MetadataInv, NEW b \in Builders
  PROVE  /\ build[b] \in BuildState /\ build[b].ask \in Requests \cup {NoRequest} /\ build[b].has \in CacheEntries
         /\ build[b].at # "idle" => build[b].ask \in Requests /\ build[b].ask.sql \in Texts
<1>1. build[b] \in BuildState /\ BuilderKnows(had, build[b])
  BY DEF MetadataInv, MetadataTypes
<1> QED BY <1>1, TextsLemma DEF BuildState, BuilderKnows

LEMMA DescribeKeeps == ASSUME MetadataInv, NEW b \in Builders, Describe(b) PROVE MetadataInv'
<1>1. /\ db' = db /\ had' = had /\ files' = files /\ prep' = prep /\ alone' = alone /\ calm' = calm
      /\ build[b].at = "describe"
  BY DEF Describe
<1>2. alone' \in [Builders -> BOOLEAN] /\ \A c \in Builders : alone'[c] => alone[c] /\ c # b
  BY <1>1, NotAlone
<1>3. CASE GivesUp(b)
  BY <1>1, <1>2, <1>3, IdleFits, BuilderGoesOn DEF GivesUp
<1>4. CASE /\ build[b].ask.sql \in DOMAIN db.says
           /\ Goes(b, "nulls", db.says[build[b].ask.sql], NoEntry)
  <2> DEFINE s == Does("nulls", build[b].ask, db.says[build[b].ask.sql], NoEntry)
  <2>1. db \in Databases /\ db \in had
    BY DEF MetadataInv, MetadataTypes
  <2>2. db.says[build[b].ask.sql] \in Description
    BY <1>4, <2>1, DescriptionsTyped
  <2>3. s \in BuildState /\ s.at # "fill"
    BY <2>2, AskTyped, NothingTyped DEF BuildState, Does
  <2>4. BuilderKnows(had, s)
    BY <1>1, <1>4, <2>1, AskTyped DEF BuilderKnows, Does
  <2>5. build' = [build EXCEPT ![b] = s]
    BY <1>4 DEF Goes
  <2> HIDE DEF s
  <2> QED BY <1>1, <1>2, <2>3, <2>4, <2>5, BuilderGoesOn
<1> QED BY <1>3, <1>4 DEF Describe

LEMMA NullsKeeps == ASSUME MetadataInv, NEW b \in Builders, Nulls(b) PROVE MetadataInv'
<1>1. /\ db' = db /\ had' = had /\ files' = files /\ prep' = prep /\ alone' = alone /\ calm' = calm
      /\ build[b].at = "nulls"
  BY DEF Nulls
<1>2. alone' \in [Builders -> BOOLEAN] /\ \A c \in Builders : alone'[c] => alone[c] /\ c # b
  BY <1>1, NotAlone
<1>3. PICK notnull \in {db.notnull, {}} : Goes(b, "open", NoDescription, Described(build[b].saw, notnull))
  BY DEF Nulls
<1> DEFINE s == Does("open", build[b].ask, NoDescription, Described(build[b].saw, notnull))
<1>4. PICK d \in had : build[b].ask.sql \in DOMAIN d.says /\ build[b].saw = d.says[build[b].ask.sql]
  BY <1>1 DEF MetadataInv, BuilderKnows
<1>5. d \in Databases /\ db \in had
  BY DEF MetadataInv, MetadataTypes
<1>6. Described(build[b].saw, notnull) \in CacheEntries
  BY <1>4, <1>5, DescriptionsTyped, DescribedTyped
<1>7. Honest(had, build[b].ask.sql, Described(build[b].saw, notnull))
  BY <1>4, <1>5, DescribedHonest
<1>8. s \in BuildState /\ s.at # "fill"
  BY <1>6, AskTyped, NothingTyped DEF BuildState, Does
<1>9. BuilderKnows(had, s)
  BY <1>1, <1>7, AskTyped DEF BuilderKnows, Does
<1>10. build' = [build EXCEPT ![b] = s]
  BY <1>3 DEF Goes
<1> HIDE DEF s
<1> QED BY <1>1, <1>2, <1>8, <1>9, <1>10, BuilderGoesOn

\* What is known stays known when the file is opened, written, or given up.
LEMMA StillKnows ==
  ASSUME MetadataInv, NEW b \in Builders, build[b].at \in {"open", "fill"}, NEW at \in {"fill", "done"}
  PROVE  LET s == Does(at, build[b].ask, NoDescription, build[b].has)
         IN s \in BuildState /\ s.at = at /\ s.ask = build[b].ask /\ s.has = build[b].has /\ BuilderKnows(had, s)
<1>1. BuilderKnows(had, build[b])
  BY DEF MetadataInv
<1> QED BY <1>1, AskTyped, NothingTyped DEF BuildState, BuilderKnows, Does

LEMMA OpenFailsKeeps == ASSUME MetadataInv, NEW b \in Builders, OpenFails(b) PROVE MetadataInv'
<1>1. /\ db' = db /\ had' = had /\ files' = files /\ prep' = prep /\ alone' = alone /\ calm' = calm
      /\ build[b].at = "open"
  BY DEF OpenFails
<1>2. alone' \in [Builders -> BOOLEAN] /\ \A c \in Builders : alone'[c] => alone[c] /\ c # b
  BY <1>1, NotAlone
<1> DEFINE s == Does("done", build[b].ask, NoDescription, build[b].has)
<1>3. s \in BuildState /\ s.at # "fill" /\ BuilderKnows(had, s)
  BY <1>1, StillKnows
<1>4. build' = [build EXCEPT ![b] = s]
  BY DEF OpenFails, Goes
<1> HIDE DEF s
<1> QED BY <1>1, <1>2, <1>3, <1>4, BuilderGoesOn

LEMMA FillKeeps == ASSUME MetadataInv, NEW b \in Builders, Fill(b) PROVE MetadataInv'
<1> DEFINE t == build[b].ask.sql
           s == Does("done", build[b].ask, NoDescription, build[b].has)
<1>1. /\ db' = db /\ had' = had /\ prep' = prep /\ alone' = alone /\ calm' = calm
      /\ build[b].at = "fill"
  BY DEF Fill
<1>2. PICK f \in {Whole(build[b].has), Torn} :
        /\ files[t] \in {Emptied, Whole(build[b].has)} => f = Whole(build[b].has)
        /\ files' = [files EXCEPT ![t] = f]
  BY DEF Fill, Write
<1>3. s \in BuildState /\ s.at = "done" /\ s.ask = build[b].ask /\ s.has = build[b].has /\ BuilderKnows(had, s)
  BY <1>1, StillKnows
<1>4. f \in FileState /\ (f.is = "whole" => f.entry = build[b].has)
  BY AskTyped, NothingTyped
<1>5. Honest(had, t, build[b].has)
  BY <1>1 DEF MetadataInv, BuilderKnows
<1>6. build' = [build EXCEPT ![b] = s]
  BY DEF Fill, Goes
<1>7. alone' \in [Builders -> BOOLEAN] /\ \A c \in Builders : alone'[c] => alone[c]
  BY <1>1 DEF MetadataInv, MetadataTypes
<1>8. alone'[b] => f = Whole(s.has)
  <2>1. alone[b] => files[t] = Emptied
    BY <1>1 DEF MetadataInv, Owned, Kept
  <2> QED BY <1>1, <1>2, <1>3, <2>1
<1> HIDE DEF s
<1> QED BY <1>1, <1>2, <1>3, <1>4, <1>5, <1>6, <1>7, <1>8, BuilderLeaves

LEMMA FillFailsKeeps == ASSUME MetadataInv, NEW b \in Builders, FillFails(b) PROVE MetadataInv'
<1> DEFINE t == build[b].ask.sql
           s == Does("done", build[b].ask, NoDescription, build[b].has)
<1>1. /\ db' = db /\ had' = had /\ prep' = prep /\ calm' = calm /\ alone' = [alone EXCEPT ![b] = FALSE]
      /\ build[b].at = "fill"
  BY DEF FillFails
<1>2. PICK f \in {files[t], Torn} : files' = [files EXCEPT ![t] = f]
  BY DEF FillFails, WriteFails
<1>3. s \in BuildState /\ s.at = "done" /\ BuilderKnows(had, s)
  BY <1>1, StillKnows
<1>4. t \in Texts /\ files \in [Texts -> FileState]
  BY <1>1, AskTyped DEF MetadataInv, MetadataTypes
<1>5. f \in FileState /\ (f.is = "whole" => Honest(had, t, f.entry))
  BY <1>4, NothingTyped DEF MetadataInv, FilesHonest, Readable
<1>6. build' = [build EXCEPT ![b] = s]
  BY DEF FillFails, Goes
<1>7. alone' \in [Builders -> BOOLEAN] /\ alone'[b] = FALSE /\ \A c \in Builders : alone'[c] => alone[c]
  BY <1>1 DEF MetadataInv, MetadataTypes
<1> HIDE DEF s
<1> QED BY <1>1, <1>2, <1>3, <1>5, <1>6, <1>7, BuilderLeaves

LEMMA DiesKeeps == ASSUME MetadataInv, NEW b \in Builders, Dies(b) PROVE MetadataInv'
<1> DEFINE t == build[b].ask.sql
<1>1. /\ db' = db /\ had' = had /\ prep' = prep /\ calm' = calm /\ alone' = [alone EXCEPT ![b] = FALSE]
      /\ build[b].at \in Busy /\ build' = [build EXCEPT ![b] = Idle]
  BY DEF Dies, GivesUp
<1>2. alone' \in [Builders -> BOOLEAN] /\ alone'[b] = FALSE /\ \A c \in Builders : alone'[c] => alone[c] /\ c # b
  BY <1>1 DEF MetadataInv, MetadataTypes
<1>3. CASE build[b].at = "fill"
  <2>1. PICK f \in {files[t], Torn} : files' = [files EXCEPT ![t] = f]
    BY <1>3 DEF Dies, WriteFails
  <2>2. t \in Texts /\ files \in [Texts -> FileState]
    BY <1>3, AskTyped DEF MetadataInv, MetadataTypes
  <2>3. f \in FileState /\ (f.is = "whole" => Honest(had, t, f.entry))
    BY <2>2, NothingTyped DEF MetadataInv, FilesHonest, Readable
  <2> QED BY <1>1, <1>2, <1>3, <2>1, <2>3, IdleFits, BuilderLeaves
<1>4. CASE build[b].at # "fill"
  <2>1. files' = files
    BY <1>4 DEF Dies
  <2> QED BY <1>1, <1>2, <2>1, IdleFits, BuilderGoesOn
<1> QED BY <1>3, <1>4

LEMMA OpenFileKeeps == ASSUME MetadataInv, NEW b \in Builders, OpenFile(b) PROVE MetadataInv'
<1> DEFINE t == build[b].ask.sql
           s == Does("fill", build[b].ask, NoDescription, build[b].has)
<1>1. /\ db' = db /\ had' = had /\ prep' = prep /\ calm' = FALSE
      /\ build[b].at = "open" /\ files' = [files EXCEPT ![t] = Emptied]
      /\ build' = [build EXCEPT ![b] = s]
      /\ alone' = [c \in Builders |-> IF c = b THEN ~IsOpen(t) ELSE alone[c] /\ build[c].ask.sql # t]
  BY DEF OpenFile, Open, Goes
<1>2. MetadataTypes /\ build \in [Builders -> BuildState] /\ files \in [Texts -> FileState]
  BY DEF MetadataInv, MetadataTypes
<1>3. s \in BuildState /\ s.at = "fill" /\ s.ask = build[b].ask /\ BuilderKnows(had, s)
  BY <1>1, StillKnows
<1>4. t \in Texts
  BY <1>1, AskTyped
<1>5. build' \in [Builders -> BuildState] /\ build'[b] = s /\ \A c \in Builders : c # b => build'[c] = build[c]
  BY <1>1, <1>2, <1>3
<1>6. files' \in [Texts -> FileState] /\ files'[t] = Emptied /\ \A u \in Texts : u # t => files'[u] = files[u]
  BY <1>1, <1>2, <1>4, NothingTyped
<1>7. alone' \in [Builders -> BOOLEAN]
  BY <1>1, <1>2 DEF MetadataTypes, IsOpen
<1>8. MetadataTypes'
  BY <1>1, <1>2, <1>5, <1>6, <1>7 DEF MetadataTypes
<1>9. FilesHonest'
  BY <1>1, <1>6, NothingTyped DEF MetadataInv, FilesHonest, Readable
<1>10. ASSUME NEW c \in Builders PROVE BuilderKnows(had', build'[c])
  BY <1>1, <1>3, <1>5 DEF MetadataInv
<1>11. PrepKnows(had', prep')
  BY <1>1 DEF MetadataInv
<1> HIDE DEF s
<1>12. ASSUME NEW c \in Builders, alone'[c]
       PROVE  /\ build'[c].at \in {"fill", "done"}
              /\ \A o \in Builders : o # c => ~Fills(build'[o], build'[c].ask.sql)
              /\ ~PrepFills(prep', build'[c].ask.sql)
              /\ Kept(build'[c], files'[build'[c].ask.sql])
  <2>1. CASE c = b
    <3>1. ~IsOpen(t)
      BY <1>1, <1>12, <2>1
    <3>2. \A o \in Builders : o # b => ~Fills(build'[o], t)
      BY <1>5, <3>1 DEF IsOpen, Fills
    <3>3. ~PrepFills(prep', t)
      BY <1>1, <3>1 DEF IsOpen, PrepFills
    <3> QED BY <1>3, <1>5, <1>6, <2>1, <3>2, <3>3 DEF Kept
  <2>2. CASE c # b
    <3>1. alone[c] /\ build[c].ask.sql # t /\ build'[c] = build[c]
      BY <1>1, <1>5, <1>12, <2>2
    <3>2. /\ build[c].at \in {"fill", "done"}
          /\ \A o \in Builders : o # c => ~Fills(build[o], build[c].ask.sql)
          /\ ~PrepFills(prep, build[c].ask.sql)
          /\ Kept(build[c], files[build[c].ask.sql])
      BY <3>1 DEF MetadataInv, Owned
    <3>3. build[c].ask.sql \in Texts
      BY <3>2, AskTyped
    <3>4. \A o \in Builders : o # c => ~Fills(build'[o], build[c].ask.sql)
      BY <1>3, <1>5, <3>1, <3>2 DEF Fills
    <3> QED BY <1>1, <1>6, <3>1, <3>2, <3>3, <3>4
  <2> QED BY <2>1, <2>2
<1>13. Calm'
  BY <1>1 DEF Calm
<1> QED BY <1>8, <1>9, <1>10, <1>11, <1>12, <1>13 DEF MetadataInv, Owned

\* The command goes on, and no file is touched.
LEMMA PrepareGoesOn ==
  ASSUME MetadataInv, NEW p \in PrepState, p.at # "fill", PrepKnows(had, p),
         prep' = p, calm' \in BOOLEAN,
         calm' => /\ p.at # "idle" /\ Undisturbed(db, files, p) /\ \A b \in Builders : build[b].at # "fill",
         db' = db, had' = had, files' = files, build' = build, alone' = alone
  PROVE  MetadataInv'
<1>1. MetadataTypes' /\ FilesHonest'
  BY DEF MetadataInv, MetadataTypes, FilesHonest, Readable
<1>2. PrepKnows(had', prep') /\ \A b \in Builders : BuilderKnows(had', build'[b])
  BY DEF MetadataInv
<1>3. \A t : ~PrepFills(prep', t)
  BY DEF PrepFills
<1>4. Owned'
  BY <1>3 DEF MetadataInv, Owned
<1>5. Calm'
  BY DEF Calm
<1> QED BY <1>1, <1>2, <1>4, <1>5 DEF MetadataInv

\* The command leaves the file that it has open.
LEMMA PrepareLeaves ==
  ASSUME MetadataInv, NEW p \in PrepState, NEW f \in FileState,
         prep.at = "fill", p.at # "fill", PrepKnows(had, p),
         f.is = "whole" => Honest(had, Scanned[prep.next], f.entry),
         prep' = p, files' = [files EXCEPT ![Scanned[prep.next]] = f],
         calm => /\ p.at # "idle" /\ Undisturbed(db, files', p),
         db' = db, had' = had, build' = build, alone' = alone, calm' = calm
  PROVE  MetadataInv'
<1> DEFINE t == Scanned[prep.next]
<1>1. MetadataTypes /\ files \in [Texts -> FileState]
  BY DEF MetadataInv, MetadataTypes
<1>2. t \in Texts
  BY TextsLemma DEF MetadataInv, PrepKnows
<1>3. files' \in [Texts -> FileState] /\ files'[t] = f /\ \A u \in Texts : u # t => files'[u] = files[u]
  BY <1>1, <1>2
<1>4. MetadataTypes'
  BY <1>1, <1>3 DEF MetadataTypes
<1>5. FilesHonest'
  BY <1>3 DEF MetadataInv, FilesHonest, Readable
<1>6. PrepKnows(had', prep') /\ \A b \in Builders : BuilderKnows(had', build'[b])
  BY DEF MetadataInv
<1>7. ASSUME NEW c \in Builders, alone'[c]
      PROVE  /\ build'[c].at \in {"fill", "done"}
             /\ \A o \in Builders : o # c => ~Fills(build'[o], build'[c].ask.sql)
             /\ ~PrepFills(prep', build'[c].ask.sql)
             /\ Kept(build'[c], files'[build'[c].ask.sql])
  <2>1. /\ build[c].at \in {"fill", "done"}
        /\ \A o \in Builders : o # c => ~Fills(build[o], build[c].ask.sql)
        /\ ~PrepFills(prep, build[c].ask.sql)
        /\ Kept(build[c], files[build[c].ask.sql])
    BY <1>7 DEF MetadataInv, Owned
  <2>2. build[c].ask.sql # t
    BY <2>1 DEF PrepFills
  <2>3. build[c].ask.sql \in Texts
    BY <2>1, AskTyped
  <2>4. ~PrepFills(prep', build[c].ask.sql)
    BY DEF PrepFills
  <2> QED BY <1>3, <2>1, <2>2, <2>3, <2>4
<1>8. Calm'
  BY DEF Calm, MetadataInv
<1> QED BY <1>4, <1>5, <1>6, <1>7, <1>8 DEF MetadataInv, Owned

LEMMA PrepTyped ==
  ASSUME MetadataInv
  PROVE  /\ prep \in PrepState /\ prep.next \in Nat /\ prep.next # 0 /\ prep.failed \in BOOLEAN /\ prep.entry \in CacheEntries
         /\ db \in Databases /\ db \in had /\ calm \in BOOLEAN
  BY DEF MetadataInv, MetadataTypes, PrepState

LEMMA BeginKeeps == ASSUME MetadataInv, Begin PROVE MetadataInv'
<1> DEFINE p == [at |-> "describe", next |-> 1, entry |-> NoEntry, failed |-> FALSE]
<1>1. /\ db' = db /\ had' = had /\ files' = files /\ build' = build /\ alone' = alone
      /\ prep' = p /\ calm' = \A b \in Builders : build[b].at # "fill"
  BY DEF Begin, PrepGoes
<1>2. p \in PrepState /\ p.at = "describe" /\ p.next = 1
  BY NothingTyped DEF PrepState
<1>3. calm' \in BOOLEAN
  BY <1>1
<1> HIDE DEF p
<1>4. PrepKnows(had, p) /\ Undisturbed(db, files, p)
  BY <1>2, ScannedAssumption DEF PrepKnows, Undisturbed
<1> QED BY <1>1, <1>2, <1>3, <1>4, PrepareGoesOn

LEMMA PrepDescribeKeeps == ASSUME MetadataInv, PrepDescribe PROVE MetadataInv'
<1> DEFINE t == Scanned[prep.next]
<1>1. /\ db' = db /\ had' = had /\ files' = files /\ build' = build /\ alone' = alone /\ calm' = calm
      /\ prep.at = "describe" /\ prep.next <= Len(Scanned)
  BY DEF PrepDescribe
<1>2. calm => Undisturbed(db, files, prep) /\ \A b \in Builders : build[b].at # "fill"
  BY DEF MetadataInv, Calm
<1>3. CASE PrepGoes("describe", prep.next + 1, NoEntry, TRUE)
  <2> DEFINE p == [at |-> "describe", next |-> prep.next + 1, entry |-> NoEntry, failed |-> TRUE]
  <2>1. p \in PrepState /\ p.at = "describe" /\ p.failed = TRUE
    BY PrepTyped, NothingTyped DEF PrepState
  <2>2. prep' = p
    BY <1>3 DEF PrepGoes
  <2> HIDE DEF p
  <2>3. PrepKnows(had, p) /\ Undisturbed(db, files, p)
    BY <2>1 DEF PrepKnows, Undisturbed
  <2> QED BY <1>1, <1>2, <2>1, <2>2, <2>3, PrepTyped, PrepareGoesOn
<1>4. CASE t \in DOMAIN db.says /\ PrepGoes("open", prep.next, Prepared(db.says[t]), prep.failed)
  <2> DEFINE e == Prepared(db.says[t])
             p == [at |-> "open", next |-> prep.next, entry |-> e, failed |-> prep.failed]
  <2>1. e \in CacheEntries /\ Honest(had, t, e)
    BY <1>4, PrepTyped, DescriptionsTyped, PreparedTyped, PreparedHonest
  <2>2. prep' = p
    BY <1>4 DEF PrepGoes
  <2> HIDE DEF e
  <2>3. p \in PrepState /\ p.at = "open" /\ p.next = prep.next /\ p.entry = e /\ p.failed = prep.failed
    BY <2>1, PrepTyped DEF PrepState
  <2> HIDE DEF p
  <2>4. p.next \in DOMAIN Scanned
    <3>1. prep.next \in Nat /\ prep.next # 0
      BY PrepTyped
    <3> QED BY <1>1, <2>3, <3>1, ScannedAssumption
  <2>5. PrepKnows(had, p)
    BY <2>1, <2>3, <2>4 DEF PrepKnows
  <2>6. calm => Undisturbed(db, files, p)
    BY <1>1, <1>2, <1>4, <2>3 DEF Undisturbed, e
  <2> QED BY <1>1, <1>2, <2>2, <2>3, <2>5, <2>6, PrepTyped, PrepareGoesOn
<1> QED BY <1>3, <1>4 DEF PrepDescribe

LEMMA PrepOpenKeeps == ASSUME MetadataInv, PrepOpen PROVE MetadataInv'
<1> DEFINE t == Scanned[prep.next]
           p == [at |-> "fill", next |-> prep.next, entry |-> prep.entry, failed |-> prep.failed]
<1>1. /\ db' = db /\ had' = had /\ build' = build /\ calm' = calm
      /\ prep.at = "open" /\ prep' = p /\ files' = [files EXCEPT ![t] = Emptied]
      /\ alone' = [c \in Builders |-> alone[c] /\ build[c].ask.sql # t]
  BY DEF PrepOpen, PrepGoes, Open
<1>2. p \in PrepState /\ p.at = "fill" /\ p.next = prep.next /\ p.entry = prep.entry /\ p.failed = prep.failed
  BY PrepTyped DEF PrepState
<1> HIDE DEF p
<1>3. MetadataTypes /\ files \in [Texts -> FileState]
  BY DEF MetadataInv, MetadataTypes
<1>4. prep.next \in DOMAIN Scanned /\ Honest(had, t, prep.entry) /\ t \in Texts
  BY <1>1, TextsLemma DEF MetadataInv, PrepKnows
<1>5. files' \in [Texts -> FileState] /\ files'[t] = Emptied /\ \A u \in Texts : u # t => files'[u] = files[u]
  BY <1>1, <1>3, <1>4, NothingTyped
<1>6. alone' \in [Builders -> BOOLEAN]
  BY <1>1, <1>3 DEF MetadataTypes
<1>7. MetadataTypes'
  BY <1>1, <1>2, <1>3, <1>5, <1>6 DEF MetadataTypes
<1>8. FilesHonest'
  BY <1>1, <1>5, NothingTyped DEF MetadataInv, FilesHonest, Readable
<1>9. PrepKnows(had', prep') /\ \A b \in Builders : BuilderKnows(had', build'[b])
  BY <1>1, <1>2, <1>4 DEF MetadataInv, PrepKnows
<1>10. ASSUME NEW c \in Builders, alone'[c]
       PROVE  /\ build'[c].at \in {"fill", "done"}
              /\ \A o \in Builders : o # c => ~Fills(build'[o], build'[c].ask.sql)
              /\ ~PrepFills(prep', build'[c].ask.sql)
              /\ Kept(build'[c], files'[build'[c].ask.sql])
  <2>1. alone[c] /\ build[c].ask.sql # t
    BY <1>1, <1>10
  <2>2. /\ build[c].at \in {"fill", "done"}
        /\ \A o \in Builders : o # c => ~Fills(build[o], build[c].ask.sql)
        /\ Kept(build[c], files[build[c].ask.sql])
    BY <2>1 DEF MetadataInv, Owned
  <2>3. build[c].ask.sql \in Texts
    BY <2>2, AskTyped
  <2>4. ~PrepFills(prep', build[c].ask.sql)
    BY <1>1, <1>2, <2>1 DEF PrepFills
  <2> QED BY <1>1, <1>5, <2>1, <2>2, <2>3, <2>4
<1>11. ASSUME calm PROVE Undisturbed(db, files', p)
  <2>1. Undisturbed(db, files, prep)
    BY <1>11 DEF MetadataInv, Calm
  <2>2. /\ ~prep.failed => \A i \in DOMAIN Scanned : i < prep.next => Current(db, Scanned[i], files[Scanned[i]])
        /\ t \in DOMAIN db.says /\ prep.entry = Prepared(db.says[t])
    BY <1>1, <2>1 DEF Undisturbed
  <2>3. ASSUME NEW i \in DOMAIN Scanned, i < prep.next PROVE files'[Scanned[i]] = files[Scanned[i]]
    <3>1. i # prep.next
      BY <2>3, PrepTyped, ScannedAssumption
    <3>2. Scanned[i] # t /\ Scanned[i] \in Texts
      BY <1>4, <3>1, ScannedAssumption, TextsLemma
    <3> QED BY <1>5, <3>2
  <2> QED BY <1>2, <1>5, <2>2, <2>3 DEF Undisturbed
<1>12. Calm'
  BY <1>1, <1>2, <1>11 DEF MetadataInv, Calm
<1> QED BY <1>7, <1>8, <1>9, <1>10, <1>12 DEF MetadataInv, Owned

LEMMA PrepFillKeeps == ASSUME MetadataInv, PrepFill PROVE MetadataInv'
<1> DEFINE t == Scanned[prep.next]
           p == [at |-> "describe", next |-> prep.next + 1, entry |-> NoEntry, failed |-> prep.failed]
<1>1. /\ db' = db /\ had' = had /\ build' = build /\ alone' = alone /\ calm' = calm
      /\ prep.at = "fill" /\ prep' = p
  BY DEF PrepFill, PrepGoes
<1>2. PICK f \in {Whole(prep.entry), Torn} :
        /\ files[t] \in {Emptied, Whole(prep.entry)} => f = Whole(prep.entry)
        /\ files' = [files EXCEPT ![t] = f]
  BY DEF PrepFill, Write
<1>3. p \in PrepState /\ p.at = "describe" /\ p.next = prep.next + 1 /\ p.failed = prep.failed
  BY PrepTyped, NothingTyped DEF PrepState
<1> HIDE DEF p
<1>4. prep.next \in DOMAIN Scanned /\ Honest(had, t, prep.entry) /\ t \in Texts
  BY <1>1, TextsLemma DEF MetadataInv, PrepKnows
<1>5. f \in FileState /\ (f.is = "whole" => f.entry = prep.entry)
  BY PrepTyped, NothingTyped
<1>6. PrepKnows(had, p)
  BY <1>3 DEF PrepKnows
<1>7. files'[t] = f /\ \A u \in Texts : u # t => files'[u] = files[u]
  BY <1>2, <1>4 DEF MetadataInv, MetadataTypes
<1>8. ASSUME calm PROVE Undisturbed(db, files', p)
  <2>1. Undisturbed(db, files, prep)
    BY <1>8 DEF MetadataInv, Calm
  <2>2. /\ ~prep.failed => \A i \in DOMAIN Scanned : i < prep.next => Current(db, Scanned[i], files[Scanned[i]])
        /\ t \in DOMAIN db.says /\ prep.entry = Prepared(db.says[t]) /\ files[t] = Emptied
    BY <1>1, <2>1 DEF Undisturbed
  <2>3. Current(db, t, files'[t])
    BY <1>2, <1>7, <2>2, PrepTyped, NothingTyped DEF Current
  <2>4. ASSUME ~prep.failed, NEW i \in DOMAIN Scanned, i < prep.next + 1
        PROVE  Current(db, Scanned[i], files'[Scanned[i]])
    <3>1. CASE i = prep.next
      BY <2>3, <3>1
    <3>2. CASE i # prep.next
      <4>1. i < prep.next
        BY <2>4, <3>2, PrepTyped, ScannedAssumption
      <4>2. Scanned[i] # t /\ Scanned[i] \in Texts
        BY <1>4, <3>2, ScannedAssumption, TextsLemma
      <4> QED BY <1>7, <2>2, <2>4, <4>1, <4>2
    <3> QED BY <3>1, <3>2
  <2> QED BY <1>3, <2>4 DEF Undisturbed
<1>9. calm => p.at # "idle" /\ Undisturbed(db, files', p)
  BY <1>3, <1>8
<1>10. f.is = "whole" => Honest(had, t, f.entry)
  BY <1>4, <1>5
<1>11. p.at # "fill"
  BY <1>3
<1> QED BY ONLY MetadataInv, <1>1, <1>2, <1>3, <1>5, <1>6, <1>9, <1>10, <1>11, PrepareLeaves

LEMMA PrepEndsKeeps == ASSUME MetadataInv, PrepEnds PROVE MetadataInv'
<1> DEFINE p == [at |-> "done", next |-> prep.next, entry |-> NoEntry, failed |-> prep.failed]
<1>1. /\ db' = db /\ had' = had /\ files' = files /\ build' = build /\ alone' = alone /\ calm' = calm
      /\ prep.at = "describe" /\ prep.next > Len(Scanned) /\ prep' = p
  BY DEF PrepEnds, PrepGoes
<1>2. p \in PrepState /\ p.at = "done" /\ p.next = prep.next /\ p.failed = prep.failed
  BY PrepTyped, NothingTyped DEF PrepState
<1> HIDE DEF p
<1>3. PrepKnows(had, p)
  BY <1>2 DEF PrepKnows
<1>4. calm => Undisturbed(db, files, prep) /\ \A b \in Builders : build[b].at # "fill"
  BY DEF MetadataInv, Calm
<1>5. calm => Undisturbed(db, files, p)
  BY <1>1, <1>2, <1>4 DEF Undisturbed
<1> QED BY <1>1, <1>2, <1>3, <1>4, <1>5, PrepTyped, PrepareGoesOn

LEMMA PrepDiesKeeps == ASSUME MetadataInv, PrepDies PROVE MetadataInv'
<1> DEFINE t == Scanned[prep.next]
           p == [at |-> "failed", next |-> prep.next, entry |-> NoEntry, failed |-> prep.failed]
<1>1. /\ db' = db /\ had' = had /\ build' = build /\ alone' = alone /\ calm' = calm /\ prep' = p
  BY DEF PrepDies, PrepGoes
<1>2. p \in PrepState /\ p.at = "failed"
  BY PrepTyped, NothingTyped DEF PrepState
<1> HIDE DEF p
<1>3. PrepKnows(had, p) /\ \A fs : Undisturbed(db, fs, p)
  BY <1>2 DEF PrepKnows, Undisturbed
<1>4. CASE prep.at = "fill"
  <2>1. PICK f \in {files[t], Torn} : files' = [files EXCEPT ![t] = f]
    BY <1>4 DEF PrepDies, WriteFails
  <2>2. t \in Texts /\ files \in [Texts -> FileState]
    BY <1>4, TextsLemma DEF MetadataInv, PrepKnows, MetadataTypes
  <2>3. f \in FileState /\ (f.is = "whole" => Honest(had, t, f.entry))
    BY <2>2, NothingTyped DEF MetadataInv, FilesHonest, Readable
  <2> QED BY <1>1, <1>2, <1>3, <1>4, <2>1, <2>3, PrepareLeaves
<1>5. CASE prep.at # "fill"
  <2>1. files' = files
    BY <1>5 DEF PrepDies
  <2>2. calm => \A b \in Builders : build[b].at # "fill"
    BY DEF MetadataInv, Calm
  <2> QED BY <1>1, <1>2, <1>3, <2>1, <2>2, PrepTyped, PrepareGoesOn
<1> QED BY <1>4, <1>5

LEMMA ChangeKeeps == ASSUME MetadataInv, Change PROVE MetadataInv'
<1>1. /\ files' = files /\ build' = build /\ prep' = prep /\ alone' = alone
      /\ db' \in Databases /\ had' = had \cup {db'} /\ calm' = FALSE
  BY DEF Change
<1>2. MetadataTypes'
  BY <1>1 DEF MetadataInv, MetadataTypes
<1>3. had \subseteq had'
  BY <1>1
<1>4. FilesHonest'
  BY <1>1, <1>3, HonestStays DEF MetadataInv, FilesHonest, Readable
<1>5. PrepKnows(had', prep') /\ \A b \in Builders : BuilderKnows(had', build'[b])
  BY <1>1, <1>3, HonestStays DEF MetadataInv
<1>6. Owned' /\ Calm'
  BY <1>1 DEF MetadataInv, Owned, Calm
<1> QED BY <1>2, <1>4, <1>5, <1>6 DEF MetadataInv

LEMMA MetadataSteps == MetadataInv /\ [MetadataNext]_metadataVars => MetadataInv'
<1> SUFFICES ASSUME MetadataInv, [MetadataNext]_metadataVars PROVE MetadataInv'
  OBVIOUS
<1>1. ASSUME NEW b \in Builders,
             Expand(b) \/ Describe(b) \/ Nulls(b) \/ OpenFile(b) \/ OpenFails(b) \/ Fill(b) \/ FillFails(b) \/ Dies(b)
      PROVE  MetadataInv'
  BY <1>1, ExpandKeeps, DescribeKeeps, NullsKeeps, OpenFileKeeps, OpenFailsKeeps, FillKeeps, FillFailsKeeps, DiesKeeps
<1>2. CASE Begin \/ PrepDescribe \/ PrepOpen \/ PrepFill \/ PrepEnds \/ PrepDies \/ Change
  BY <1>2, BeginKeeps, PrepDescribeKeeps, PrepOpenKeeps, PrepFillKeeps, PrepEndsKeeps, PrepDiesKeeps, ChangeKeeps
<1>3. CASE UNCHANGED metadataVars
  <2>1. /\ db' = db /\ had' = had /\ files' = files /\ build' = build /\ prep' = prep /\ alone' = alone /\ calm' = calm
    BY <1>3 DEF metadataVars
  <2> QED BY <2>1 DEF MetadataInv, MetadataTypes, FilesHonest, Readable, Owned, Calm
<1> QED BY <1>1, <1>2, <1>3 DEF MetadataNext

(* What follows.                                                           *)

LEMMA CodeIsHonest == MetadataInv => CodeHonest
<1> SUFFICES ASSUME MetadataInv, NEW b \in Builders, build[b].at = "done", Compiles(build[b].ask, build[b].has)
             PROVE  \E d, n \in had :
                      /\ Said(d, build[b].ask.sql, build[b].has)
                      /\ Len(build[b].ask.params) = Len(d.says[build[b].ask.sql].oids)
                      /\ build[b].ask.macro = "query" => \A i \in DOMAIN build[b].has.columns :
                           \/ ReadAsOption(build[b].ask, build[b].has, i)
                           \/ build[b].has.columns[i].nullable = "unsaid"
                           \/ d.says[build[b].ask.sql].fields[i].attribute \in n.notnull
  BY DEF CodeHonest
<1> DEFINE r == build[b].ask
           e == build[b].has
           C == [name : Names, oid : Oids, nullable : {"yes", "no", "unsaid"}]
<1>1. e \in CacheEntries /\ Honest(had, r.sql, e)
  BY AskTyped DEF MetadataInv, BuilderKnows
<1>2. PICK d, n \in had :
        /\ Said(d, r.sql, e)
        /\ \A i \in DOMAIN e.columns :
             e.columns[i].nullable = "no" => d.says[r.sql].fields[i].attribute \in n.notnull
  BY <1>1 DEF Honest
<1>3. e.columns \in Seq(C)
  BY <1>1 DEF CacheEntries
<1>4. \A i \in DOMAIN e.columns : e.columns[i] \in C
  <2> HIDE DEF C
  <2> QED BY <1>3
<1>5. \A i \in DOMAIN e.columns : e.columns[i].nullable \in {"yes", "no", "unsaid"}
  BY <1>4
<1>6. Len(r.params) = Len(d.says[r.sql].oids)
  BY <1>2 DEF Said, Compiles
<1> QED BY <1>2, <1>5, <1>6 DEF ReadAsOption

LEMMA PreparedIsFresh == MetadataInv => Fresh
<1> SUFFICES ASSUME MetadataInv, prep.at = "done", ~prep.failed, calm, NEW i \in DOMAIN Scanned
             PROVE  Readable(Scanned[i]) /\ Scanned[i] \notin Stale
  BY DEF Fresh
<1> DEFINE t == Scanned[i]
<1>1. Undisturbed(db, files, prep)
  BY DEF MetadataInv, Calm
<1>2. prep.next > Len(Scanned)
  BY <1>1 DEF Undisturbed
<1>3. i < prep.next
  BY <1>2, PrepTyped, ScannedAssumption
<1>4. Current(db, t, files[t])
  BY <1>1, <1>3 DEF Undisturbed
<1>5. files[t].is = "whole" /\ t \in DOMAIN db.says /\ files[t].entry = Prepared(db.says[t])
  BY <1>4 DEF Current
<1>6. db.says[t] \in Description
  BY <1>5, PrepTyped, DescriptionsTyped
<1>7. Prepared(db.says[t]).oids = db.says[t].oids
  BY DEF Prepared
<1>8. ColumnsMatch(Prepared(db.says[t]).columns, db.says[t].fields)
  <2> DEFINE f == db.says[t].fields
             c == Prepared(db.says[t]).columns
  <2>1. Len(f) \in Nat /\ DOMAIN f = 1..Len(f)
    BY <1>6, FieldsLemma
  <2>2. DOMAIN c = DOMAIN f /\ \A k \in DOMAIN c : c[k].name = f[k].name /\ c[k].oid = f[k].oid
    BY DEF Prepared
  <2>3. Len(c) \in Nat /\ DOMAIN c = 1..Len(c)
    <3> DEFINE C == [name : Names, oid : Oids, nullable : {"yes", "no", "unsaid"}]
    <3>1. c \in Seq(C)
      BY <1>6, PreparedTyped DEF CacheEntries
    <3> HIDE DEF C, c
    <3> QED BY <3>1
  <2> HIDE DEF f, c
  <2>4. Len(c) = Len(f)
    BY <2>1, <2>2, <2>3
  <2> QED BY <2>2, <2>4 DEF ColumnsMatch, f, c
<1> QED BY <1>5, <1>7, <1>8 DEF Readable, Stale

\* Whatever compilers and prepare do at the same time, whatever fails or dies, and however the
\* schema changes: a file of .resolute says what one database said of its query, code is
\* generated from that, a build reads again what the one before it wrote, and check finds
\* nothing stale after prepare.
THEOREM FilesCanBeTrusted == MetadataSpec => []MetadataKept
<1>1. MetadataInv => Repeatable
  BY DEF MetadataInv, Owned, Kept, Repeatable
<1>2. MetadataInv => MetadataKept
  BY <1>1, CodeIsHonest, PreparedIsFresh DEF MetadataKept, MetadataInv
<1> QED BY <1>2, MetadataStarts, MetadataSteps, PTL DEF MetadataSpec

-----------------------------------------------------------------------------
(* Induction, for a set of numbers, and what it says of a sequence of sequences. *)

LEMMA LeastOf == ASSUME NEW T \in SUBSET Nat, T # {} PROVE \E n \in T : \A m \in T : ~(m < n)
<1> DEFINE R == OpToRel(<, Nat)
<1>1. \A x, y \in Nat : x < y => <<x, y>> \in R
  BY DEF OpToRel
<1>2. IsWellFoundedOn(R, Nat)
  BY NatLessThanWellFounded
<1> HIDE DEF R
<1>3. \E x \in T : \A y \in T : ~(<<y, x>> \in R)
  BY <1>2, WFMin
<1> QED BY <1>1, <1>3

\* Induction for a set of numbers.
LEMMA AllNumbers ==
  ASSUME NEW S \in SUBSET Nat, 0 \in S, \A n \in S : n + 1 \in S
  PROVE  S = Nat
<1> SUFFICES ASSUME Nat \ S # {} PROVE FALSE
  OBVIOUS
<1>1. PICK n \in Nat \ S : \A m \in Nat \ S : ~(m < n)
  BY LeastOf
<1>2. n - 1 \in Nat /\ n - 1 < n /\ (n - 1) + 1 = n
  BY <1>1
<1>3. n - 1 \in S
  BY <1>1, <1>2
<1> QED BY <1>1, <1>2, <1>3

\* What is defined from the one before it is there for all.
Repeats(T, base, F, N) ==
  \E g \in [0..N -> T] : g[0] = base /\ \A i \in 1..N : g[i] = F[i][g[i - 1]]
LEMMA Recursion ==
  ASSUME NEW T, NEW base \in T, NEW F \in [Nat -> [T -> T]], NEW N \in Nat
  PROVE  Repeats(T, base, F, N)
<1> DEFINE Is(g, k) == g \in [0..k -> T] /\ g[0] = base /\ \A i \in 1..k : g[i] = F[i][g[i - 1]]
           S == {k \in Nat : \E g : Is(g, k)}
<1>1. 0 \in S
  <2> DEFINE g == [i \in 0..0 |-> base]
  <2>1. Is(g, 0)
    OBVIOUS
  <2> QED BY <2>1
<1>2. ASSUME NEW k \in S PROVE k + 1 \in S
  <2>1. k \in Nat
    OBVIOUS
  <2>2. PICK g : Is(g, k)
    OBVIOUS
  <2> DEFINE h == [i \in 0..(k + 1) |-> IF i <= k THEN g[i] ELSE F[k + 1][g[k]]]
  <2>3. g[k] \in T /\ F[k + 1][g[k]] \in T
    BY <2>1, <2>2
  <2>4. h \in [0..(k + 1) -> T] /\ h[0] = base
    BY <2>1, <2>2, <2>3
  <2>5. ASSUME NEW i \in 1..(k + 1) PROVE h[i] = F[i][h[i - 1]]
    <3>1. CASE i <= k
      BY <2>1, <2>2, <3>1
    <3>2. CASE ~(i <= k)
      <4>1. i = k + 1 /\ i - 1 = k /\ k \in 0..(k + 1) /\ k + 1 \in 0..(k + 1)
        BY <2>1, <3>2
      <4> QED BY <2>1, <4>1
    <3> QED BY <3>1, <3>2
  <2>6. Is(h, k + 1)
    BY <2>4, <2>5
  <2>7. \E x : Is(x, k + 1)
    <3> HIDE DEF Is, h
    <3> QED BY <2>6
  <2> QED BY <2>1, <2>7
<1>3. S = Nat
  <2>1. S \in SUBSET Nat
    OBVIOUS
  <2> HIDE DEF S
  <2> QED BY <1>1, <1>2, <2>1, AllNumbers
<1> QED BY <1>3 DEF Repeats

LEMMA EmptyIs == ASSUME NEW S, NEW s \in Seq(S), Len(s) = 0 PROVE s = <<>>
  OBVIOUS

\* FlattenSeq, one after the other.
LEMMA Flattened ==
  ASSUME NEW U, NEW ss \in Seq(Seq(U)), NEW N \in Nat, N = Len(ss)
  PROVE  \E g \in [0..N -> Seq(U)] :
           /\ g[0] = <<>> /\ \A i \in 1..N : g[i] = g[i - 1] \o ss[i]
           /\ FlattenSeq(ss) = g[N]
<1> DEFINE T == Seq(U)
           F == [i \in Nat |-> [x \in T |-> x \o (IF i \in 1..N THEN ss[i] ELSE <<>>)]]
<1>1. \A i \in 1..N : ss[i] \in Seq(U)
  OBVIOUS
<1>2. <<>> \in T
  OBVIOUS
<1>3. F \in [Nat -> [T -> T]]
  <2> SUFFICES ASSUME NEW i \in Nat, NEW x \in T PROVE x \o (IF i \in 1..N THEN ss[i] ELSE <<>>) \in T
    OBVIOUS
  <2>1. (IF i \in 1..N THEN ss[i] ELSE <<>>) \in Seq(U)
    BY <1>1
  <2> QED BY <2>1
<1>4. \E g \in [0..N -> T] : g[0] = <<>> /\ \A i \in 1..N : g[i] = F[i][g[i - 1]]
  <2> DEFINE base == <<>>
  <2>1. base \in T
    BY <1>2
  <2> HIDE DEF T, F, base
  <2>2. \E g \in [0..N -> T] : g[0] = base /\ \A i \in 1..N : g[i] = F[i][g[i - 1]]
    <3>1. Repeats(T, base, F, N)
      BY <1>3, <2>1, Recursion
    <3> QED BY <3>1 DEF Repeats
  <2> QED BY <2>2 DEF base
<1>5. PICK g \in [0..N -> T] : g[0] = <<>> /\ \A i \in 1..N : g[i] = F[i][g[i - 1]]
  BY <1>4
<1>6. \A i \in 1..N : g[i] = g[i - 1] \o ss[i]
  <2> SUFFICES ASSUME NEW i \in 1..N PROVE g[i] = g[i - 1] \o ss[i]
    OBVIOUS
  <2>1. g[i - 1] \in T /\ i \in Nat
    <3>1. i - 1 \in 0..N /\ i \in Nat
      OBVIOUS
    <3> HIDE DEF T, F
    <3> QED BY <1>5, <3>1
  <2> QED BY <1>5, <2>1
<1> HIDE DEF F
<1> DEFINE f == CHOOSE f : f = [i \in 1..Len(ss) |-> IF i = 1 THEN ss[i] ELSE f[i - 1] \o ss[i]]
<1>7. CASE N = 0
  <2>1. ss = <<>>
    BY <1>7, EmptyIs
  <2>2. FlattenSeq(ss) = <<>>
    BY <1>7, <2>1 DEF FlattenSeq
  <2> QED BY <1>5, <1>6, <1>7, <2>2
<1>8. CASE N # 0
  <2> DEFINE h == [i \in 1..Len(ss) |-> g[i]]
  <2>1. h = [i \in 1..Len(ss) |-> IF i = 1 THEN ss[i] ELSE h[i - 1] \o ss[i]]
    <3> SUFFICES ASSUME NEW i \in 1..N PROVE g[i] = IF i = 1 THEN ss[i] ELSE h[i - 1] \o ss[i]
      BY Z3
    <3>1. CASE i = 1
      <4>1. g[1] = g[0] \o ss[1] /\ g[0] = <<>> /\ ss[1] \in Seq(U)
        <5>1. 1 \in 1..N /\ 1 - 1 = 0
          BY <3>1
        <5> HIDE DEF T
        <5> QED BY <1>1, <1>5, <1>6, <5>1
      <4> QED BY <3>1, <4>1, ConcatEmptySeq
    <3>2. CASE i # 1
      <4>1. i - 1 \in 1..N
        BY <3>2
      <4> QED BY <1>6, <3>2, <4>1
    <3> QED BY <3>1, <3>2
  <2>2. f = [i \in 1..Len(ss) |-> IF i = 1 THEN ss[i] ELSE f[i - 1] \o ss[i]]
    <3> HIDE DEF h
    <3> QED BY <2>1
  <2>3. FlattenSeq(ss) = f[N]
    BY <1>8 DEF FlattenSeq
  <2> HIDE DEF f
  <2> DEFINE S == {k \in Nat : k + 1 \in 1..N => f[k + 1] = g[k + 1]}
  <2>4. 0 \in S
    <3>1. f[1] = ss[1]
      BY <1>8, <2>2
    <3>2. g[1] = g[0] \o ss[1] /\ g[0] = <<>> /\ ss[1] \in Seq(U)
      <4>1. 1 \in 1..N /\ 1 - 1 = 0
        BY <1>8
      <4> HIDE DEF T
      <4> QED BY <1>1, <1>5, <1>6, <4>1
    <3> QED BY <3>1, <3>2, ConcatEmptySeq
  <2>5. ASSUME NEW k \in S PROVE k + 1 \in S
    <3>1. SUFFICES ASSUME k + 2 \in 1..N PROVE f[k + 2] = g[k + 2]
      OBVIOUS
    <3>2. k + 1 \in 1..N /\ f[k + 1] = g[k + 1] /\ (k + 2) - 1 = k + 1 /\ k + 2 # 1
      BY <3>1
    <3>3. f[k + 2] = f[k + 1] \o ss[k + 2]
      BY <2>2, <3>1, <3>2
    <3> QED BY <1>6, <3>1, <3>2, <3>3
  <2>6. S = Nat
    <3>1. S \in SUBSET Nat
      OBVIOUS
    <3> HIDE DEF S
    <3> QED BY <2>4, <2>5, <3>1, AllNumbers
  <2>7. f[N] = g[N]
    <3>1. N - 1 \in Nat /\ (N - 1) + 1 = N /\ N \in 1..N
      BY <1>8
    <3>2. N - 1 \in S
      BY <2>6, <3>1
    <3> QED BY <3>1, <3>2
  <2> QED BY <1>5, <1>6, <2>3, <2>7
<1> QED BY <1>7, <1>8

\* What FlattenSeq has after each of its steps.
Grows(U, ss, g) ==
  /\ g \in [0..Len(ss) -> Seq(U)] /\ g[0] = <<>>
  /\ \A i \in 1..Len(ss) : g[i] = g[i - 1] \o ss[i]

LEMMA Grown ==
  ASSUME NEW U, NEW ss \in Seq(Seq(U))
  PROVE  \E g : Grows(U, ss, g) /\ FlattenSeq(ss) = g[Len(ss)]
<1>1. Len(ss) \in Nat
  OBVIOUS
<1> DEFINE N == Len(ss)
<1>2. PICK g \in [0..N -> Seq(U)] :
        g[0] = <<>> /\ (\A i \in 1..N : g[i] = g[i - 1] \o ss[i]) /\ FlattenSeq(ss) = g[N]
  <2>1. N = Len(ss) /\ N \in Nat
    BY <1>1
  <2> HIDE DEF N
  <2> QED BY ONLY <2>1, ss \in Seq(Seq(U)), Flattened, ZenonT(40)
<1>3. Grows(U, ss, g)
  BY <1>2 DEF Grows
<1> QED BY <1>2, <1>3

\* One step: the index is in place, and what is added follows what is there.
GrowsAt(U, ss, g, i) ==
  /\ i - 1 \in 0..Len(ss) /\ i \in 0..Len(ss) /\ g[i - 1] \in Seq(U) /\ g[i] \in Seq(U) /\ ss[i] \in Seq(U)
  /\ Len(g[i]) = Len(g[i - 1]) + Len(ss[i])
  /\ \A k \in 1..Len(g[i - 1]) : g[i][k] = g[i - 1][k]
  /\ \A k \in 1..Len(ss[i]) : g[i][Len(g[i - 1]) + k] = ss[i][k]

LEMMA GrowsBy ==
  ASSUME NEW U, NEW ss \in Seq(Seq(U)), NEW g, Grows(U, ss, g), NEW i \in 1..Len(ss)
  PROVE  GrowsAt(U, ss, g, i)
<1>1. i - 1 \in 0..Len(ss) /\ i \in 0..Len(ss) /\ ss[i] \in Seq(U)
  OBVIOUS
<1>2. g[i - 1] \in Seq(U) /\ g[i] \in Seq(U) /\ g[i] = g[i - 1] \o ss[i]
  BY <1>1 DEF Grows
<1> DEFINE a == g[i - 1]
           b == ss[i]
<1>3. a \in Seq(U) /\ b \in Seq(U) /\ g[i] = a \o b
  BY <1>1, <1>2
<1> HIDE DEF a, b
<1>4. /\ Len(a \o b) = Len(a) + Len(b) /\ Len(a) \in Nat /\ Len(b) \in Nat
      /\ \A k \in 1..(Len(a) + Len(b)) : (a \o b)[k] = IF k <= Len(a) THEN a[k] ELSE b[k - Len(a)]
  BY <1>3, ConcatProperties
<1>5. \A k \in 1..Len(a) : (a \o b)[k] = a[k]
  BY <1>4
<1>6. ASSUME NEW k \in 1..Len(b) PROVE (a \o b)[Len(a) + k] = b[k]
  <2>1. Len(a) + k \in 1..(Len(a) + Len(b)) /\ ~(Len(a) + k <= Len(a)) /\ (Len(a) + k) - Len(a) = k
    BY <1>4
  <2> QED BY <1>4, <2>1
<1> QED BY <1>1, <1>2, <1>3, <1>4, <1>5, <1>6 DEF a, b, GrowsAt

\* What is there is still there at the end.
StaysAt(U, ss, g, i) ==
  /\ g[i] \in Seq(U) /\ g[Len(ss)] \in Seq(U) /\ Len(g[i]) <= Len(g[Len(ss)])
  /\ \A k \in 1..Len(g[i]) : g[Len(ss)][k] = g[i][k]

LEMMA SumOver == ASSUME NEW a \in Nat, NEW b \in Nat, NEW c \in Nat, NEW d, a <= b, d = b + c PROVE a <= d
  OBVIOUS

LEMMA GrowsOn ==
  ASSUME NEW U, NEW ss \in Seq(Seq(U)), NEW g, Grows(U, ss, g), NEW i \in 0..Len(ss)
  PROVE  StaysAt(U, ss, g, i)
<1> DEFINE Still(d) == i + d <= Len(ss) =>
                        Len(g[i]) <= Len(g[i + d]) /\ \A k \in 1..Len(g[i]) : g[i + d][k] = g[i][k]
           S == {d \in Nat : Still(d)}
<1>1. /\ Len(ss) \in Nat /\ i \in Nat /\ i <= Len(ss)
      /\ \A j \in 0..Len(ss) : g[j] \in Seq(U) /\ Len(g[j]) \in Nat
  <2>1. Len(ss) \in Nat /\ i \in Nat /\ i <= Len(ss)
    OBVIOUS
  <2>2. ASSUME NEW j \in 0..Len(ss) PROVE g[j] \in Seq(U) /\ Len(g[j]) \in Nat
    <3>1. g[j] \in Seq(U)
      BY DEF Grows
    <3> QED BY <3>1
  <2> QED BY <2>1, <2>2
<1>2. 0 \in S
  BY <1>1
<1>3. ASSUME NEW d \in S PROVE d + 1 \in S
  <2>1. SUFFICES ASSUME i + (d + 1) <= Len(ss) PROVE Still(d + 1)
    OBVIOUS
  <2>2. d \in Nat /\ i + d <= Len(ss) /\ i + (d + 1) \in 1..Len(ss) /\ (i + (d + 1)) - 1 = i + d /\ i + d \in 0..Len(ss)
    BY <1>1, <2>1
  <2>3. Len(g[i]) <= Len(g[i + d]) /\ \A k \in 1..Len(g[i]) : g[i + d][k] = g[i][k]
    BY <2>2
  <2> DEFINE j == i + (d + 1)
  <2>9. j \in 1..Len(ss)
    BY <2>2
  <2>5. j - 1 = i + d
    BY <2>2
  <2> HIDE DEF j
  <2>4. /\ Len(g[j]) = Len(g[j - 1]) + Len(ss[j]) /\ ss[j] \in Seq(U)
        /\ \A k \in 1..Len(g[j - 1]) : g[j][k] = g[j - 1][k]
    <3>1. GrowsAt(U, ss, g, j)
      BY <2>9, GrowsBy
    <3> QED BY <3>1 DEF GrowsAt
  <2>6. Len(ss[j]) \in Nat /\ Len(g[i]) \in Nat /\ Len(g[i + d]) \in Nat
    BY <1>1, <2>2, <2>4
  <2>7. Len(g[i]) <= Len(g[j]) /\ \A k \in 1..Len(g[i]) : g[j][k] = g[i][k]
    <3>1. Len(g[j]) = Len(g[i + d]) + Len(ss[j]) /\ \A k \in 1..Len(g[i + d]) : g[j][k] = g[i + d][k]
      BY <2>4, <2>5
    <3>2. Len(g[i]) <= Len(g[j])
      <4>1. Len(g[i]) <= Len(g[i + d]) /\ Len(g[j]) = Len(g[i + d]) + Len(ss[j])
        BY <2>3, <3>1
      <4> QED BY <2>6, <4>1, SumOver
    <3>3. ASSUME NEW k \in 1..Len(g[i]) PROVE g[j][k] = g[i][k]
      <4>1. k \in 1..Len(g[i + d])
        BY <2>3, <2>6
      <4> QED BY <2>3, <3>1, <4>1
    <3> QED BY <3>2, <3>3
  <2> QED BY <2>7 DEF j
<1>4. S = Nat
  <2>1. S \in SUBSET Nat
    OBVIOUS
  <2> HIDE DEF S
  <2> QED BY <1>2, <1>3, <2>1, AllNumbers
<1>5. Len(ss) - i \in Nat /\ i + (Len(ss) - i) = Len(ss) /\ Len(ss) \in 0..Len(ss)
  BY <1>1
<1>6. Still(Len(ss) - i)
  <2> HIDE DEF Still
  <2> QED BY <1>4, <1>5
<1>7. StaysAt(U, ss, g, i)
  <2> DEFINE d == Len(ss) - i
             m == Len(ss)
  <2>1. i + d = m /\ m <= m
    BY <1>1, <1>5
  <2>2. i + d <= m => Len(g[i]) <= Len(g[i + d]) /\ \A k \in 1..Len(g[i]) : g[i + d][k] = g[i][k]
    BY <1>6
  <2>3. g[i] \in Seq(U) /\ g[m] \in Seq(U)
    BY <1>1, <1>5
  <2> HIDE DEF d, m
  <2>4. Len(g[i]) <= Len(g[m]) /\ \A k \in 1..Len(g[i]) : g[m][k] = g[i][k]
    BY ONLY <2>1, <2>2
  <2> QED BY <2>3, <2>4 DEF m, StaysAt
<1> QED BY <1>7

-----------------------------------------------------------------------------
(* Rows.                                                                   *)

RowStates == [ok : BOOLEAN, at : Nat \ {0}, has : Seq(Int \X Int)]
RowFirst  == [ok |-> TRUE, at |-> 2, has |-> <<>>]
RowNext(b, st) == IF st.ok THEN ReadCellEntry(b, st) ELSE st

LEMMA PastCell ==
  ASSUME NEW at \in Nat, at >= 1, NEW len \in Int, len >= 0
  PROVE  at + 1 + len \in Nat /\ at + 1 + len >= 1 /\ at + 1 \in Int
  OBVIOUS

LEMMA RowNextTyped ==
  ASSUME NEW b \in Seq(Int), NEW st \in RowStates
  PROVE  RowNext(b, st) \in RowStates
<1>1. st.ok \in BOOLEAN /\ st.at \in Nat /\ st.at >= 1 /\ st.has \in Seq(Int \X Int) /\ Len(b) \in Nat
  BY DEF RowStates
<1>2. CASE st.at > Len(b) \/ ~st.ok
  <2>1. Stop(st) \in RowStates
    BY DEF Stop, RowStates
  <2> QED BY <1>2, <2>1 DEF RowNext, ReadCellEntry
<1>3. CASE ~(st.at > Len(b)) /\ st.ok
  <2> DEFINE len == b[st.at]
             end == st.at + 1 + len
  <2>1. len \in Int
    BY <1>1, <1>3
  <2>2. ASSUME NEW at \in Nat, at >= 1, NEW cell \in Int \X Int
        PROVE  [ok |-> TRUE, at |-> at, has |-> Append(st.has, cell)] \in RowStates
    <3>1. Append(st.has, cell) \in Seq(Int \X Int)
      BY <1>1, <2>2, AppendProperties
    <3> QED BY <2>2, <3>1 DEF RowStates
  <2>3. Stop(st) \in RowStates
    BY DEF Stop, RowStates
  <2>4. CASE len = -1
    <3>1. st.at + 1 \in Nat /\ st.at + 1 >= 1 /\ <<0, -1>> \in Int \X Int
      BY <1>1
    <3>2. RowNext(b, st) = [ok |-> TRUE, at |-> st.at + 1, has |-> Append(st.has, <<0, -1>>)]
      BY <1>3, <2>4 DEF RowNext, ReadCellEntry
    <3> QED BY <2>2, <3>1, <3>2
  <2>5. CASE len # -1 /\ (len < 0 \/ end - 1 > Len(b))
    <3>1. RowNext(b, st) = Stop(st)
      BY <1>3, <2>5 DEF RowNext, ReadCellEntry
    <3> QED BY <2>3, <3>1
  <2>6. CASE len # -1 /\ ~(len < 0 \/ end - 1 > Len(b))
    <3>1. end \in Nat /\ end >= 1 /\ <<st.at + 1, len>> \in Int \X Int
      <4>1. st.at \in Nat /\ st.at >= 1 /\ len \in Int /\ len >= 0
        <5> HIDE DEF len
        <5> QED BY <1>1, <2>1, <2>6
      <4> HIDE DEF len
      <4>2. end \in Nat /\ end >= 1 /\ st.at + 1 \in Int
        BY <4>1, PastCell
      <4> QED BY <4>1, <4>2
    <3>2. RowNext(b, st) = [ok |-> TRUE, at |-> end, has |-> Append(st.has, <<st.at + 1, len>>)]
      BY <1>3, <2>6 DEF RowNext, ReadCellEntry
    <3> QED BY <2>2, <3>1, <3>2
  <2> QED BY <2>4, <2>5, <2>6
<1> QED BY <1>2, <1>3

\* What the loop over the cells has after each of its steps.
RowReads(b, n, f) == f \in [0..n -> RowStates] /\ f[0] = RowFirst /\ \A i \in 1..n : f[i] = RowNext(b, f[i - 1])

LEMMA RowLoop ==
  ASSUME NEW b \in Seq(Int), NEW n \in Nat
  PROVE  \E f : RowReads(b, n, f) /\ Loop(n, LAMBDA st : ReadCellEntry(b, st), 2) = f[n]
<1> DEFINE T == RowStates
           F == [i \in Nat |-> [x \in T |-> RowNext(b, x)]]
           base == RowFirst
<1>1. F \in [Nat -> [T -> T]]
  BY RowNextTyped
<1>2. base \in T
  BY DEF RowFirst, RowStates
<1>3. PICK f \in [0..n -> T] : f[0] = base /\ \A i \in 1..n : f[i] = F[i][f[i - 1]]
  <2> HIDE DEF T, F, base
  <2>1. Repeats(T, base, F, n)
    BY <1>1, <1>2, Recursion
  <2> QED BY <2>1 DEF Repeats
<1>4. \A i \in 1..n : f[i] = RowNext(b, f[i - 1])
  <2> SUFFICES ASSUME NEW i \in 1..n PROVE f[i] = RowNext(b, f[i - 1])
    OBVIOUS
  <2>1. f[i - 1] \in T /\ i \in Nat
    <3>1. i - 1 \in 0..n /\ i \in Nat
      OBVIOUS
    <3> HIDE DEF T
    <3> QED BY <1>3, <3>1
  <2> HIDE DEF T
  <2> QED BY <1>3, <2>1
<1>5. RowReads(b, n, f)
  BY <1>3, <1>4 DEF RowReads
<1> HIDE DEF F
<1> DEFINE st == CHOOSE st : st = [i \in 0..n |-> IF i = 0 THEN RowFirst
                                ELSE IF st[i - 1].ok THEN ReadCellEntry(b, st[i - 1]) ELSE st[i - 1]]
<1>6. f = [i \in 0..n |-> IF i = 0 THEN RowFirst ELSE IF f[i - 1].ok THEN ReadCellEntry(b, f[i - 1]) ELSE f[i - 1]]
  <2>1. \A i \in 0..n : f[i] = IF i = 0 THEN RowFirst
                                ELSE IF f[i - 1].ok THEN ReadCellEntry(b, f[i - 1]) ELSE f[i - 1]
    <3> SUFFICES ASSUME NEW i \in 0..n
                 PROVE f[i] = IF i = 0 THEN RowFirst
                                ELSE IF f[i - 1].ok THEN ReadCellEntry(b, f[i - 1]) ELSE f[i - 1]
      OBVIOUS
    <3>1. i # 0 => i \in 1..n
      OBVIOUS
    <3> QED BY <1>3, <1>4, <3>1 DEF RowNext
  <2> QED BY <1>3, <2>1
<1>7. st = [i \in 0..n |-> IF i = 0 THEN RowFirst ELSE IF st[i - 1].ok THEN ReadCellEntry(b, st[i - 1]) ELSE st[i - 1]]
  BY <1>6
<1>8. Loop(n, LAMBDA x : ReadCellEntry(b, x), 2) = IF n < 1 THEN RowFirst ELSE st[n]
  BY DEF Loop, RowFirst
<1> HIDE DEF st
<1> DEFINE S == {k \in Nat : k \in 0..n => st[k] = f[k]}
<1>9. 0 \in S
  BY <1>3, <1>7
<1>10. ASSUME NEW k \in S PROVE k + 1 \in S
  <2>1. SUFFICES ASSUME k + 1 \in 0..n PROVE st[k + 1] = f[k + 1]
    OBVIOUS
  <2>2. k \in 0..n /\ k + 1 # 0 /\ (k + 1) - 1 = k /\ k + 1 \in 1..n
    BY <2>1
  <2>3. st[k] = f[k]
    BY <2>2
  <2>4. st[k + 1] = RowNext(b, st[k])
    BY <1>7, <2>1, <2>2 DEF RowNext
  <2> QED BY <1>4, <2>2, <2>3, <2>4
<1>11. S = Nat
  <2>1. S \in SUBSET Nat
    OBVIOUS
  <2> HIDE DEF S
  <2> QED BY <1>9, <1>10, <2>1, AllNumbers
<1>12. st[n] = f[n]
  BY <1>11
<1>13. Loop(n, LAMBDA x : ReadCellEntry(b, x), 2) = f[n]
  BY <1>3, <1>8, <1>12
<1> QED BY <1>5, <1>13
LEMMA SeqIs == ASSUME NEW T, NEW n \in Nat, NEW f \in [1..n -> T] PROVE f \in Seq(T)
  OBVIOUS

LEMMA OneMore ==
  ASSUME NEW T, NEW s \in Seq(T), NEW c \in T
  PROVE  /\ Len(Append(s, c)) = Len(s) + 1 /\ Len(s) \in Nat
         /\ \A j \in 1..(Len(s) + 1) : Append(s, c)[j] = IF j <= Len(s) THEN s[j] ELSE c
<1>1. Len(Append(s, c)) = Len(s) + 1 /\ Len(s) \in Nat
  OBVIOUS
<1>2. ASSUME NEW j \in 1..(Len(s) + 1) PROVE Append(s, c)[j] = IF j <= Len(s) THEN s[j] ELSE c
  BY <1>1
<1> QED BY <1>1, <1>2

\* A cell is NULL, or lies within the body.
CellInside(b, c) == c[2] = -1 \/ (c[1] >= 1 /\ c[2] >= 0 /\ c[1] + c[2] - 1 <= Len(b))
RowInside(b, st) == \A j \in 1..Len(st.has) : CellInside(b, st.has[j])

LEMMA RowNextInside ==
  ASSUME NEW b \in Seq(Int), NEW st \in RowStates, RowInside(b, st)
  PROVE  RowInside(b, RowNext(b, st)) /\ (RowNext(b, st).ok => st.ok /\ Len(RowNext(b, st).has) = Len(st.has) + 1)
<1>1. st.ok \in BOOLEAN /\ st.at \in Nat /\ st.at >= 1 /\ st.has \in Seq(Int \X Int) /\ Len(b) \in Nat
  BY DEF RowStates
<1>2. ASSUME RowNext(b, st) = Stop(st) \/ (~st.ok /\ RowNext(b, st) = st)
      PROVE  RowInside(b, RowNext(b, st)) /\ ~RowNext(b, st).ok
  <2>1. Stop(st).has = st.has /\ Stop(st).ok = FALSE
    BY DEF Stop, RowStates
  <2> QED BY <1>2, <2>1 DEF RowInside
<1>3. ASSUME NEW at, NEW cell \in Int \X Int, CellInside(b, cell),
             RowNext(b, st) = [ok |-> TRUE, at |-> at, has |-> Append(st.has, cell)]
      PROVE  RowInside(b, RowNext(b, st)) /\ Len(RowNext(b, st).has) = Len(st.has) + 1
  <2>1. RowNext(b, st).has = Append(st.has, cell)
    BY <1>3
  <2> DEFINE h == Append(st.has, cell)
  <2>2. /\ Len(h) = Len(st.has) + 1 /\ Len(st.has) \in Nat
        /\ \A j \in 1..(Len(st.has) + 1) : h[j] = IF j <= Len(st.has) THEN st.has[j] ELSE cell
    BY <1>1, <1>3, OneMore
  <2> HIDE DEF h
  <2>3. ASSUME NEW j \in 1..Len(h) PROVE CellInside(b, h[j])
    <3>1. CASE j <= Len(st.has)
      <4>1. j \in 1..Len(st.has)
        BY <2>2, <3>1
      <4> QED BY <2>2, <2>3, <3>1, <4>1 DEF RowInside
    <3>2. CASE ~(j <= Len(st.has))
      BY <1>3, <2>2, <3>2
    <3> QED BY <3>1, <3>2
  <2> QED BY <2>1, <2>2, <2>3 DEF RowInside, h
<1>4. CASE ~st.ok
  BY <1>1, <1>2, <1>4 DEF RowNext
<1>5. CASE st.ok /\ st.at > Len(b)
  BY <1>2, <1>5 DEF RowNext, ReadCellEntry
<1>6. CASE st.ok /\ ~(st.at > Len(b))
  <2> DEFINE len == b[st.at]
             end == st.at + 1 + len
  <2>1. len \in Int
    BY <1>1, <1>6
  <2>4. CASE len = -1
    <3>1. <<0, -1>> \in Int \X Int /\ CellInside(b, <<0, -1>>)
      BY DEF CellInside
    <3>2. RowNext(b, st) = [ok |-> TRUE, at |-> st.at + 1, has |-> Append(st.has, <<0, -1>>)]
      BY <1>6, <2>4 DEF RowNext, ReadCellEntry
    <3> QED BY <1>3, <1>6, <3>1, <3>2
  <2>5. CASE len # -1 /\ (len < 0 \/ end - 1 > Len(b))
    <3>1. RowNext(b, st) = Stop(st)
      BY <1>6, <2>5 DEF RowNext, ReadCellEntry
    <3> QED BY <1>2, <3>1
  <2>6. CASE len # -1 /\ ~(len < 0 \/ end - 1 > Len(b))
    <3>1. <<st.at + 1, len>> \in Int \X Int /\ CellInside(b, <<st.at + 1, len>>)
      <4>1. st.at + 1 \in Int /\ st.at + 1 >= 1
        BY <1>1
      <4>2. len >= 0 /\ (st.at + 1) + len - 1 <= Len(b)
        <5> HIDE DEF len
        <5> QED BY <1>1, <2>1, <2>6
      <4> HIDE DEF len
      <4> QED BY <2>1, <4>1, <4>2 DEF CellInside
    <3>2. RowNext(b, st) = [ok |-> TRUE, at |-> end, has |-> Append(st.has, <<st.at + 1, len>>)]
      BY <1>6, <2>6 DEF RowNext, ReadCellEntry
    <3> QED BY <1>3, <1>6, <3>1, <3>2
  <2> QED BY <2>4, <2>5, <2>6
<1> QED BY <1>1, <1>4, <1>5, <1>6

\* What is kept of the cells is what was found.
LEMMA EntriesKept ==
  ASSUME NEW b \in Seq(Int), NEW cells \in Seq(Int \X Int)
  PROVE  LET row == FromEntries(b, cells)
         IN row.body = b /\ row.len = Len(cells) /\ Entries(row) = cells
<1> DEFINE row  == FromEntries(b, cells)
           rest == [i \in 1..(InlineCap - Len(cells)) |-> <<0, 0>>]
<1>1. row.body = b /\ row.len = Len(cells) /\ row.data = IF Len(cells) <= InlineCap THEN cells \o rest ELSE cells
  BY DEF FromEntries
<1>2. Len(cells) \in Nat /\ SubSeq(cells, 1, Len(cells)) = cells
  BY SubSeqFull
<1>3. CASE ~(Len(cells) <= InlineCap)
  BY <1>1, <1>2, <1>3 DEF Entries
<1>4. CASE Len(cells) <= InlineCap
  <2>1. rest \in Seq(Int \X Int)
    <3> DEFINE more == InlineCap - Len(cells)
    <3>1. more \in Nat
      BY <1>2, <1>4, InlineCapAssumption
    <3> HIDE DEF more
    <3>2. [i \in 1..more |-> <<0, 0>>] \in [1..more -> Int \X Int]
      OBVIOUS
    <3> DEFINE e == [i \in 1..more |-> <<0, 0>>]
    <3>4. e \in [1..more -> Int \X Int]
      BY <3>2
    <3>3. e \in Seq(Int \X Int)
      <4> HIDE DEF e
      <4> QED BY ONLY <3>1, <3>4, SeqIs
    <3> QED BY <3>3 DEF more
  <2> HIDE DEF rest
  <2>2. SubSeq(cells \o rest, 1, Len(cells)) = cells
    BY <1>2, <2>1
  <2> QED BY <1>1, <1>4, <2>2 DEF Entries
<1> QED BY <1>1, <1>3, <1>4

\* The cell that try_cell finds at an entry.
CellBody(b, c) == IF c[2] < 0 THEN Null ELSE SubSeq(b, c[1], c[1] + c[2] - 1)

LEMMA CellsOf ==
  ASSUME NEW b \in Seq(Int), NEW cells \in Seq(Int \X Int)
  PROVE  RowCells(FromEntries(b, cells)) = [i \in 1..Len(cells) |-> CellBody(b, cells[i])]
<1> DEFINE row == FromEntries(b, cells)
<1>1. row.body = b /\ row.len = Len(cells) /\ Entries(row) = cells /\ Len(cells) \in Nat
  BY EntriesKept
<1> HIDE DEF row
<1>2. ASSUME NEW i \in 1..Len(cells) PROVE TryCell(row, i)[1] = CellBody(b, cells[i])
  <2>1. i \in DOMAIN Entries(row) /\ Entries(row)[i] = cells[i]
    BY <1>1
  <2>2. TryCell(row, i) = IF cells[i][2] < 0 THEN <<Null>>
                          ELSE <<SubSeq(b, cells[i][1], cells[i][1] + cells[i][2] - 1)>>
    BY <1>1, <2>1 DEF TryCell
  <2> QED BY <2>2 DEF CellBody
<1>3. RowCells(row) = [i \in 1..Len(cells) |-> CellBody(b, cells[i])]
  BY <1>1, <1>2 DEF RowCells
<1> QED BY <1>3 DEF row

LEMMA RowParsed ==
  ASSUME NEW b \in Seq(Int), b # <<>>, b[1] >= 0
  PROVE  \E f : /\ RowReads(b, b[1], f)
                /\ ParseDataRow(b) = IF f[b[1]].ok THEN <<<<"D", FromEntries(b, f[b[1]].has)>>>> ELSE None
<1> DEFINE n  == b[1]
           st == Loop(n, LAMBDA x : ReadCellEntry(b, x), 2)
<1>1. n \in Nat
  <2>1. b[1] \in Int
    BY EmptySeq
  <2> QED BY <2>1
<1>2. PICK f : RowReads(b, n, f) /\ st = f[n]
  <2> HIDE DEF n
  <2> QED BY <1>1, RowLoop
<1>3. ParseDataRow(b) = IF st.ok THEN <<<<"D", FromEntries(b, st.has)>>>> ELSE None
  BY DEF ParseDataRow
<1> HIDE DEF st
<1> QED BY <1>2, <1>3

\* Each step finds one cell more, or nothing any more.
LEMMA RowsInside ==
  ASSUME NEW b \in Seq(Int), NEW n \in Nat, NEW f, RowReads(b, n, f)
  PROVE  \A k \in 0..n : f[k] \in RowStates /\ RowInside(b, f[k]) /\ (f[k].ok => Len(f[k].has) = k)
<1> DEFINE Good(k) == RowInside(b, f[k]) /\ (f[k].ok => Len(f[k].has) = k)
           S == {k \in Nat : k \in 0..n => Good(k)}
<1>1. \A k \in 0..n : f[k] \in RowStates
  BY DEF RowReads
<1>2. 0 \in S
  <2>1. f[0].has = <<>>
    BY DEF RowReads, RowFirst
  <2>2. Len(f[0].has) = 0
    BY <2>1
  <2>3. Good(0)
    BY <2>2 DEF RowInside
  <2> QED BY <2>3
<1>3. ASSUME NEW k \in S PROVE k + 1 \in S
  <2>1. SUFFICES ASSUME k + 1 \in 0..n PROVE Good(k + 1)
    OBVIOUS
  <2>2. k \in 0..n /\ k + 1 \in 1..n /\ (k + 1) - 1 = k
    BY <2>1
  <2>3. f[k + 1] = RowNext(b, f[k]) /\ f[k] \in RowStates
    BY <1>1, <2>2 DEF RowReads
  <2>4. Good(k)
    BY <2>2
  <2>5. /\ RowInside(b, RowNext(b, f[k]))
        /\ RowNext(b, f[k]).ok => f[k].ok /\ Len(RowNext(b, f[k]).has) = Len(f[k].has) + 1
    BY <2>3, <2>4, RowNextInside
  <2> QED BY <2>3, <2>4, <2>5
<1>4. S = Nat
  <2>1. S \in SUBSET Nat
    OBVIOUS
  <2> HIDE DEF S
  <2> QED BY <1>2, <1>3, <2>1, AllNumbers
<1>5. \A k \in 0..n : Good(k)
  <2> HIDE DEF Good
  <2>1. \A k \in 0..n : k \in Nat
    OBVIOUS
  <2> QED BY <1>4, <2>1
<1> QED BY <1>1, <1>5

\* parse_data_row and try_cell (backend.rs): whatever bytes a data row has, it is refused, or it has as
\* many cells as it says, each of them NULL or bytes that lie within the body.
THEOREM RowsStayInside ==
  \A b \in Seq(Int) :
    \/ ParseDataRow(b) = None
    \/ \E row : /\ ParseDataRow(b) = <<<<"D", row>>>> /\ row.body = b /\ row.len = b[1]
               /\ \A i \in 1..row.len : CellInside(b, Entries(row)[i])
               /\ RowCells(row) \in [1..row.len -> Seq(Int) \cup {Null}]
<1> SUFFICES ASSUME NEW b \in Seq(Int), ParseDataRow(b) # None
             PROVE \E row : /\ ParseDataRow(b) = <<<<"D", row>>>> /\ row.body = b /\ row.len = b[1]
                           /\ \A i \in 1..row.len : CellInside(b, Entries(row)[i])
                           /\ RowCells(row) \in [1..row.len -> Seq(Int) \cup {Null}]
  OBVIOUS
<1> DEFINE n == b[1]
<1>1. b # <<>> /\ ~(b[1] < 0)
  BY DEF ParseDataRow
<1>2. n \in Nat /\ b[1] >= 0
  <2>1. b[1] \in Int
    BY <1>1, EmptySeq
  <2> QED BY <1>1, <2>1
<1>3. PICK f : /\ RowReads(b, n, f)
               /\ ParseDataRow(b) = IF f[n].ok THEN <<<<"D", FromEntries(b, f[n].has)>>>> ELSE None
  BY <1>1, <1>2, RowParsed
<1> DEFINE cells == f[n].has
           row   == FromEntries(b, cells)
<1>4. f[n].ok /\ ParseDataRow(b) = <<<<"D", row>>>>
  BY <1>3
<1>5. f[n] \in RowStates /\ RowInside(b, f[n]) /\ Len(cells) = n
  <2>1. n \in 0..n
    BY <1>2
  <2> QED BY <1>2, <1>3, <1>4, <2>1, RowsInside
<1>6. cells \in Seq(Int \X Int)
  BY <1>5 DEF RowStates
<1>7. \A i \in 1..n : CellInside(b, cells[i])
  BY <1>5 DEF RowInside
<1> HIDE DEF cells
<1>8. row.body = b /\ row.len = n /\ Entries(row) = cells
  BY <1>5, <1>6, EntriesKept
<1>9. RowCells(row) = [i \in 1..n |-> CellBody(b, cells[i])]
  BY <1>5, <1>6, CellsOf
<1>10. ASSUME NEW i \in 1..n PROVE CellBody(b, cells[i]) \in Seq(Int) \cup {Null}
  <2>1. cells[i][1] \in Int /\ cells[i][2] \in Int
    BY <1>5, <1>6
  <2> DEFINE c == cells[i]
  <2>2. c[1] \in Int /\ c[2] \in Int /\ CellInside(b, c)
    BY <1>7, <2>1
  <2> HIDE DEF c
  <2>3. CASE c[2] < 0
    BY <2>3 DEF CellBody, c
  <2>4. CASE ~(c[2] < 0)
    <3>1. c[1] >= 1 /\ c[1] + c[2] - 1 <= Len(b) /\ Len(b) \in Nat /\ c[1] + c[2] - 1 \in Int
      BY <2>2, <2>4 DEF CellInside
    <3>2. \A k \in c[1]..(c[1] + c[2] - 1) : b[k] \in Int
      BY <2>2, <3>1
    <3>3. SubSeq(b, c[1], c[1] + c[2] - 1) \in Seq(Int)
      BY <2>2, <3>1, <3>2, SubSeqProperties
    <3> QED BY <2>4, <3>3 DEF CellBody, c
  <2> QED BY <2>3, <2>4
<1> HIDE DEF row
<1>11. RowCells(row) \in [1..n -> Seq(Int) \cup {Null}]
  BY <1>9, <1>10
<1> QED BY <1>4, <1>7, <1>8, <1>11

\* The units of the cells, and where they are in a body.
CellUnits(cs) == [i \in DOMAIN cs |-> IF cs[i] = Null THEN <<-1>> ELSE <<Len(cs[i])>> \o cs[i]]

UnitAt(cs, u, i) ==
  \/ cs[i] = Null /\ u[i] = <<-1>> /\ Len(u[i]) = 1 /\ u[i][1] = -1
  \/ /\ cs[i] # Null /\ cs[i] \in Seq(Int) /\ Len(cs[i]) \in Nat
     /\ Len(u[i]) = Len(cs[i]) + 1 /\ u[i][1] = Len(cs[i])
     /\ \A k \in 1..Len(cs[i]) : u[i][k + 1] = cs[i][k]

LEMMA UnitsTyped ==
  ASSUME NEW cs \in Seq(Seq(Int) \cup {Null})
  PROVE  /\ CellUnits(cs) \in Seq(Seq(Int)) /\ Len(CellUnits(cs)) = Len(cs) /\ Len(cs) \in Nat
         /\ \A i \in 1..Len(cs) : UnitAt(cs, CellUnits(cs), i)
<1> DEFINE u == CellUnits(cs)
           n == Len(cs)
<1>1. n \in Nat /\ DOMAIN cs = 1..n /\ \A i \in 1..n : cs[i] \in Seq(Int) \cup {Null}
  OBVIOUS
<1>2. \A i \in 1..n : u[i] = IF cs[i] = Null THEN <<-1>> ELSE <<Len(cs[i])>> \o cs[i]
  BY <1>1 DEF CellUnits
<1>3. ASSUME NEW i \in 1..n
      PROVE u[i] \in Seq(Int) /\ UnitAt(cs, u, i)
  <2>1. CASE cs[i] = Null
    <3>1. u[i] = <<-1>>
      BY <1>2, <2>1
    <3> HIDE DEF u
    <3> QED BY <2>1, <3>1 DEF UnitAt
  <2>2. CASE cs[i] # Null
    <3> DEFINE c == cs[i]
    <3>1. c \in Seq(Int) /\ u[i] = <<Len(c)>> \o c
      BY <1>1, <1>2, <2>2
    <3> HIDE DEF c, u
    <3>2. Len(c) \in Nat /\ <<Len(c)>> \in Seq(Int) /\ Len(<<Len(c)>>) = 1 /\ <<Len(c)>>[1] = Len(c)
      BY <3>1
    <3> DEFINE h == <<Len(c)>>
    <3>3. /\ h \o c \in Seq(Int) /\ Len(h \o c) = 1 + Len(c)
          /\ \A k \in 1..(1 + Len(c)) : (h \o c)[k] = IF k <= 1 THEN h[k] ELSE c[k - 1]
      <4>1. h \in Seq(Int) /\ Len(h) = 1
        BY <3>2
      <4> HIDE DEF h
      <4>2. /\ h \o c \in Seq(Int) /\ Len(h \o c) = Len(h) + Len(c)
            /\ \A k \in 1..(Len(h) + Len(c)) : (h \o c)[k] = IF k <= Len(h) THEN h[k] ELSE c[k - Len(h)]
        BY ONLY <3>1, <4>1, ConcatProperties
      <4> QED BY ONLY <4>1, <4>2
    <3>4. (h \o c)[1] = Len(c) /\ \A k \in 1..Len(c) : (h \o c)[k + 1] = c[k]
      <4>1. h[1] = Len(c)
        BY <3>2
      <4> HIDE DEF h
      <4>2. (h \o c)[1] = h[1]
        <5>1. 1 \in 1..(1 + Len(c))
          BY <3>2
        <5> QED BY <3>3, <5>1
      <4>3. ASSUME NEW k \in 1..Len(c) PROVE (h \o c)[k + 1] = c[k]
        <5>1. k + 1 \in 1..(1 + Len(c)) /\ ~(k + 1 <= 1) /\ (k + 1) - 1 = k
          BY <3>2
        <5> QED BY <3>3, <5>1
      <4> QED BY <4>1, <4>2, <4>3
    <3>5. u[i] = h \o c
      BY <3>1
    <3> HIDE DEF h
    <3>6. Len(c) + 1 = 1 + Len(c)
      BY <3>2
    <3>7. cs[i] = c
      BY DEF c
    <3> QED BY <2>2, <3>1, <3>2, <3>3, <3>4, <3>5, <3>6, <3>7 DEF UnitAt
  <2> QED BY <2>1, <2>2
<1>4. u \in Seq(Seq(Int)) /\ Len(u) = n
  <2>1. u \in [1..n -> Seq(Int)]
    <3>1. u = [i \in 1..n |-> u[i]]
      BY <1>1 DEF CellUnits
    <3> HIDE DEF u
    <3> QED BY <1>3, <3>1
  <2> HIDE DEF u, n
  <2> QED BY <1>1, <2>1
<1> QED BY <1>1, <1>3, <1>4

LEMMA Within ==
  ASSUME NEW w \in Nat, NEW n \in Nat, NEW now, now = w + n, NEW all \in Nat, now <= all, NEW k \in 1..n
  PROVE  w + k \in 1..now /\ 1 + w + k \in 1..(1 + all) /\ ~(1 + w + k <= 1) /\ (1 + w + k) - 1 = w + k
  OBVIOUS

PlacedAt(ss, g, b, i) ==
  /\ Len(g[i - 1]) \in Nat /\ Len(ss[i]) \in Nat
  /\ 2 + Len(g[i]) = 2 + Len(g[i - 1]) + Len(ss[i])
  /\ 1 + Len(g[i - 1]) + Len(ss[i]) <= Len(b)
  /\ \A k \in 1..Len(ss[i]) : b[1 + Len(g[i - 1]) + k] = ss[i][k]

\* The units of a cell begin where those before it end, behind the number of cells.
LEMMA Placed ==
  ASSUME NEW ss \in Seq(Seq(Int)), NEW g, Grows(Int, ss, g), NEW N \in Int, NEW b, b = <<N>> \o g[Len(ss)],
         NEW i \in 1..Len(ss)
  PROVE  PlacedAt(ss, g, b, i)
<1> DEFINE all == g[Len(ss)]
           was == g[i - 1]
           now == g[i]
           new == ss[i]
<1>1. GrowsAt(Int, ss, g, i)
  BY GrowsBy
<1>2. /\ was \in Seq(Int) /\ now \in Seq(Int) /\ new \in Seq(Int) /\ i \in 0..Len(ss)
      /\ Len(now) = Len(was) + Len(new)
      /\ \A k \in 1..Len(new) : now[Len(was) + k] = new[k]
  BY <1>1 DEF GrowsAt
<1>3. all \in Seq(Int) /\ Len(now) <= Len(all) /\ \A k \in 1..Len(now) : all[k] = now[k]
  <2>1. StaysAt(Int, ss, g, i)
    BY <1>2, GrowsOn
  <2> QED BY <2>1 DEF StaysAt
<1>4. b = <<N>> \o all
  OBVIOUS
<1> HIDE DEF all, was, now, new
<1>5. Len(was) \in Nat /\ Len(now) \in Nat /\ Len(new) \in Nat /\ Len(all) \in Nat
  BY <1>2, <1>3
<1>6. /\ Len(b) = 1 + Len(all)
      /\ \A k \in 1..(1 + Len(all)) : b[k] = IF k <= 1 THEN N ELSE all[k - 1]
  <2> DEFINE h == <<N>>
  <2>1. h \in Seq(Int) /\ Len(h) = 1 /\ h[1] = N /\ b = h \o all
    BY <1>4
  <2> HIDE DEF h
  <2>2. /\ Len(h \o all) = Len(h) + Len(all)
        /\ \A k \in 1..(Len(h) + Len(all)) : (h \o all)[k] = IF k <= Len(h) THEN h[k] ELSE all[k - Len(h)]
    BY <1>3, <2>1, ConcatProperties
  <2>3. ASSUME NEW k \in 1..(1 + Len(all)) PROVE b[k] = IF k <= 1 THEN N ELSE all[k - 1]
    <3>1. k <= 1 => k = 1
      BY <1>5
    <3> QED BY <2>1, <2>2, <3>1
  <2> QED BY <2>1, <2>2, <2>3
<1>7. ASSUME NEW k \in 1..Len(new) PROVE b[1 + Len(was) + k] = new[k]
  <2> DEFINE w == Len(was)
             n == Len(new)
             o == Len(now)
             a == Len(all)
  <2>2. w \in Nat /\ n \in Nat /\ o = w + n /\ a \in Nat /\ o <= a /\ k \in 1..n
    BY <1>2, <1>3, <1>5
  <2>1. w + k \in 1..o /\ 1 + w + k \in 1..(1 + a) /\ ~(1 + w + k <= 1) /\ (1 + w + k) - 1 = w + k
    <3> HIDE DEF w, n, o, a
    <3> QED BY ONLY <2>2, Within
  <2> QED BY <1>2, <1>3, <1>6, <2>1
<1>8. 2 + Len(now) = 2 + Len(was) + Len(new) /\ 1 + Len(was) + Len(new) <= Len(b)
  BY <1>2, <1>3, <1>5, <1>6
<1> QED BY <1>5, <1>7, <1>8 DEF all, was, now, new, PlacedAt

LEMMA Piece ==
  ASSUME NEW b, NEW c \in Seq(Int), NEW w \in Nat, \A k \in 1..Len(c) : b[2 + w + k] = c[k]
  PROVE  SubSeq(b, 3 + w, 2 + w + Len(c)) = c
<1>1. Len(c) \in Nat /\ 3 + w \in Int /\ 2 + w + Len(c) \in Int
  OBVIOUS
<1> DEFINE p == SubSeq(b, 3 + w, 2 + w + Len(c))
<1>2. ASSUME NEW i \in (3 + w)..(2 + w + Len(c)) PROVE b[i] \in Int
  <2> DEFINE k == i - (2 + w)
  <2>1. k \in 1..Len(c) /\ 2 + w + k = i
    BY <1>1
  <2> HIDE DEF k
  <2>2. b[2 + w + k] = c[k] /\ c[k] \in Int
    BY <2>1
  <2> QED BY <2>1, <2>2
<1>3. /\ p \in Seq(Int) /\ Len(p) = (IF 3 + w <= 2 + w + Len(c) THEN (2 + w + Len(c)) - (3 + w) + 1 ELSE 0)
      /\ \A i \in 1..((2 + w + Len(c)) - (3 + w) + 1) : p[i] = b[3 + w + i - 1]
  BY <1>1, <1>2, SubSeqProperties
<1> HIDE DEF p
<1>4. Len(p) = Len(c) /\ (2 + w + Len(c)) - (3 + w) + 1 = Len(c)
  BY <1>1, <1>3
<1>5. ASSUME NEW i \in 1..Len(c) PROVE p[i] = c[i]
  <2>1. 3 + w + i - 1 = 2 + w + i
    BY <1>1
  <2> QED BY <1>3, <1>4, <2>1
<1> QED BY <1>3, <1>4, <1>5, SeqEqual DEF p

\* The entry that a cell should get.
EntryOf(cs, g, i) == IF cs[i] = Null THEN <<0, -1>> ELSE <<3 + Len(g[i - 1]), Len(cs[i])>>

LEMMA CellArithmetic ==
  ASSUME NEW w \in Nat, NEW n \in Nat, NEW size \in Nat, NEW long \in Nat, 1 + w + n <= long, n >= 1
  PROVE  /\ ~(2 + w > long) /\ 1 + w + 1 = 2 + w /\ 2 + w + 1 = 3 + w
         /\ n = 1 => 2 + w + n = 2 + w + 1
         /\ n = size + 1 => size # -1 /\ ~(size < 0) /\ ~((2 + w) + 1 + size - 1 > long)
                            /\ (2 + w) + 1 + size = 2 + w + n
  OBVIOUS

LEMMA NextCell ==
  ASSUME NEW b \in Seq(Int), NEW st \in RowStates, st.ok, ~(st.at > Len(b)), b[st.at] # -1,
         ~(b[st.at] < 0 \/ st.at + 1 + b[st.at] - 1 > Len(b))
  PROVE  RowNext(b, st) = [ok |-> TRUE, at |-> st.at + 1 + b[st.at], has |-> Append(st.has, <<st.at + 1, b[st.at]>>)]
<1>1. st.at \in Nat /\ st.at >= 1 /\ Len(b) \in Nat
  BY DEF RowStates
<1>2. st.ok /\ ~(st.at > Len(b)) /\ b[st.at] \in Int
  BY <1>1
<1> QED BY <1>1, <1>2 DEF RowNext, ReadCellEntry

LEMMA Fields ==
  ASSUME NEW r, NEW at, NEW has, r = [ok |-> TRUE, at |-> at, has |-> has]
  PROVE  r.ok = TRUE /\ r.at = at /\ r.has = has
  OBVIOUS

LEMMA CellRead ==
  ASSUME NEW cs \in Seq(Seq(Int) \cup {Null}), NEW g, Grows(Int, CellUnits(cs), g),
         NEW b \in Seq(Int), b = <<Len(cs)>> \o g[Len(cs)], NEW i \in 1..Len(cs),
         NEW st \in RowStates, st.ok, st.at = 2 + Len(g[i - 1])
  PROVE  /\ RowNext(b, st).ok /\ RowNext(b, st).at = 2 + Len(g[i])
         /\ RowNext(b, st).has = Append(st.has, EntryOf(cs, g, i))
<1> DEFINE ss == CellUnits(cs)
           w == Len(g[i - 1])
           u == ss[i]
<1>1. ss \in Seq(Seq(Int)) /\ Len(ss) = Len(cs) /\ Len(cs) \in Nat /\ i \in 1..Len(ss)
  BY UnitsTyped
<1>2. \/ cs[i] = Null /\ Len(u) = 1 /\ u[1] = -1
      \/ /\ cs[i] # Null /\ Len(cs[i]) \in Nat /\ Len(u) = Len(cs[i]) + 1 /\ u[1] = Len(cs[i])
  <2>1. UnitAt(cs, ss, i)
    BY UnitsTyped
  <2> QED BY <2>1 DEF UnitAt
<1>3. /\ w \in Nat /\ Len(u) \in Nat /\ 2 + Len(g[i]) = 2 + w + Len(u) /\ 1 + w + Len(u) <= Len(b)
      /\ \A k \in 1..Len(u) : b[1 + w + k] = u[k]
  <2>1. Len(cs) \in Int /\ b = <<Len(cs)>> \o g[Len(ss)] /\ Grows(Int, ss, g)
    BY <1>1
  <2> HIDE DEF ss, u
  <2>2. PlacedAt(ss, g, b, i)
    BY <1>1, <2>1, Placed
  <2> QED BY <2>2 DEF PlacedAt, u
<1>4. Len(b) \in Nat
  OBVIOUS
<1> HIDE DEF ss, w, u
<1>5. Len(u) >= 1 /\ 1 \in 1..Len(u)
  BY <1>2, <1>3
<1>6. /\ ~(2 + w > Len(b)) /\ 1 + w + 1 = 2 + w /\ 2 + w + 1 = 3 + w
      /\ Len(u) = 1 => 2 + w + Len(u) = 2 + w + 1
  BY <1>3, <1>4, <1>5, CellArithmetic
<1>7. b[2 + w] = u[1] /\ st.at = 2 + w
  BY <1>3, <1>5, <1>6 DEF w
<1>8. CASE cs[i] = Null
  <2>1. Len(u) = 1 /\ b[st.at] = -1
    BY <1>2, <1>7, <1>8
  <2>2. RowNext(b, st) = [ok |-> TRUE, at |-> st.at + 1, has |-> Append(st.has, <<0, -1>>)]
    BY <1>6, <1>7, <2>1 DEF RowNext, ReadCellEntry
  <2>3. EntryOf(cs, g, i) = <<0, -1>>
    BY <1>8 DEF EntryOf
  <2>4. st.at + 1 = 2 + Len(g[i])
    BY <1>3, <1>6, <1>7, <2>1
  <2>5. RowNext(b, st).ok = TRUE /\ RowNext(b, st).at = st.at + 1 /\ RowNext(b, st).has = Append(st.has, <<0, -1>>)
    BY ONLY <2>2, Fields
  <2> QED BY <2>3, <2>4, <2>5
<1>9. CASE cs[i] # Null
  <2> DEFINE size == Len(cs[i])
  <2>1. size \in Nat /\ Len(u) = size + 1 /\ b[st.at] = size
    BY <1>2, <1>7, <1>9
  <2>2. EntryOf(cs, g, i) = <<3 + w, size>>
    BY <1>9 DEF EntryOf, w
  <2> HIDE DEF size
  <2>3. /\ size # -1 /\ ~(size < 0) /\ ~((2 + w) + 1 + size - 1 > Len(b))
        /\ (2 + w) + 1 + size = 2 + w + Len(u)
    BY <1>3, <1>4, <1>5, <2>1, CellArithmetic, SMTT(40)
  <2>4. RowNext(b, st) = [ok |-> TRUE, at |-> st.at + 1 + size, has |-> Append(st.has, <<st.at + 1, size>>)]
    <3> DEFINE len == b[st.at]
    <3>1. ~(st.at > Len(b)) /\ len # -1 /\ ~(len < 0 \/ st.at + 1 + len - 1 > Len(b))
      <4>1. len = size
        BY <2>1
      <4> HIDE DEF len
      <4> QED BY <1>6, <1>7, <2>3, <4>1
    <3>2. RowNext(b, st) = [ok |-> TRUE, at |-> st.at + 1 + len, has |-> Append(st.has, <<st.at + 1, len>>)]
      BY <3>1, NextCell
    <3> QED BY <2>1, <3>2
  <2>5. st.at + 1 = 3 + w /\ st.at + 1 + size = 2 + Len(g[i])
    BY <1>3, <1>6, <1>7, <2>3
  <2>6. RowNext(b, st).ok = TRUE /\ RowNext(b, st).at = st.at + 1 + size
        /\ RowNext(b, st).has = Append(st.has, <<st.at + 1, size>>)
    BY ONLY <2>4, Fields
  <2> QED BY <2>2, <2>5, <2>6
<1> QED BY <1>8, <1>9

LEMMA CellsRead ==
  ASSUME NEW cs \in Seq(Seq(Int) \cup {Null}), NEW g, Grows(Int, CellUnits(cs), g),
         NEW b \in Seq(Int), b = <<Len(cs)>> \o g[Len(cs)], NEW f, RowReads(b, Len(cs), f)
  PROVE  LET st == f[Len(cs)]
         IN st.ok /\ Len(st.has) = Len(cs) /\ \A j \in 1..Len(cs) : st.has[j] = EntryOf(cs, g, j)
<1> DEFINE n == Len(cs)
           Good(k) == /\ f[k].ok /\ f[k].at = 2 + Len(g[k]) /\ Len(f[k].has) = k
                      /\ \A j \in 1..k : f[k].has[j] = EntryOf(cs, g, j)
           S == {k \in Nat : k \in 0..n => Good(k)}
<1>1. n \in Nat
  OBVIOUS
<1>2. 0 \in S
  <2>1. f[0].ok /\ f[0].has = <<>> /\ f[0].at = 2
    BY DEF RowReads, RowFirst
  <2>2. g[0] = <<>>
    BY DEF Grows
  <2>3. Good(0)
    BY <2>1, <2>2
  <2> QED BY <2>3
<1>3. ASSUME NEW k \in S PROVE k + 1 \in S
  <2>1. SUFFICES ASSUME k + 1 \in 0..n PROVE Good(k + 1)
    OBVIOUS
  <2>2. k \in 0..n /\ k \in Nat /\ k + 1 \in 1..n /\ (k + 1) - 1 = k
    BY <2>1
  <2>3. f[k + 1] = RowNext(b, f[k]) /\ f[k] \in RowStates
    BY <2>2 DEF RowReads
  <2>4. Good(k)
    BY <2>2
  <2> DEFINE i == k + 1
             e == EntryOf(cs, g, k + 1)
  <2>5. i \in 1..Len(cs) /\ f[k].ok /\ f[k].at = 2 + Len(g[i - 1])
    BY <2>2, <2>4
  <2>6. /\ RowNext(b, f[k]).ok /\ RowNext(b, f[k]).at = 2 + Len(g[i])
        /\ RowNext(b, f[k]).has = Append(f[k].has, EntryOf(cs, g, i))
    <3> HIDE DEF i, Good, S
    <3> QED BY <2>3, <2>5, CellRead
  <2>7. e \in Int \X Int
    <3>1. cs[k + 1] \in Seq(Int) \cup {Null} /\ k \in 0..Len(cs)
      BY <2>2
    <3>2. g[k] \in Seq(Int)
      BY <3>1, UnitsTyped DEF Grows
    <3>3. 3 + Len(g[k]) \in Int
      BY <3>2
    <3> QED BY <2>2, <3>1, <3>3 DEF EntryOf
  <2>8. f[k].has \in Seq(Int \X Int)
    BY <2>3 DEF RowStates
  <2> DEFINE h == f[k].has
  <2>9. f[k + 1].has = Append(h, e)
    BY <2>3, <2>6
  <2>10. Len(h) = k /\ \A j \in 1..k : h[j] = EntryOf(cs, g, j)
    BY <2>4
  <2> HIDE DEF e, h
  <2>11. /\ Len(Append(h, e)) = k + 1
         /\ \A j \in 1..(k + 1) : Append(h, e)[j] = IF j <= k THEN h[j] ELSE e
    <3>1. h \in Seq(Int \X Int)
      BY <2>8 DEF h
    <3>2. /\ Len(Append(h, e)) = Len(h) + 1 /\ Len(h) \in Nat
          /\ \A j \in 1..(Len(h) + 1) : Append(h, e)[j] = IF j <= Len(h) THEN h[j] ELSE e
      BY ONLY <3>1, <2>7, OneMore
    <3> QED BY ONLY <2>10, <3>2
  <2>12. ASSUME NEW j \in 1..(k + 1) PROVE Append(h, e)[j] = EntryOf(cs, g, j)
    <3>1. CASE j <= k
      <4>1. j \in 1..k
        BY <2>2, <3>1
      <4> QED BY <2>10, <2>11, <3>1, <4>1
    <3>2. CASE ~(j <= k)
      <4>1. j = k + 1
        BY <2>2, <3>2
      <4> QED BY <2>11, <3>2, <4>1 DEF e
    <3> QED BY <3>1, <3>2
  <2> QED BY <2>3, <2>6, <2>9, <2>11, <2>12
<1>4. S = Nat
  <2>1. S \in SUBSET Nat
    OBVIOUS
  <2> HIDE DEF S
  <2> QED BY <1>2, <1>3, <2>1, AllNumbers
<1>5. Good(n)
  <2> HIDE DEF Good
  <2>1. n \in 0..n
    BY <1>1
  <2> QED BY <1>1, <1>4, <2>1
<1> QED BY <1>5

\* A server writes a data row as the number of its cells, and for each its length and bytes, or -1 (the layout
\* parse_data_row reads, backend.rs). The row that is parsed has those cells, whatever they are.
THEOREM DataRowsRead ==
  \A cs \in Seq(Seq(Int) \cup {Null}) :
    \E row : ParseDataRow(<<Len(cs)>> \o CellBytes(cs)) = <<<<"D", row>>>> /\ RowCells(row) = cs
<1> SUFFICES ASSUME NEW cs \in Seq(Seq(Int) \cup {Null})
             PROVE \E row : ParseDataRow(<<Len(cs)>> \o CellBytes(cs)) = <<<<"D", row>>>> /\ RowCells(row) = cs
  OBVIOUS
<1> DEFINE n  == Len(cs)
           ss == CellUnits(cs)
           b  == <<n>> \o CellBytes(cs)
<1>1. ss \in Seq(Seq(Int)) /\ Len(ss) = n /\ n \in Nat
  BY UnitsTyped
<1>2. PICK g : Grows(Int, ss, g) /\ FlattenSeq(ss) = g[n]
  <2>1. \E g : Grows(Int, ss, g) /\ FlattenSeq(ss) = g[Len(ss)]
    <3> HIDE DEF ss
    <3> QED BY <1>1, Grown
  <2> QED BY <1>1, <2>1
<1>3. CellBytes(cs) = g[n]
  BY <1>2 DEF CellBytes, CellUnits
<1>4. g[n] \in Seq(Int)
  BY <1>1, <1>2 DEF Grows
<1>5. b \in Seq(Int) /\ b # <<>> /\ b[1] = n
  <2> DEFINE h == <<n>>
             all == g[n]
  <2>1. h \in Seq(Int) /\ Len(h) = 1 /\ h[1] = n /\ all \in Seq(Int) /\ b = h \o all
    BY <1>1, <1>3, <1>4
  <2> HIDE DEF h, all, b
  <2>2. /\ h \o all \in Seq(Int) /\ Len(h \o all) = Len(h) + Len(all) /\ Len(all) \in Nat
        /\ \A k \in 1..(Len(h) + Len(all)) : (h \o all)[k] = IF k <= Len(h) THEN h[k] ELSE all[k - Len(h)]
    <3>1. Len(all) \in Nat
      BY <2>1
    <3>2. /\ h \o all \in Seq(Int) /\ Len(h \o all) = Len(h) + Len(all)
          /\ \A k \in 1..(Len(h) + Len(all)) : (h \o all)[k] = IF k <= Len(h) THEN h[k] ELSE all[k - Len(h)]
      BY ONLY <2>1, ConcatProperties, ZenonT(40)
    <3> QED BY <3>1, <3>2
  <2>3. 1 \in 1..(Len(h) + Len(all)) /\ 1 <= Len(h) /\ Len(h) + Len(all) # 0
    BY <2>1, <2>2
  <2> QED BY <2>1, <2>2, <2>3
<1>6. b = <<Len(cs)>> \o g[Len(cs)]
  BY <1>3
<1> HIDE DEF b
<1>7. PICK f : /\ RowReads(b, n, f)
               /\ ParseDataRow(b) = IF f[n].ok THEN <<<<"D", FromEntries(b, f[n].has)>>>> ELSE None
  <2>1. b[1] >= 0
    BY <1>1, <1>5
  <2> QED BY <1>5, <2>1, RowParsed
<1> DEFINE cells == f[n].has
<1>8. f[n].ok /\ Len(cells) = n /\ \A j \in 1..n : cells[j] = EntryOf(cs, g, j)
  BY <1>2, <1>5, <1>6, <1>7, CellsRead
<1>9. cells \in Seq(Int \X Int)
  BY <1>1, <1>7 DEF RowReads, RowStates
<1>10. ParseDataRow(b) = <<<<"D", FromEntries(b, cells)>>>>
  BY <1>7, <1>8
<1> HIDE DEF cells
<1>11. RowCells(FromEntries(b, cells)) = [j \in 1..n |-> CellBody(b, cells[j])]
  BY <1>5, <1>8, <1>9, CellsOf
<1>12. ASSUME NEW j \in 1..n PROVE CellBody(b, cells[j]) = cs[j]
  <2>1. CASE cs[j] = Null
    <3>1. cells[j] = <<0, -1>>
      BY <1>8, <2>1 DEF EntryOf
    <3> QED BY <2>1, <3>1 DEF CellBody
  <2>2. CASE cs[j] # Null
    <3> DEFINE w == Len(g[j - 1])
               c == cs[j]
               u == ss[j]
    <3>1. c \in Seq(Int) /\ Len(c) \in Nat /\ Len(u) = Len(c) + 1 /\ \A k \in 1..Len(c) : u[k + 1] = c[k]
      <4>1. UnitAt(cs, ss, j)
        BY UnitsTyped
      <4> QED BY <2>2, <4>1 DEF UnitAt
    <3>2. cells[j] = <<3 + w, Len(c)>>
      BY <1>8, <2>2 DEF EntryOf
    <3>3. w \in Nat /\ \A k \in 1..Len(u) : b[1 + w + k] = u[k]
      <4>1. j \in 1..Len(ss) /\ n \in Int /\ b = <<n>> \o g[Len(ss)]
        BY <1>1, <1>6
      <4> HIDE DEF ss, n, u
      <4>2. PlacedAt(ss, g, b, j)
        BY <1>1, <1>2, <4>1, Placed
      <4> QED BY <4>2 DEF PlacedAt, u
    <3>4. CellBody(b, cells[j]) = SubSeq(b, 3 + w, 2 + w + Len(c))
      <4>1. (3 + w) + Len(c) - 1 = 2 + w + Len(c) /\ ~(Len(c) < 0)
        <5> HIDE DEF w, c
        <5> QED BY <3>1, <3>3
      <4>2. cells[j][1] = 3 + w /\ cells[j][2] = Len(c)
        BY <3>2
      <4> HIDE DEF w, c
      <4> QED BY <4>1, <4>2 DEF CellBody
    <3> HIDE DEF w, c, u
    <3>5. ASSUME NEW k \in 1..Len(c) PROVE b[2 + w + k] = c[k]
      <4>1. k + 1 \in 1..Len(u) /\ 1 + w + (k + 1) = 2 + w + k
        BY <3>1, <3>3
      <4> QED BY <3>1, <3>3, <4>1
    <3>6. SubSeq(b, 3 + w, 2 + w + Len(c)) = c
      BY <3>1, <3>3, <3>5, Piece
    <3> QED BY <3>4, <3>6 DEF c
  <2> QED BY <2>1, <2>2
<1>13. RowCells(FromEntries(b, cells)) = cs
  <2>1. cs = [j \in 1..n |-> cs[j]]
    OBVIOUS
  <2>2. [j \in 1..n |-> CellBody(b, cells[j])] = [j \in 1..n |-> cs[j]]
    BY <1>12
  <2> QED BY ONLY <1>11, <2>1, <2>2
<1> QED BY <1>10, <1>13 DEF b

-----------------------------------------------------------------------------
(* The client's messages.                                                  *)

ClientKinds == {"P", "B", "E", "S", "H", "c", "X", "Q", "f", "D", "C", "p", "d"}
ClientUnit  == Int \cup ClientKinds

\* The beginning of a message that says how long it is.
Says(m, n) == m \in Seq(ClientUnit) /\ Len(m) \in Nat /\ Len(m) >= 2 /\ m[2] = n

\* It is as long as it says, but for its tag.
Fits(m) == \E n \in Nat : Says(m, n) /\ Len(m) = n + 1

LEMMA SaysFirst ==
  ASSUME NEW tag \in ClientKinds, NEW n \in Nat
  PROVE  Says(<<tag, n>>, n) /\ Len(<<tag, n>>) = 2
<1>1. tag \in ClientUnit /\ n \in ClientUnit
  BY DEF ClientUnit
<1> QED BY <1>1 DEF Says

LEMMA SaysStill ==
  ASSUME NEW m, NEW n, Says(m, n), NEW s \in Seq(ClientUnit)
  PROVE  Says(m \o s, n) /\ Len(m \o s) = Len(m) + Len(s)
<1>1. m \in Seq(ClientUnit) /\ Len(m) \in Nat /\ Len(m) >= 2 /\ m[2] = n /\ Len(s) \in Nat
  BY DEF Says
<1>2. /\ m \o s \in Seq(ClientUnit) /\ Len(m \o s) = Len(m) + Len(s)
      /\ \A i \in 1..(Len(m) + Len(s)) : (m \o s)[i] = IF i <= Len(m) THEN m[i] ELSE s[i - Len(m)]
  BY ONLY <1>1, s \in Seq(ClientUnit), ConcatProperties
<1>3. (m \o s)[2] = n
  BY <1>1, <1>2
<1> QED BY <1>1, <1>2, <1>3 DEF Says

LEMMA IntsTyped == \A s \in Seq(Int) : s \in Seq(ClientUnit) /\ Len(s) \in Nat
<1>1. Int \subseteq ClientUnit
  BY DEF ClientUnit
<1> QED BY ONLY <1>1, SeqMonotonic

LEMMA Strung ==
  ASSUME NEW s \in Seq(Int)
  PROVE  /\ s \in Seq(ClientUnit) /\ Len(s) \in Nat
         /\ Z(s) \in Seq(ClientUnit) /\ Len(Z(s)) = Len(s) + 1
<1>1. s \in Seq(ClientUnit) /\ Len(s) \in Nat
  BY IntsTyped
<1>2. 0 \in ClientUnit
  BY DEF ClientUnit
<1> QED BY <1>1, <1>2, AppendProperties DEF Z

LEMMA OneTyped ==
  ASSUME NEW i \in Int
  PROVE  <<i>> \in Seq(ClientUnit) /\ Len(<<i>>) = 1
<1>1. i \in ClientUnit
  BY DEF ClientUnit
<1> QED BY <1>1

\* If it is as long as it says, the next begins behind it.
LEMMA SaysAll ==
  ASSUME NEW m, NEW n \in Nat, Says(m, n), Len(m) = n + 1
  PROVE  m[2] = Len(m) - 1 /\ \A rest \in Seq(ClientUnit) : PastFrame(m \o rest, m[2]) = rest
<1>1. m \in Seq(ClientUnit) /\ m[2] = n
  BY DEF Says
<1>2. ASSUME NEW rest \in Seq(ClientUnit) PROVE PastFrame(m \o rest, m[2]) = rest
  <2>1. /\ Len(m \o rest) = Len(m) + Len(rest) /\ Len(m) \in Nat /\ Len(rest) \in Nat
        /\ m \o rest \in Seq(ClientUnit)
    BY <1>1
  <2> DEFINE q == SubSeq(m \o rest, Len(m) + 1, Len(m) + Len(rest))
  <2>2. ASSUME Len(rest) = 0 PROVE q = rest
    <3>1. rest = <<>> /\ Len(m) + Len(rest) < Len(m) + 1
      BY <2>1, <2>2
    <3>2. q = <<>>
      BY <2>1, <3>1, SubSeqEmpty
    <3> QED BY <3>1, <3>2
  <2>3. ASSUME Len(rest) # 0 PROVE q = rest
    <3>1. /\ Len(m) + 1 \in Len(m)+1 .. Len(m)+Len(rest) /\ Len(m) + Len(rest) \in Len(m)+1 .. Len(m)+Len(rest)
          /\ (Len(m) + 1) - Len(m) = 1 /\ (Len(m) + Len(rest)) - Len(m) = Len(rest)
      BY <2>1, <2>3
    <3>2. q = SubSeq(rest, (Len(m) + 1) - Len(m), (Len(m) + Len(rest)) - Len(m))
      BY ONLY <1>1, <3>1, rest \in Seq(ClientUnit), SubSeqOfConcat2, ZenonT(40)
    <3>3. q = SubSeq(rest, 1, Len(rest))
      BY ONLY <3>1, <3>2
    <3> QED BY <3>3, SubSeqFull
  <2>4. PastFrame(m \o rest, m[2]) = q
    <3>1. n + 2 = Len(m) + 1
      BY <2>1
    <3> QED BY <1>1, <2>1, <3>1 DEF PastFrame
  <2> QED BY <2>2, <2>3, <2>4
<1> QED BY <1>1, <1>2

LEMMA SaysParse ==
  ASSUME NEW a \in Seq(Int), NEW b \in Seq(Int), NEW c \in Seq(Int)
  PROVE  \E n \in Nat : Says(EncodeParse(a, b, c), n) /\ Len(EncodeParse(a, b, c)) = n + 1
<1> DEFINE n == 1 + Len(a) + 1 + Len(b) + 1 + 1 + Len(c)
           m1 == <<"P", n>>
           m2 == m1 \o Z(a)
           m3 == m2 \o Z(b)
           m4 == m3 \o <<Len(c)>>
           m5 == m4 \o c
<1>1. n \in Nat /\ Len(a) \in Nat /\ Len(b) \in Nat /\ Len(c) \in Nat
  BY IntsTyped
<1>2. /\ Z(a) \in Seq(ClientUnit) /\ Len(Z(a)) = Len(a) + 1
      /\ Z(b) \in Seq(ClientUnit) /\ Len(Z(b)) = Len(b) + 1 /\ c \in Seq(ClientUnit)
  BY Strung
<1>3. <<Len(c)>> \in Seq(ClientUnit) /\ Len(<<Len(c)>>) = 1
  BY <1>1, OneTyped
<1>4. Says(m1, n) /\ Len(m1) = 2
  BY <1>1, SaysFirst DEF ClientKinds
<1>5. EncodeParse(a, b, c) = m5
  BY DEF EncodeParse
<1> HIDE DEF m1
<1>6. Says(m2, n) /\ Len(m2) = Len(m1) + Len(Z(a))
  BY <1>2, <1>4, SaysStill
<1> HIDE DEF m2
<1>7. Says(m3, n) /\ Len(m3) = Len(m2) + Len(Z(b))
  BY <1>2, <1>6, SaysStill
<1> HIDE DEF m3
<1>8. Says(m4, n) /\ Len(m4) = Len(m3) + 1
  BY <1>3, <1>7, SaysStill
<1> HIDE DEF m4
<1>9. Says(m5, n) /\ Len(m5) = Len(m4) + Len(c)
  BY <1>2, <1>8, SaysStill
<1> HIDE DEF m5
<1>10. Len(m5) = n + 1
  BY <1>1, <1>2, <1>4, <1>6, <1>7, <1>8, <1>9
<1> QED BY <1>1, <1>5, <1>9, <1>10

LEMMA SaysExecute ==
  ASSUME NEW a \in Seq(Int), NEW max \in Int
  PROVE  \E n \in Nat : Says(EncodeExecute(a, max), n) /\ Len(EncodeExecute(a, max)) = n + 1
<1> DEFINE n == 1 + Len(a) + 1 + 1
           m1 == <<"E", n>>
           m2 == m1 \o Z(a)
           m3 == m2 \o <<max>>
<1>1. n \in Nat /\ Len(a) \in Nat
  BY IntsTyped
<1>2. Z(a) \in Seq(ClientUnit) /\ Len(Z(a)) = Len(a) + 1 /\ <<max>> \in Seq(ClientUnit) /\ Len(<<max>>) = 1
  BY Strung, OneTyped
<1>3. Says(m1, n) /\ Len(m1) = 2
  BY <1>1, SaysFirst DEF ClientKinds
<1>4. EncodeExecute(a, max) = m3
  BY DEF EncodeExecute
<1> HIDE DEF m1
<1>5. Says(m2, n) /\ Len(m2) = Len(m1) + Len(Z(a))
  BY <1>2, <1>3, SaysStill
<1> HIDE DEF m2
<1>6. Says(m3, n) /\ Len(m3) = Len(m2) + 1
  BY <1>2, <1>5, SaysStill
<1> HIDE DEF m3
<1>7. Len(m3) = n + 1
  BY <1>1, <1>2, <1>3, <1>5, <1>6
<1> QED BY <1>1, <1>4, <1>6, <1>7

LEMMA SaysInitial ==
  ASSUME NEW a \in Seq(Int), NEW b \in Seq(Int)
  PROVE  \E n \in Nat : Says(EncodeInitial(a, b), n) /\ Len(EncodeInitial(a, b)) = n + 1
<1> DEFINE n == 1 + Len(a) + 1 + 1 + Len(b)
           m1 == <<"p", n>>
           m2 == m1 \o Z(a)
           m3 == m2 \o <<Len(b)>>
           m4 == m3 \o b
<1>1. n \in Nat /\ Len(a) \in Nat /\ Len(b) \in Nat
  BY IntsTyped
<1>2. /\ Z(a) \in Seq(ClientUnit) /\ Len(Z(a)) = Len(a) + 1 /\ b \in Seq(ClientUnit)
      /\ <<Len(b)>> \in Seq(ClientUnit) /\ Len(<<Len(b)>>) = 1
  BY <1>1, Strung, OneTyped
<1>3. Says(m1, n) /\ Len(m1) = 2
  BY <1>1, SaysFirst DEF ClientKinds
<1>4. EncodeInitial(a, b) = m4
  BY DEF EncodeInitial
<1> HIDE DEF m1
<1>5. Says(m2, n) /\ Len(m2) = Len(m1) + Len(Z(a))
  BY <1>2, <1>3, SaysStill
<1> HIDE DEF m2
<1>6. Says(m3, n) /\ Len(m3) = Len(m2) + 1
  BY <1>2, <1>5, SaysStill
<1> HIDE DEF m3
<1>7. Says(m4, n) /\ Len(m4) = Len(m3) + Len(b)
  BY <1>2, <1>6, SaysStill
<1> HIDE DEF m4
<1>8. Len(m4) = n + 1
  BY <1>1, <1>2, <1>3, <1>5, <1>6, <1>7
<1> QED BY <1>1, <1>4, <1>7, <1>8

\* The rest is a head and one string, or bytes, or nothing.
LEMMA SaysOne ==
  ASSUME NEW tag \in ClientKinds, NEW kind \in Int, NEW a \in Seq(Int)
  PROVE  /\ \E n \in Nat : Says(EncodeEmpty(tag), n) /\ Len(EncodeEmpty(tag)) = n + 1
         /\ \E n \in Nat : Says(EncodeString(tag, a), n) /\ Len(EncodeString(tag, a)) = n + 1
         /\ \E n \in Nat : Says(EncodeBytes(tag, a), n) /\ Len(EncodeBytes(tag, a)) = n + 1
         /\ \E n \in Nat : Says(EncodeKind(tag, kind, a), n) /\ Len(EncodeKind(tag, kind, a)) = n + 1
<1>1. /\ Len(a) \in Nat /\ a \in Seq(ClientUnit)
      /\ Z(a) \in Seq(ClientUnit) /\ Len(Z(a)) = Len(a) + 1
  BY Strung
<1>2. \A n \in Nat : Says(<<tag, n>>, n) /\ Len(<<tag, n>>) = 2
  BY SaysFirst
<1>3. \E n \in Nat : Says(EncodeEmpty(tag), n) /\ Len(EncodeEmpty(tag)) = n + 1
  BY <1>2 DEF EncodeEmpty
<1>4. \E n \in Nat : Says(EncodeString(tag, a), n) /\ Len(EncodeString(tag, a)) = n + 1
  <2> DEFINE n == 1 + Len(a) + 1
             m == <<tag, n>>
  <2>1. n \in Nat /\ Says(m, n) /\ Len(m) = 2
    BY <1>1, <1>2
  <2>2. EncodeString(tag, a) = m \o Z(a)
    BY DEF EncodeString
  <2> HIDE DEF m
  <2>3. Says(m \o Z(a), n) /\ Len(m \o Z(a)) = 2 + (Len(a) + 1)
    BY <1>1, <2>1, SaysStill
  <2>4. 2 + (Len(a) + 1) = n + 1
    BY <1>1
  <2> QED BY ONLY <2>1, <2>2, <2>3, <2>4
<1>5. \E n \in Nat : Says(EncodeBytes(tag, a), n) /\ Len(EncodeBytes(tag, a)) = n + 1
  <2> DEFINE n == 1 + Len(a)
             m == <<tag, n>>
  <2>1. n \in Nat /\ Says(m, n) /\ Len(m) = 2
    BY <1>1, <1>2
  <2>2. EncodeBytes(tag, a) = m \o a
    BY DEF EncodeBytes
  <2> HIDE DEF m
  <2>3. Says(m \o a, n) /\ Len(m \o a) = 2 + Len(a)
    BY <1>1, <2>1, SaysStill
  <2>4. 2 + Len(a) = n + 1
    BY <1>1
  <2> QED BY ONLY <2>1, <2>2, <2>3, <2>4
<1>6. \E n \in Nat : Says(EncodeKind(tag, kind, a), n) /\ Len(EncodeKind(tag, kind, a)) = n + 1
  <2> DEFINE n == 1 + 1 + Len(a) + 1
             m == <<tag, n, kind>>
  <2>1. n \in Nat
    BY <1>1
  <2>2. Says(m, n) /\ Len(m) = 3
    <3>1. tag \in ClientUnit /\ n \in ClientUnit /\ kind \in ClientUnit
      BY <2>1 DEF ClientUnit
    <3> QED BY <3>1 DEF Says
  <2>3. EncodeKind(tag, kind, a) = m \o Z(a)
    BY DEF EncodeKind
  <2> HIDE DEF m
  <2>4. Says(m \o Z(a), n) /\ Len(m \o Z(a)) = 3 + (Len(a) + 1)
    BY <1>1, <2>2, SaysStill
  <2>5. 3 + (Len(a) + 1) = n + 1
    BY <1>1
  <2> QED BY ONLY <2>1, <2>3, <2>4, <2>5
<1> QED BY <1>3, <1>4, <1>5, <1>6

\* Adding up, one after the other.
LEMMA SumIs ==
  ASSUME NEW N \in Nat, NEW ns, Len(ns) = N, NEW x \in [0..N -> Nat], x[0] = 0, \A i \in 1..N : x[i] = x[i - 1] + ns[i]
  PROVE  Sum(ns) = x[N]
<1> DEFINE sum == CHOOSE sum : sum = [i \in 0..N |-> IF i = 0 THEN 0 ELSE sum[i - 1] + ns[i]]
<1>1. x = [i \in 0..N |-> IF i = 0 THEN 0 ELSE x[i - 1] + ns[i]]
  <2>1. ASSUME NEW i \in 0..N PROVE x[i] = IF i = 0 THEN 0 ELSE x[i - 1] + ns[i]
    <3>1. i # 0 => i \in 1..N
      OBVIOUS
    <3> QED BY <3>1
  <2> QED BY <2>1
<1>2. sum = [i \in 0..N |-> IF i = 0 THEN 0 ELSE sum[i - 1] + ns[i]]
  BY <1>1
<1>3. Sum(ns) = sum[N]
  BY DEF Sum
<1> HIDE DEF sum
<1> DEFINE S == {k \in Nat : k \in 0..N => sum[k] = x[k]}
<1>4. 0 \in S
  BY <1>2
<1>5. ASSUME NEW k \in S PROVE k + 1 \in S
  <2>1. SUFFICES ASSUME k + 1 \in 0..N PROVE sum[k + 1] = x[k + 1]
    OBVIOUS
  <2>2. k \in 0..N /\ k + 1 # 0 /\ (k + 1) - 1 = k /\ k + 1 \in 1..N
    BY <2>1
  <2>3. sum[k] = x[k]
    BY <2>2
  <2>4. sum[k + 1] = sum[k] + ns[k + 1]
    BY <1>2, <2>1, <2>2
  <2> QED BY <2>2, <2>3, <2>4
<1>6. S = Nat
  <2>1. S \in SUBSET Nat
    OBVIOUS
  <2> HIDE DEF S
  <2> QED BY <1>4, <1>5, <2>1, AllNumbers
<1>7. sum[N] = x[N]
  <2>1. N \in 0..N
    OBVIOUS
  <2>2. N \in S
    <3> HIDE DEF S
    <3> QED BY <1>6
  <2>3. N \in 0..N => sum[N] = x[N]
    BY <2>2
  <2> QED BY <2>1, <2>3
<1> QED BY <1>3, <1>7

\* The values take as many units as their sizes add up to.
LEMMA ValuesFit ==
  ASSUME NEW cs \in Seq(Seq(Int) \cup {Null})
  PROVE  /\ CellBytes(cs) \in Seq(Int)
         /\ Len(CellBytes(cs)) = Sum([i \in DOMAIN cs |-> IF cs[i] = Null THEN 1 ELSE 1 + Len(cs[i])])
<1> DEFINE n  == Len(cs)
           ss == CellUnits(cs)
           ns == [i \in DOMAIN cs |-> IF cs[i] = Null THEN 1 ELSE 1 + Len(cs[i])]
<1>1. ss \in Seq(Seq(Int)) /\ Len(ss) = n /\ n \in Nat /\ DOMAIN cs = 1..n
  BY UnitsTyped
<1>2. PICK g : Grows(Int, ss, g) /\ FlattenSeq(ss) = g[n]
  <2>1. \E g : Grows(Int, ss, g) /\ FlattenSeq(ss) = g[Len(ss)]
    <3> HIDE DEF ss
    <3> QED BY <1>1, Grown
  <2> QED BY <1>1, <2>1
<1>3. CellBytes(cs) = g[n]
  BY <1>2 DEF CellBytes, CellUnits
<1>4. g \in [0..n -> Seq(Int)] /\ g[0] = <<>>
  BY <1>1, <1>2 DEF Grows
<1> DEFINE x == [i \in 0..n |-> Len(g[i])]
<1>5. x \in [0..n -> Nat] /\ x[0] = 0
  <2>1. \A i \in 0..n : g[i] \in Seq(Int) /\ Len(g[i]) \in Nat
    BY <1>4
  <2> QED BY <1>1, <1>4, <2>1
<1>6. ASSUME NEW i \in 1..n PROVE x[i] = x[i - 1] + ns[i]
  <2>1. GrowsAt(Int, ss, g, i)
    <3> HIDE DEF ss
    <3> QED BY <1>1, <1>2, GrowsBy
  <2>2. Len(g[i]) = Len(g[i - 1]) + Len(ss[i]) /\ i - 1 \in 0..n /\ i \in 0..n
    BY <1>1, <2>1 DEF GrowsAt
  <2>3. Len(ss[i]) = ns[i]
    <3>1. UnitAt(cs, ss, i)
      BY UnitsTyped
    <3>2. ns[i] = IF cs[i] = Null THEN 1 ELSE 1 + Len(cs[i])
      BY <1>1
    <3>3. CASE cs[i] = Null
      BY <3>1, <3>2, <3>3 DEF UnitAt
    <3>4. CASE cs[i] # Null
      <4>1. Len(ss[i]) = Len(cs[i]) + 1 /\ Len(cs[i]) \in Nat
        BY <3>1, <3>4 DEF UnitAt
      <4> HIDE DEF ss, ns
      <4> QED BY <3>2, <3>4, <4>1
    <3> QED BY <3>3, <3>4
  <2> HIDE DEF ss, ns
  <2> QED BY <2>2, <2>3
<1>7. Len(ns) = n
  BY <1>1
<1> HIDE DEF x, ns
<1>8. Sum(ns) = x[n]
  BY <1>1, <1>5, <1>6, <1>7, SumIs
<1>9. x[n] = Len(g[n])
  BY <1>1 DEF x
<1>10. g[n] \in Seq(Int)
  BY <1>1, <1>4
<1> QED BY <1>3, <1>8, <1>9, <1>10 DEF ns

LEMMA SaysBind ==
  ASSUME NEW p \in Seq(Int), NEW s \in Seq(Int), NEW fmts \in Seq(Int), NEW cs \in Seq(Seq(Int) \cup {Null}),
         NEW results \in Seq(Int)
  PROVE  Fits(EncodeBind(p, s, fmts, cs, results))
<1> DEFINE sum == Sum([i \in DOMAIN cs |-> IF cs[i] = Null THEN 1 ELSE 1 + Len(cs[i])])
           n == 1 + Len(p) + 1 + Len(s) + 1 + 1 + Len(fmts) + 1 + sum + 1 + Len(results)
           v  == CellBytes(cs)
           m1 == <<"B", n>>
           m2 == m1 \o Z(p)
           m3 == m2 \o Z(s)
           m4 == m3 \o <<Len(fmts)>>
           m5 == m4 \o fmts
           m6 == m5 \o <<Len(cs)>>
           m7 == m6 \o v
           m8 == m7 \o <<Len(results)>>
           m9 == m8 \o results
<1>1. v \in Seq(Int) /\ Len(v) = sum
  BY ValuesFit
<1>2. EncodeBind(p, s, fmts, cs, results) = m9
  BY DEF EncodeBind
<1> HIDE DEF sum, v
<1>3. /\ Len(p) \in Nat /\ Len(s) \in Nat /\ Len(fmts) \in Nat /\ Len(results) \in Nat /\ Len(cs) \in Nat
      /\ sum \in Nat /\ n \in Nat
  <2>1. Len(v) \in Nat
    BY <1>1
  <2> QED BY <1>1, <2>1
<1>4. /\ Z(p) \in Seq(ClientUnit) /\ Len(Z(p)) = Len(p) + 1
      /\ Z(s) \in Seq(ClientUnit) /\ Len(Z(s)) = Len(s) + 1
      /\ fmts \in Seq(ClientUnit) /\ results \in Seq(ClientUnit) /\ v \in Seq(ClientUnit)
  BY <1>1, Strung
<1>5. /\ <<Len(fmts)>> \in Seq(ClientUnit) /\ Len(<<Len(fmts)>>) = 1
      /\ <<Len(cs)>> \in Seq(ClientUnit) /\ Len(<<Len(cs)>>) = 1
      /\ <<Len(results)>> \in Seq(ClientUnit) /\ Len(<<Len(results)>>) = 1
  BY <1>3, OneTyped
<1>6. Says(m1, n) /\ Len(m1) = 2
  <2>1. n \in Nat /\ "B" \in ClientKinds
    BY <1>3 DEF ClientKinds
  <2> HIDE DEF n
  <2> QED BY <2>1, SaysFirst
<1> HIDE DEF n, m1
<1>7. Says(m2, n) /\ Len(m2) = Len(m1) + Len(Z(p))
  BY <1>4, <1>6, SaysStill
<1> HIDE DEF m2
<1>8. Says(m3, n) /\ Len(m3) = Len(m2) + Len(Z(s))
  BY <1>4, <1>7, SaysStill
<1> HIDE DEF m3
<1>9. Says(m4, n) /\ Len(m4) = Len(m3) + 1
  BY <1>5, <1>8, SaysStill
<1> HIDE DEF m4
<1>10. Says(m5, n) /\ Len(m5) = Len(m4) + Len(fmts)
  BY <1>4, <1>9, SaysStill
<1> HIDE DEF m5
<1>11. Says(m6, n) /\ Len(m6) = Len(m5) + 1
  BY <1>5, <1>10, SaysStill
<1> HIDE DEF m6
<1>12. Says(m7, n) /\ Len(m7) = Len(m6) + Len(v)
  BY <1>4, <1>11, SaysStill
<1> HIDE DEF m7
<1>13. Says(m8, n) /\ Len(m8) = Len(m7) + 1
  BY <1>5, <1>12, SaysStill
<1> HIDE DEF m8
<1>14. Says(m9, n) /\ Len(m9) = Len(m8) + Len(results)
  BY <1>4, <1>13, SaysStill
<1> HIDE DEF m9
<1>15. Len(m9) = n + 1
  BY <1>1, <1>3, <1>4, <1>6, <1>7, <1>8, <1>9, <1>10, <1>11, <1>12, <1>13, <1>14 DEF n
<1> QED BY <1>2, <1>3, <1>14, <1>15 DEF Fits

\* The startup message begins with the length of all of it.
LEMMA StartupFits ==
  ASSUME NEW a \in Seq(Int), NEW b \in Seq(Int), NEW extra \in Seq(Seq(Int) \X Seq(Int))
  PROVE  EncodeStartup(a, b, extra)[1] = Len(EncodeStartup(a, b, extra))
<1> DEFINE N  == 2 + Len(extra)
           ss == [i \in 1..N |->
                    IF i = 1 THEN Z(<<117>>) \o Z(a) ELSE IF i = 2 THEN Z(<<100>>) \o Z(b)
                    ELSE Z(extra[i - 2][1]) \o Z(extra[i - 2][2])]
           v  == FlattenSeq(ss)
           body == <<3>> \o v \o <<0>>
<1>1. \A x \in Seq(Int) : Z(x) \in Seq(Int)
  BY AppendProperties DEF Z
<1>2. N \in Nat /\ ss \in Seq(Seq(Int))
  <2>1. N \in Nat
    OBVIOUS
  <2>2. ASSUME NEW i \in 1..N PROVE ss[i] \in Seq(Int)
    <3>1. \A x, y \in Seq(Int) : Z(x) \o Z(y) \in Seq(Int)
      BY <1>1, ConcatProperties
    <3> DEFINE user == <<117>>
               database == <<100>>
    <3>5. Z(user) \o Z(a) \in Seq(Int) /\ Z(database) \o Z(b) \in Seq(Int)
      <4>1. user \in Seq(Int) /\ database \in Seq(Int)
        OBVIOUS
      <4> HIDE DEF user, database
      <4> QED BY <3>1, <4>1
    <3>2. CASE i = 1
      BY <3>2, <3>5
    <3>3. CASE i = 2
      BY <3>3, <3>5
    <3>4. CASE i # 1 /\ i # 2
      <4>1. i - 2 \in 1..Len(extra)
        BY <3>4
      <4>2. extra[i - 2] \in Seq(Int) \X Seq(Int)
        BY <4>1
      <4>3. extra[i - 2][1] \in Seq(Int) /\ extra[i - 2][2] \in Seq(Int)
        BY <4>2
      <4> QED BY <3>1, <3>4, <4>3
    <3> QED BY <3>2, <3>3, <3>4
  <2>3. ss \in [1..N -> Seq(Int)]
    <3>1. ss = [i \in 1..N |-> ss[i]]
      OBVIOUS
    <3> HIDE DEF ss
    <3> QED BY <2>2, <3>1
  <2> HIDE DEF ss, N
  <2> QED BY <2>1, <2>3
<1>3. v \in Seq(Int)
  <2> HIDE DEF ss
  <2>1. PICK g : Grows(Int, ss, g) /\ FlattenSeq(ss) = g[Len(ss)]
    BY <1>2, Grown
  <2>2. Len(ss) \in 0..Len(ss)
    BY <1>2
  <2> QED BY <2>1, <2>2 DEF Grows
<1>4. EncodeStartup(a, b, extra) = <<1 + Len(body)>> \o body
  BY DEF EncodeStartup
<1> HIDE DEF v
<1>5. body \in Seq(Int)
  BY <1>3
<1> HIDE DEF body
<1>6. Len(<<1 + Len(body)>> \o body) = 1 + Len(body) /\ (<<1 + Len(body)>> \o body)[1] = 1 + Len(body)
  BY <1>5
<1> QED BY <1>4, <1>6

\* encode_message works out each length before the body is there (frontend.rs:14-165). It is that of what
\* follows, so the server finds the next message behind each of these, whatever it carries. The startup message,
\* which has no tag, begins with its length.
THEOREM RequestsFramed ==
  \A a, b, c, d \in Seq(Int), cs \in Seq(Seq(Int) \cup {Null}), i \in Int, tag \in ClientKinds :
    /\ \A m \in {EncodeParse(a, b, c), EncodeBind(a, b, c, cs, d), EncodeExecute(a, i), EncodeInitial(a, b),
                 EncodeEmpty(tag), EncodeString(tag, a), EncodeBytes(tag, a), EncodeKind(tag, i, a)} :
         m[2] = Len(m) - 1 /\ \A rest \in Seq(ClientUnit) : PastFrame(m \o rest, m[2]) = rest
    /\ \A extra \in Seq(Seq(Int) \X Seq(Int)) : EncodeStartup(a, b, extra)[1] = Len(EncodeStartup(a, b, extra))
<1> SUFFICES ASSUME NEW a \in Seq(Int), NEW b \in Seq(Int), NEW c \in Seq(Int), NEW d \in Seq(Int),
                    NEW cs \in Seq(Seq(Int) \cup {Null}), NEW i \in Int, NEW tag \in ClientKinds
             PROVE  /\ \A m \in {EncodeParse(a, b, c), EncodeBind(a, b, c, cs, d), EncodeExecute(a, i),
                                 EncodeInitial(a, b), EncodeEmpty(tag), EncodeString(tag, a), EncodeBytes(tag, a),
                                 EncodeKind(tag, i, a)} :
                         m[2] = Len(m) - 1 /\ \A rest \in Seq(ClientUnit) : PastFrame(m \o rest, m[2]) = rest
                    /\ \A extra \in Seq(Seq(Int) \X Seq(Int)) :
                         EncodeStartup(a, b, extra)[1] = Len(EncodeStartup(a, b, extra))
  OBVIOUS
<1>1. Fits(EncodeParse(a, b, c))
  BY SaysParse DEF Fits
<1>2. Fits(EncodeExecute(a, i))
  BY SaysExecute DEF Fits
<1>3. Fits(EncodeInitial(a, b))
  BY SaysInitial DEF Fits
<1>4. Fits(EncodeEmpty(tag)) /\ Fits(EncodeString(tag, a)) /\ Fits(EncodeBytes(tag, a)) /\ Fits(EncodeKind(tag, i, a))
  BY SaysOne DEF Fits
<1>5. Fits(EncodeBind(a, b, c, cs, d))
  BY SaysBind
<1>6. ASSUME NEW m \in {EncodeParse(a, b, c), EncodeBind(a, b, c, cs, d), EncodeExecute(a, i), EncodeInitial(a, b),
                        EncodeEmpty(tag), EncodeString(tag, a), EncodeBytes(tag, a), EncodeKind(tag, i, a)}
      PROVE  m[2] = Len(m) - 1 /\ \A rest \in Seq(ClientUnit) : PastFrame(m \o rest, m[2]) = rest
  <2>1. Fits(m)
    BY <1>1, <1>2, <1>3, <1>4, <1>5, <1>6
  <2> QED BY <2>1, SaysAll DEF Fits
<1> QED BY <1>6, StartupFits
=============================================================================
