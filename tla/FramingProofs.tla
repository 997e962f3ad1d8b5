---------------------------- MODULE FramingProofs ----------------------------
(***************************************************************************)
(* A connection is a channel of messages, for any number of connections,   *)
(* lengths of messages and of heads.                                       *)
(***************************************************************************)
EXTENDS Framing, TLAPS

\* The messages of a client lie one behind the other in its stream.
Laid ==
    \A c \in Conns :
       /\ \A i, j \in DOMAIN sent[c] :
             i < j => sent[c][i].from + sent[c][i].size <= sent[c][j].from
       /\ \A i \in DOMAIN sent[c] :
             /\ sent[c][i].from + sent[c][i].size <= written[c]
             /\ Begin(c, i + 1) = sent[c][i].from + sent[c][i].size

\* The next message, and how much of the stream there is.
Bounded ==
    \A c \in Conns :
       /\ read[c] <= arrived[c] /\ arrived[c] <= written[c]
       /\ Len(taken[c]) <= Len(sent[c])
       /\ Begin(c, 1) = 0

\* Where recv_cb is in the message it reads.
InMessage ==
    Receiving =>
       /\ watched[cur]
       /\ pc = "head" =>
             /\ read[cur] + left = Begin(cur, Len(taken[cur]) + 1) + HeadLen
             /\ left = HeadLen => gone[cur] \/ read[cur] < arrived[cur]
       /\ pc = "body" =>
             /\ Len(taken[cur]) < Len(sent[cur])
             /\ size = sent[cur][Len(taken[cur]) + 1].size
             /\ read[cur] + left = Begin(cur, Len(taken[cur]) + 1) + size

Prefix == \A c \in Conns : \A i \in DOMAIN taken[c] : taken[c][i] = sent[c][i]

IInv == TypeOK /\ Laid /\ Bounded /\ Aligned /\ InMessage /\ Prefix

-----------------------------------------------------------------------------
(* Types.                                                                  *)

LEMMA SizesArePositive ==
    ASSUME FramingAssumption
    PROVE  /\ HeadLen \in Nat /\ 0 < HeadLen
           /\ \A s \in Sizes : /\ s \in Nat /\ HeadLen <= s /\ 0 < s
                               /\ s - HeadLen \in Nat /\ (s - HeadLen) + HeadLen = s
  BY DEF FramingAssumption

LEMMA MessageTypes ==
    ASSUME FramingAssumption, TypeOK, NEW c \in Conns
    PROVE  /\ Len(sent[c]) \in Nat /\ DOMAIN sent[c] = 1 .. Len(sent[c])
           /\ \A i \in 1 .. Len(sent[c]) :
                 /\ sent[c][i].from \in Nat
                 /\ sent[c][i].size \in Sizes /\ sent[c][i].size \in Nat
                 /\ HeadLen <= sent[c][i].size /\ 0 < sent[c][i].size
           /\ \A k \in Nat \ {0} : Begin(c, k) \in Nat
<1>1. sent[c] \in Seq(Messages) /\ written[c] \in Nat
  BY DEF TypeOK
<1>2. \A i \in 1 .. Len(sent[c]) : sent[c][i] \in Messages
  BY <1>1
<1>3. \A m \in Messages : /\ m.from \in Nat /\ m.size \in Sizes /\ m.size \in Nat
                          /\ HeadLen <= m.size /\ 0 < m.size
  <2> SUFFICES ASSUME NEW m \in Messages
               PROVE  /\ m.from \in Nat /\ m.size \in Sizes /\ m.size \in Nat
                      /\ HeadLen <= m.size /\ 0 < m.size
    OBVIOUS
  <2>1. m.from \in Nat /\ m.size \in Sizes
    BY DEF Messages
  <2>2. QED
    BY <2>1, SizesArePositive
<1>4. QED
  BY <1>1, <1>2, <1>3 DEF Begin

LEMMA LengthsAreSizes ==
    ASSUME FramingAssumption, TypeOK, NEW c \in Conns, NEW at
    PROVE  LengthsAt(c, at) \subseteq Sizes
  BY MessageTypes DEF LengthsAt

LEMMA StepKeepsTypes ==
    FramingAssumption /\ NoConnAssumption /\ TypeOK /\ Bounded /\ InMessage /\ [Next]_vars
       => TypeOK'
<1> SUFFICES ASSUME FramingAssumption, NoConnAssumption, TypeOK, Bounded, InMessage,
                    [Next]_vars
             PROVE  TypeOK'
  OBVIOUS
<1> USE DEF TypeOK, FramingAssumption, NoConnAssumption, Receiving
<1>1. ASSUME NEW c \in Conns, NEW s \in Sizes, Send(c, s) PROVE TypeOK'
  <2>1. [from |-> written[c], size |-> s] \in Messages
    BY DEF Messages
  <2>2. Append(sent[c], [from |-> written[c], size |-> s]) \in Seq(Messages)
    BY <2>1
  <2>3. written[c] + s \in Nat
    OBVIOUS
  <2>4. QED
    BY <1>1, <2>2, <2>3 DEF Send, cb
<1>2. ASSUME NEW c \in Conns, HangUp(c) PROVE TypeOK'
  BY <1>2 DEF HangUp, cb
<1>3. ASSUME NEW c \in Conns, Arrive(c) PROVE TypeOK'
  BY <1>3 DEF Arrive, cb, client
<1>4. ASSUME NEW c \in Conns, Readable(c) PROVE TypeOK'
  BY <1>4 DEF Readable, client
<1>5. CASE Recv
  BY <1>5 DEF Recv, client
<1>6. CASE RecvEnds
  BY <1>6 DEF RecvEnds, client
<1>7. CASE HeadRead
  <2>1. size' \in Sizes
    BY <1>7, LengthsAreSizes DEF HeadRead
  <2>2. size' - HeadLen \in Nat /\ (size' - HeadLen) + HeadLen = size' /\ size' \in Nat
    BY <2>1, SizesArePositive
  <2>3. left' = size' - HeadLen /\ pc' = "body" /\ cur' = cur /\ cur # NoConn
    BY <1>7 DEF HeadRead, BodyOf
  <2>4. UNCHANGED <<sent, written, gone, arrived, read, watched, taken>>
    BY <1>7 DEF HeadRead, client
  <2>5. left' + HeadLen <= size'
    <3>1. left' + HeadLen = size'
      BY <2>2, <2>3
    <3>2. QED
      BY <2>2, <3>1
  <2>6. left' \in Nat
    BY <2>2, <2>3
  <2>7. QED
    BY <2>1, <2>3, <2>4, <2>5, <2>6
<1>8. CASE BodyRead
  <2>1. cur \in Conns /\ size \in Sizes
    BY <1>8 DEF BodyRead, InMessage, Messages
  <2>2. read[cur] - size \in Nat
    <3>1. read[cur] = Begin(cur, Len(taken[cur]) + 1) + size
      BY <1>8, <2>1 DEF BodyRead, InMessage
    <3>2. Begin(cur, Len(taken[cur]) + 1) \in Nat
      <4>1. Len(taken[cur]) + 1 \in Nat \ {0}
        BY <2>1
      <4>2. QED
        BY <2>1, <4>1, MessageTypes
    <3>3. QED
      BY <3>1, <3>2, <2>1
  <2>3. [from |-> read[cur] - size, size |-> size] \in Messages
    BY <2>1, <2>2 DEF Messages
  <2>4. Append(taken[cur], [from |-> read[cur] - size, size |-> size]) \in Seq(Messages)
    BY <2>1, <2>3
  <2>5. QED
    BY <1>8, <2>1, <2>4 DEF BodyRead, client
<1>9. CASE UNCHANGED vars
  BY <1>9 DEF vars, cb, client
<1>10. QED
  BY <1>1, <1>2, <1>3, <1>4, <1>5, <1>6, <1>7, <1>8, <1>9 DEF Next, Callback

-----------------------------------------------------------------------------
(* The stream of a client.                                                 *)

\* A message that is sent does not move the ones before it.
LEMMA BeginStays ==
    ASSUME FramingAssumption, TypeOK, NEW c \in Conns, NEW s \in Sizes, Send(c, s),
           NEW d \in Conns, NEW k \in 1 .. Len(sent[d]) + 1
    PROVE  Begin(d, k)' = Begin(d, k)
<1>1. CASE d = c
  <2>1. sent'[c] = Append(sent[c], [from |-> written[c], size |-> s])
    BY DEF Send, TypeOK
  <2>2. sent[c] \in Seq(Messages)
    BY DEF TypeOK
  <2>3. /\ Len(sent'[c]) = Len(sent[c]) + 1
        /\ \A i \in 1 .. Len(sent[c]) : sent'[c][i] = sent[c][i]
        /\ sent'[c][Len(sent[c]) + 1] = [from |-> written[c], size |-> s]
    BY <2>1, <2>2
  <2>4. CASE k <= Len(sent[c])
    BY <1>1, <2>2, <2>3, <2>4 DEF Begin
  <2>5. CASE k = Len(sent[c]) + 1
    BY <1>1, <2>2, <2>3, <2>5 DEF Begin
  <2>6. QED
    BY <1>1, <2>2, <2>4, <2>5
<1>2. CASE d # c
  BY <1>2 DEF Send, TypeOK, Begin
<1>3. QED
  BY <1>1, <1>2

LEMMA StepKeepsLaid ==
    FramingAssumption /\ TypeOK /\ Laid /\ Bounded /\ [Next]_vars => Laid'
<1> SUFFICES ASSUME FramingAssumption, TypeOK, Laid, Bounded, [Next]_vars PROVE Laid'
  OBVIOUS
<1>1. ASSUME NEW c \in Conns, NEW s \in Sizes, Send(c, s) PROVE Laid'
  <2> SUFFICES ASSUME NEW d \in Conns
               PROVE  /\ \A i, j \in DOMAIN sent'[d] :
                            i < j => sent'[d][i].from + sent'[d][i].size <= sent'[d][j].from
                      /\ \A i \in DOMAIN sent'[d] :
                            /\ sent'[d][i].from + sent'[d][i].size <= written'[d]
                            /\ Begin(d, i + 1)' = sent'[d][i].from + sent'[d][i].size
    BY DEF Laid
  <2>1. CASE d # c
    BY <1>1, <2>1 DEF Send, TypeOK, Laid, Begin
  <2>2. CASE d = c
    <3> DEFINE m == [from |-> written[c], size |-> s]
               n == Len(sent[c])
    <3>1. sent'[c] = Append(sent[c], m) /\ written'[c] = written[c] + s
      BY <1>1 DEF Send, TypeOK
    <3>2. sent[c] \in Seq(Messages) /\ n \in Nat /\ written[c] \in Nat /\ s \in Nat
      BY DEF TypeOK, FramingAssumption
    <3>3. /\ Len(sent'[c]) = n + 1 /\ DOMAIN sent'[c] = 1 .. n + 1
          /\ DOMAIN sent[c] = 1 .. n
          /\ \A i \in 1 .. n : sent'[c][i] = sent[c][i]
          /\ sent'[c][n + 1] = m
      BY <3>1, <3>2
    <3>4. \A i \in 1 .. n : /\ sent[c][i].from \in Nat /\ sent[c][i].size \in Nat
                            /\ sent[c][i].from + sent[c][i].size <= written[c]
      BY <3>3, MessageTypes DEF Laid
    <3>5. \A i, j \in 1 .. n + 1 :
             i < j => sent'[c][i].from + sent'[c][i].size <= sent'[c][j].from
      <4> SUFFICES ASSUME NEW i \in 1 .. n + 1, NEW j \in 1 .. n + 1, i < j
                   PROVE  sent'[c][i].from + sent'[c][i].size <= sent'[c][j].from
        OBVIOUS
      <4>1. i \in 1 .. n
        BY <3>2
      <4>2. CASE j = n + 1
        BY <4>1, <4>2, <3>3, <3>4
      <4>3. CASE j # n + 1
        <5>1. j \in 1 .. n
          BY <3>2, <4>3
        <5>2. QED
          BY <4>1, <5>1, <3>3 DEF Laid
      <4>4. QED
        BY <4>2, <4>3
    <3>6. \A i \in 1 .. n + 1 : sent'[c][i].from + sent'[c][i].size <= written'[c]
      <4> SUFFICES ASSUME NEW i \in 1 .. n + 1
                   PROVE  sent'[c][i].from + sent'[c][i].size <= written'[c]
        OBVIOUS
      <4>1. CASE i = n + 1
        BY <4>1, <3>1, <3>2, <3>3
      <4>2. CASE i # n + 1
        <5>1. i \in 1 .. n
          BY <3>2, <4>2
        <5>2. QED
          BY <5>1, <3>1, <3>2, <3>3, <3>4
      <4>3. QED
        BY <4>1, <4>2
    <3>7. \A i \in 1 .. n + 1 : Begin(c, i + 1)' = sent'[c][i].from + sent'[c][i].size
      <4> SUFFICES ASSUME NEW i \in 1 .. n + 1
                   PROVE  Begin(c, i + 1)' = sent'[c][i].from + sent'[c][i].size
        OBVIOUS
      <4>1. CASE i = n + 1
        <5>1. Begin(c, i + 1)' = written'[c]
          BY <4>1, <3>2, <3>3 DEF Begin
        <5>2. QED
          BY <4>1, <5>1, <3>1, <3>2, <3>3
      <4>2. CASE i # n + 1
        <5>1. i \in 1 .. n /\ i + 1 \in 1 .. n + 1
          BY <3>2, <4>2
        <5>2. Begin(c, i + 1)' = Begin(c, i + 1)
          BY <1>1, <5>1, BeginStays
        <5>3. QED
          BY <5>1, <5>2, <3>3 DEF Laid
      <4>3. QED
        BY <4>1, <4>2
    <3>8. QED
      BY <2>2, <3>3, <3>5, <3>6, <3>7
  <2>3. QED
    BY <2>1, <2>2
<1>2. ASSUME UNCHANGED <<sent, written>> PROVE Laid'
  BY <1>2 DEF Laid, Begin
<1>3. QED
  BY <1>1, <1>2 DEF Next, Callback, HangUp, Arrive, Readable, Recv, RecvEnds, HeadRead,
                    BodyRead, vars, client

-----------------------------------------------------------------------------
(* Where recv_cb is in the stream.                                         *)

LEMMA StepKeepsBounded ==
    FramingAssumption /\ NoConnAssumption /\ TypeOK /\ Bounded /\ InMessage /\ [Next]_vars
       => Bounded'
<1> SUFFICES ASSUME FramingAssumption, NoConnAssumption, TypeOK, Bounded, InMessage,
                    [Next]_vars
             PROVE  Bounded'
  OBVIOUS
<1>1. ASSUME NEW c \in Conns, NEW s \in Sizes, Send(c, s) PROVE Bounded'
  <2> SUFFICES ASSUME NEW d \in Conns
               PROVE  /\ read'[d] <= arrived'[d] /\ arrived'[d] <= written'[d]
                      /\ Len(taken'[d]) <= Len(sent'[d])
                      /\ Begin(d, 1)' = 0
    BY DEF Bounded
  <2>1. Begin(d, 1)' = 0
    <3>1. 1 \in 1 .. Len(sent[d]) + 1
      BY MessageTypes
    <3>2. QED
      BY <1>1, <3>1, BeginStays DEF Bounded
  <2>2. Len(taken[d]) <= Len(sent'[d])
    <3>1. Len(taken[d]) \in Nat /\ Len(sent[d]) \in Nat
      BY DEF TypeOK
    <3>2. Len(sent'[d]) \in {Len(sent[d]), Len(sent[d]) + 1}
      BY <1>1 DEF Send, TypeOK
    <3>3. QED
      BY <3>1, <3>2 DEF Bounded
  <2>3. written[d] <= written'[d]
    BY <1>1, SizesArePositive DEF Send, TypeOK
  <2>4. written'[d] \in Nat
    BY <1>1, SizesArePositive DEF Send, TypeOK
  <2>5. QED
    BY <1>1, <2>1, <2>2, <2>3, <2>4 DEF Send, Bounded, TypeOK
<1>2. ASSUME NEW c \in Conns, HangUp(c) \/ Readable(c) PROVE Bounded'
  BY <1>2 DEF HangUp, Readable, Bounded, Begin, client
<1>3. ASSUME NEW c \in Conns, Arrive(c) PROVE Bounded'
  BY <1>3 DEF Arrive, Bounded, Begin, TypeOK, client
<1>4. CASE Recv
  <2>1. cur \in Conns
    BY <1>4 DEF Recv, TypeOK, NoConnAssumption
  <2>2. QED
    BY <1>4, <2>1 DEF Recv, Bounded, Begin, TypeOK, client
<1>5. CASE RecvEnds \/ HeadRead
  BY <1>5 DEF RecvEnds, HeadRead, Bounded, Begin, client
<1>6. CASE BodyRead
  <2>1. cur \in Conns /\ Len(taken[cur]) < Len(sent[cur])
    BY <1>6 DEF BodyRead, TypeOK, InMessage, Receiving
  <2>2. \A d \in Conns : Len(taken'[d]) <= Len(sent[d])
    BY <1>6, <2>1 DEF BodyRead, Bounded, TypeOK
  <2>3. QED
    BY <1>6, <2>2 DEF BodyRead, Bounded, Begin, client
<1>7. CASE UNCHANGED vars
  BY <1>7 DEF vars, client, cb, Bounded, Begin
<1>8. QED
  BY <1>1, <1>2, <1>3, <1>4, <1>5, <1>6, <1>7 DEF Next, Callback

\* The four bytes that recv_cb takes for a length are the head of the next
\* message.
LEMMA HeadIsRead ==
    ASSUME FramingAssumption, NoConnAssumption, TypeOK, Laid, Bounded, InMessage, HeadRead
    PROVE  /\ cur \in Conns
           /\ Len(taken[cur]) < Len(sent[cur])
           /\ read[cur] = Begin(cur, Len(taken[cur]) + 1) + HeadLen
           /\ size' = sent[cur][Len(taken[cur]) + 1].size
<1> DEFINE k == Len(taken[cur]) + 1
<1>1. cur \in Conns /\ left = 0
  BY DEF HeadRead, TypeOK, Receiving
<1>2. k \in Nat \ {0} /\ k <= Len(sent[cur]) + 1 /\ Len(sent[cur]) \in Nat
  BY <1>1 DEF TypeOK, Bounded
<1>3. read[cur] \in Nat /\ Begin(cur, k) \in Nat /\ written[cur] \in Nat /\ HeadLen \in Nat
  BY <1>1, <1>2, MessageTypes, SizesArePositive DEF TypeOK
<1>4. read[cur] = Begin(cur, k) + HeadLen
  <2>1. read[cur] + left = Begin(cur, k) + HeadLen
    BY <1>1 DEF HeadRead, InMessage, Receiving
  <2>2. QED
    BY <1>1, <1>3, <2>1
<1>5. read[cur] <= written[cur]
  BY <1>1 DEF Bounded, TypeOK
<1>6. k <= Len(sent[cur])
  <2> SUFFICES ASSUME k > Len(sent[cur]) PROVE FALSE
    BY <1>2
  <2>1. Begin(cur, k) = written[cur]
    BY <1>2 DEF Begin
  <2>2. QED
    BY <1>3, <1>4, <1>5, <2>1, SizesArePositive
<1>7. k \in 1 .. Len(sent[cur]) /\ Begin(cur, k) = sent[cur][k].from
  BY <1>2, <1>6 DEF Begin
<1>8. \A i \in 1 .. Len(sent[cur]) : sent[cur][i].from = Begin(cur, k) => i = k
  <2> SUFFICES ASSUME NEW i \in 1 .. Len(sent[cur]), sent[cur][i].from = sent[cur][k].from,
                      i # k
               PROVE  FALSE
    BY <1>7
  <2>1. DOMAIN sent[cur] = 1 .. Len(sent[cur])
    BY <1>1, MessageTypes
  <2>2. CASE i < k
    <3>1. sent[cur][i].from + sent[cur][i].size <= sent[cur][k].from
      BY <1>1, <1>7, <2>1, <2>2 DEF Laid
    <3>2. QED
      BY <1>1, <3>1, <1>7, MessageTypes
  <2>3. CASE k < i
    <3>1. sent[cur][k].from + sent[cur][k].size <= sent[cur][i].from
      BY <1>1, <1>7, <2>1, <2>3 DEF Laid
    <3>2. QED
      BY <1>1, <3>1, <1>7, MessageTypes
  <2>4. QED
    BY <1>2, <2>2, <2>3
<1>9. read[cur] - HeadLen = Begin(cur, k)
  BY <1>3, <1>4
<1>10. LengthsAt(cur, Begin(cur, k)) = {sent[cur][k].size}
  <2>1. DOMAIN sent[cur] = 1 .. Len(sent[cur])
    BY <1>1, MessageTypes
  <2>2. {i \in DOMAIN sent[cur] : sent[cur][i].from = Begin(cur, k)} = {k}
    BY <1>7, <1>8, <2>1
  <2>3. QED
    BY <2>2 DEF LengthsAt
<1>11. size' \in LengthsAt(cur, Begin(cur, k))
  BY <1>9 DEF HeadRead
<1>12. Len(taken[cur]) < Len(sent[cur])
  BY <1>1, <1>2, <1>6 DEF TypeOK
<1>13. QED
  BY <1>1, <1>4, <1>10, <1>11, <1>12

LEMMA TakenTypes ==
    ASSUME TypeOK, Bounded, NEW c \in Conns
    PROVE  /\ Len(taken[c]) \in Nat
           /\ Len(taken[c]) + 1 \in Nat \ {0}
           /\ Len(taken[c]) + 1 \in 1 .. Len(sent[c]) + 1
           /\ DOMAIN taken[c] = 1 .. Len(taken[c])
  BY DEF TypeOK, Bounded

\* What recv_cb takes is the next message.
LEMMA NextIsTaken ==
    ASSUME FramingAssumption, NoConnAssumption, TypeOK, Laid, Bounded, InMessage, BodyRead
    PROVE  /\ cur \in Conns
           /\ Len(taken[cur]) < Len(sent[cur])
           /\ read[cur] = Begin(cur, Len(taken[cur]) + 2)
           /\ [from |-> read[cur] - size, size |-> size] = sent[cur][Len(taken[cur]) + 1]
<1> DEFINE k == Len(taken[cur]) + 1
<1>1. /\ cur \in Conns /\ left = 0 /\ Len(taken[cur]) < Len(sent[cur])
      /\ size = sent[cur][k].size
      /\ read[cur] + left = Begin(cur, k) + size
  BY DEF BodyRead, InMessage, TypeOK, Receiving
<1>2. /\ k \in 1 .. Len(sent[cur]) /\ k \in Nat \ {0} /\ k + 1 = Len(taken[cur]) + 2
      /\ DOMAIN sent[cur] = 1 .. Len(sent[cur])
      /\ Len(sent[cur]) \in Nat
  BY <1>1, TakenTypes, MessageTypes
<1>3. Begin(cur, k) = sent[cur][k].from
  BY <1>2 DEF Begin
<1>4. size \in Nat /\ Begin(cur, k) \in Nat /\ read[cur] \in Nat
  BY <1>1, <1>2, MessageTypes DEF TypeOK
<1>5. read[cur] = sent[cur][k].from + sent[cur][k].size
  BY <1>1, <1>3, <1>4
<1>6. read[cur] = Begin(cur, k + 1)
  BY <1>1, <1>2, <1>5 DEF Laid
<1>7. read[cur] - size = sent[cur][k].from
  BY <1>1, <1>3, <1>4, <1>5
<1>8. sent[cur][k] = [from |-> sent[cur][k].from, size |-> sent[cur][k].size]
  <2>1. sent[cur] \in Seq(Messages)
    BY <1>1 DEF TypeOK
  <2>2. sent[cur][k] \in Messages
    BY <1>2, <2>1
  <2>3. QED
    BY <2>2 DEF Messages
<1>9. QED
  BY <1>1, <1>2, <1>6, <1>7, <1>8

LEMMA StepKeepsPlace ==
    FramingAssumption /\ NoConnAssumption /\ TypeOK /\ Laid /\ Bounded /\ Aligned
       /\ InMessage /\ [Next]_vars
       => Aligned' /\ InMessage'
<1> SUFFICES ASSUME FramingAssumption, NoConnAssumption, TypeOK, Laid, Bounded, Aligned,
                    InMessage, [Next]_vars
             PROVE  Aligned' /\ InMessage'
  OBVIOUS
<1>0. Receiving => cur \in Conns
  BY DEF TypeOK, Receiving
<1>1. ASSUME NEW c \in Conns, NEW s \in Sizes, Send(c, s) PROVE Aligned' /\ InMessage'
  <2>1. \A d \in Conns : Begin(d, Len(taken[d]) + 1)' = Begin(d, Len(taken[d]) + 1)
    BY <1>1, BeginStays, TakenTypes DEF Send
  <2>2. UNCHANGED <<gone, arrived, read, watched, taken, pc, cur, left, size>>
    BY <1>1 DEF Send, cb
  <2>3. Aligned'
    BY <2>1, <2>2 DEF Aligned
  <2>4. ASSUME Receiving, pc = "body"
        PROVE  /\ Len(taken[cur]) < Len(sent'[cur])
               /\ sent'[cur][Len(taken[cur]) + 1] = sent[cur][Len(taken[cur]) + 1]
    <3>1. Len(taken[cur]) < Len(sent[cur]) /\ Len(taken[cur]) \in Nat
          /\ sent[cur] \in Seq(Messages)
      BY <1>0, <2>4 DEF InMessage, TypeOK
    <3>2. \/ sent'[cur] = sent[cur]
          \/ sent'[cur] = Append(sent[cur], [from |-> written[cur], size |-> s])
      BY <1>0, <1>1, <2>4 DEF Send, TypeOK
    <3>3. QED
      BY <3>1, <3>2
  <2>5. InMessage'
    BY <1>0, <2>1, <2>2, <2>4 DEF InMessage, Receiving
  <2>6. QED
    BY <2>3, <2>5
<1>2. ASSUME NEW c \in Conns, HangUp(c) \/ Arrive(c) PROVE Aligned' /\ InMessage'
  <2>1. UNCHANGED <<sent, written, read, watched, taken, pc, cur, left, size>>
    BY <1>2 DEF HangUp, Arrive, client, cb
  <2>2. CASE HangUp(c)
    <3>1. \A d \in Conns : gone[d] => gone'[d]
      BY <2>2 DEF HangUp, TypeOK
    <3>2. QED
      BY <1>0, <2>1, <2>2, <3>1 DEF HangUp, Aligned, InMessage, Receiving, Begin
  <2>3. CASE Arrive(c)
    <3>1. PICK n \in arrived[c] + 1 .. written[c] : arrived' = [arrived EXCEPT ![c] = n]
      BY <2>3 DEF Arrive
    <3>2. \A d \in Conns : read[d] < arrived[d] => read[d] < arrived'[d]
      BY <3>1 DEF TypeOK
    <3>3. gone' = gone
      BY <2>3 DEF Arrive, client
    <3>4. QED
      BY <1>0, <2>1, <3>2, <3>3 DEF Aligned, InMessage, Receiving, Begin
  <2>4. QED
    BY <1>2, <2>2, <2>3
<1>3. ASSUME NEW c \in Conns, Readable(c) PROVE Aligned' /\ InMessage'
  <2>1. UNCHANGED <<sent, written, read, watched, taken>> /\ pc = "idle" /\ watched[c]
        /\ pc' = "head" /\ cur' = c /\ left' = HeadLen
        /\ UNCHANGED <<gone, arrived>> /\ (gone[c] \/ read[c] < arrived[c])
    BY <1>3 DEF Readable, client
  <2>2. c # cur
    BY <2>1 DEF TypeOK, NoConnAssumption, Receiving
  <2>3. cur \notin Conns
    BY <2>1 DEF TypeOK, NoConnAssumption, Receiving
  <2>4. Aligned'
    BY <2>1, <2>3 DEF Aligned, Begin
  <2>5. InMessage'
    BY <2>1, <2>2 DEF InMessage, Aligned, Begin, Receiving
  <2>6. QED
    BY <2>4, <2>5
<1>4. CASE Recv
  <2>1. cur \in Conns /\ read[cur] \in Nat /\ left \in Nat
    BY <1>0, <1>4 DEF Recv, TypeOK
  <2>2. UNCHANGED <<sent, written, watched, taken, pc, cur, size>>
    BY <1>4 DEF Recv, client
  <2>3. \A d \in Conns : d # cur => read'[d] = read[d]
    BY <1>4 DEF Recv, TypeOK
  <2>4. read'[cur] + left' = read[cur] + left
    BY <1>4, <2>1 DEF Recv, TypeOK
  <2>5. Aligned'
    BY <2>2, <2>3 DEF Aligned, Begin
  <2>6. pc = "head" => left' # HeadLen
    <3>1. PICK n \in 1 .. left : left' = left - n
      BY <1>4 DEF Recv
    <3>2. pc = "head" => left <= HeadLen /\ HeadLen \in Nat
      BY DEF TypeOK, FramingAssumption
    <3>3. QED
      BY <2>1, <3>1, <3>2
  <2>7. InMessage'
    BY <2>2, <2>4, <2>6 DEF InMessage, Begin, Receiving
  <2>8. QED
    BY <2>5, <2>7
<1>5. CASE RecvEnds
  <2>1. UNCHANGED <<sent, written, read, taken>> /\ pc' = "idle" /\ cur' = NoConn
        /\ watched' = [watched EXCEPT ![cur] = FALSE]
    BY <1>5 DEF RecvEnds, client
  <2>2. \A d \in Conns : watched'[d] => watched[d] /\ d # cur
    BY <2>1 DEF TypeOK
  <2>3. QED
    BY <2>1, <2>2 DEF Aligned, InMessage, Receiving, Begin
<1>6. CASE HeadRead
  <2>1. /\ cur \in Conns /\ Len(taken[cur]) < Len(sent[cur])
        /\ read[cur] = Begin(cur, Len(taken[cur]) + 1) + HeadLen
        /\ size' = sent[cur][Len(taken[cur]) + 1].size
    BY <1>6, HeadIsRead
  <2>2. UNCHANGED <<sent, written, read, watched, taken, cur>> /\ pc = "head"
        /\ pc' = "body" /\ left' = size' - HeadLen
    BY <1>6 DEF HeadRead, BodyOf, client
  <2>3. Aligned'
    BY <2>2 DEF Aligned, Begin
  <2>4. size' \in Sizes /\ Begin(cur, Len(taken[cur]) + 1) \in Nat
    BY <1>6, <2>1, LengthsAreSizes, MessageTypes, TakenTypes DEF HeadRead
  <2>5. read[cur] + left' = Begin(cur, Len(taken[cur]) + 1) + size'
    <3>1. size' \in Nat /\ size' - HeadLen \in Nat /\ HeadLen \in Nat
      BY <2>4, SizesArePositive
    <3>2. QED
      BY <2>1, <2>2, <2>4, <3>1
  <2>6. watched[cur]
    BY <2>2 DEF InMessage, Receiving
  <2>7. InMessage'
    BY <2>1, <2>2, <2>5, <2>6 DEF InMessage, Begin, Receiving
  <2>8. QED
    BY <2>3, <2>7
<1>7. CASE BodyRead
  <2>1. cur \in Conns /\ read[cur] = Begin(cur, Len(taken[cur]) + 2)
    BY <1>7, NextIsTaken
  <2>2. UNCHANGED <<sent, written, read, watched>> /\ pc' = "idle" /\ cur' = NoConn
    BY <1>7 DEF BodyRead, client
  <2>3. Len(taken'[cur]) + 1 = Len(taken[cur]) + 2
    BY <1>7, <2>1 DEF BodyRead, TypeOK
  <2>4. \A d \in Conns : d # cur => taken'[d] = taken[d]
    BY <1>7 DEF BodyRead, TypeOK
  <2>5. Aligned'
    <3> SUFFICES ASSUME NEW d \in Conns, watched'[d]
                 PROVE  read'[d] = Begin(d, Len(taken[d]) + 1)'
      BY DEF Aligned
    <3>1. CASE d = cur
      BY <2>1, <2>2, <2>3, <3>1 DEF Begin
    <3>2. CASE d # cur
      BY <2>2, <2>4, <3>2 DEF Aligned, Begin
    <3>3. QED
      BY <3>1, <3>2
  <2>6. QED
    BY <2>2, <2>5 DEF InMessage, Receiving
<1>8. CASE UNCHANGED vars
  BY <1>8 DEF vars, client, cb, Aligned, InMessage, Receiving, Begin
<1>9. QED
  BY <1>1, <1>2, <1>3, <1>4, <1>5, <1>6, <1>7, <1>8 DEF Next, Callback

LEMMA StepKeepsPrefix ==
    FramingAssumption /\ NoConnAssumption /\ TypeOK /\ Laid /\ Bounded /\ InMessage /\ Prefix
       /\ [Next]_vars => Prefix'
<1> SUFFICES ASSUME FramingAssumption, NoConnAssumption, TypeOK, Laid, Bounded, InMessage,
                    Prefix, [Next]_vars
             PROVE  Prefix'
  OBVIOUS
<1>1. ASSUME NEW c \in Conns, NEW s \in Sizes, Send(c, s) PROVE Prefix'
  <2> SUFFICES ASSUME NEW d \in Conns, NEW i \in DOMAIN taken'[d]
               PROVE  taken'[d][i] = sent'[d][i]
    BY DEF Prefix
  <2>1. taken' = taken
    BY <1>1 DEF Send
  <2>2. i \in 1 .. Len(taken[d]) /\ i \in 1 .. Len(sent[d]) /\ sent[d] \in Seq(Messages)
    BY <2>1, TakenTypes DEF TypeOK
  <2>3. sent'[d] = sent[d] \/ sent'[d] = Append(sent[d], [from |-> written[c], size |-> s])
    BY <1>1 DEF Send, TypeOK
  <2>4. sent'[d][i] = sent[d][i]
    BY <2>2, <2>3
  <2>5. QED
    BY <2>1, <2>4 DEF Prefix
<1>2. CASE BodyRead
  <2> SUFFICES ASSUME NEW d \in Conns, NEW i \in DOMAIN taken'[d]
               PROVE  taken'[d][i] = sent[d][i]
    BY <1>2 DEF Prefix, BodyRead, client
  <2> DEFINE m == [from |-> read[cur] - size, size |-> size]
  <2>1. cur \in Conns /\ m = sent[cur][Len(taken[cur]) + 1]
    BY <1>2, NextIsTaken
  <2>2. CASE d # cur
    BY <1>2, <2>2 DEF BodyRead, TypeOK, Prefix
  <2>3. CASE d = cur
    <3>1. taken'[cur] = Append(taken[cur], m) /\ taken[cur] \in Seq(Messages)
      BY <1>2, <2>1 DEF BodyRead, TypeOK
    <3>2. CASE i = Len(taken[cur]) + 1
      BY <2>1, <2>3, <3>1, <3>2
    <3>3. CASE i # Len(taken[cur]) + 1
      <4>1. i \in DOMAIN taken[cur] /\ taken'[cur][i] = taken[cur][i]
        BY <2>3, <3>1, <3>3
      <4>2. QED
        BY <2>1, <2>3, <4>1 DEF Prefix
    <3>4. QED
      BY <3>2, <3>3
  <2>4. QED
    BY <2>2, <2>3
<1>3. ASSUME UNCHANGED <<sent, taken>> PROVE Prefix'
  BY <1>3 DEF Prefix
<1>4. QED
  BY <1>1, <1>2, <1>3 DEF Next, Callback, HangUp, Arrive, Readable, Recv, RecvEnds,
                          HeadRead, vars, client

-----------------------------------------------------------------------------
(* The theorems.                                                           *)

LEMMA InitIsInvariant == FramingAssumption /\ NoConnAssumption /\ Init => IInv
<1> SUFFICES ASSUME FramingAssumption, NoConnAssumption, Init PROVE IInv
  OBVIOUS
<1>1. \A c \in Conns : /\ sent[c] = <<>> /\ taken[c] = <<>> /\ written[c] = 0
                       /\ read[c] = 0 /\ arrived[c] = 0
  BY DEF Init
<1>2. TypeOK
  BY DEF Init, TypeOK, Receiving, NoConnAssumption, Messages
<1>3. \A c \in Conns : Len(sent[c]) = 0 /\ Len(taken[c]) = 0 /\ Begin(c, 1) = 0
  BY <1>1 DEF Begin
<1>4. Laid /\ Bounded /\ Aligned /\ Prefix
  BY <1>1, <1>3 DEF Laid, Bounded, Aligned, Prefix
<1>5. InMessage
  BY DEF Init, InMessage, Receiving
<1>6. QED
  BY <1>2, <1>4, <1>5 DEF IInv

LEMMA InvariantHolds == Spec => []IInv
<1>1. FramingAssumption /\ NoConnAssumption
  BY FramingAssumption, NoConnAssumption
<1>2. IInv /\ [Next]_vars => IInv'
  BY <1>1, StepKeepsTypes, StepKeepsLaid, StepKeepsBounded, StepKeepsPlace,
     StepKeepsPrefix DEF IInv
<1>3. QED
  BY <1>1, <1>2, InitIsInvariant, PTL DEF Spec

\* Types are kept, and recv_n is never asked for more than the message has.
THEOREM TypeCorrect == Spec => []TypeOK
<1>1. IInv => TypeOK
  BY DEF IInv
<1>2. QED
  BY <1>1, InvariantHolds, PTL

\* Evloop.cpp:113-137: however the network cuts the stream of a connection,
\* recv_cb begins to read at the head of a message.
THEOREM StreamsStayAligned == Spec => []Aligned
<1>1. IInv => Aligned
  BY DEF IInv
<1>2. QED
  BY <1>1, InvariantHolds, PTL

\* Evloop.cpp:113-131: no client is disconnected whose messages have arrived
\* entirely, as far as it has begun them.
THEOREM NoWholeMessageIsLate == Spec => WholeMessagesAreKept
<1>1. FramingAssumption /\ NoConnAssumption
  BY FramingAssumption, NoConnAssumption
<1>2. ASSUME FramingAssumption, NoConnAssumption, IInv, [Next]_vars, NEW c \in Conns,
             watched[c], ~watched'[c], ~gone[c]
      PROVE  \E i \in DOMAIN sent[c] :
                /\ sent[c][i].from <= read[c]
                /\ arrived[c] < sent[c][i].from + sent[c][i].size
  <2> DEFINE k == Len(taken[c]) + 1
  <2> USE <1>2 DEF IInv
  <2>1. RecvEnds
    BY DEF Next, Callback, Send, HangUp, Arrive, Readable, Recv, HeadRead, BodyRead, vars
  <2>2. /\ c = cur /\ left > 0 /\ read[c] = arrived[c]
        /\ left \in Nat /\ read[c] \in Nat /\ written[c] \in Nat
    BY <2>1 DEF RecvEnds, TypeOK, Receiving
  <2>3. /\ k \in Nat \ {0} /\ k <= Len(sent[c]) + 1 /\ Begin(c, k) \in Nat
        /\ Len(sent[c]) \in Nat
    BY TakenTypes, MessageTypes
  <2>4. CASE pc = "head"
    <3>1. /\ read[c] + left = Begin(c, k) + HeadLen
          /\ left <= HeadLen /\ left # HeadLen
      BY <2>2, <2>4 DEF InMessage, Receiving, TypeOK
    <3>2. HeadLen \in Nat /\ Begin(c, k) < read[c] /\ read[c] < Begin(c, k) + HeadLen
      BY <2>2, <2>3, <3>1, SizesArePositive
    <3>3. read[c] <= written[c]
      BY <2>2 DEF Bounded
    <3>4. k \in 1 .. Len(sent[c]) /\ Begin(c, k) = sent[c][k].from
      BY <2>2, <2>3, <3>2, <3>3 DEF Begin
    <3>5. /\ HeadLen <= sent[c][k].size /\ sent[c][k].size \in Nat
          /\ k \in DOMAIN sent[c]
      BY <3>4, MessageTypes
    <3>6. sent[c][k].from <= read[c] /\ arrived[c] < sent[c][k].from + sent[c][k].size
      BY <2>2, <2>3, <3>2, <3>4, <3>5
    <3>7. QED
      BY <3>5, <3>6
  <2>5. CASE pc = "body"
    <3>1. /\ read[c] + left = Begin(c, k) + size
          /\ Len(taken[c]) < Len(sent[c])
          /\ size = sent[c][k].size
          /\ left + HeadLen <= size
      BY <2>2, <2>5 DEF InMessage, Receiving, TypeOK
    <3>2. k \in 1 .. Len(sent[c]) /\ Begin(c, k) = sent[c][k].from
      BY <2>3, <3>1, TakenTypes DEF Begin
    <3>3. size \in Nat /\ k \in DOMAIN sent[c] /\ HeadLen \in Nat
      BY <3>1, <3>2, MessageTypes, SizesArePositive
    <3>4. left <= size
      BY <2>2, <3>1, <3>3
    <3>5. sent[c][k].from <= read[c] /\ arrived[c] < sent[c][k].from + sent[c][k].size
      BY <2>2, <2>3, <3>1, <3>2, <3>3, <3>4
    <3>6. QED
      BY <3>3, <3>5
  <2>6. QED
    BY <2>1, <2>4, <2>5 DEF RecvEnds, Receiving
<1>3. IInv /\ [Next]_vars =>
         [\A c \in Conns : watched[c] /\ ~watched'[c] =>
             gone[c] \/ \E i \in DOMAIN sent[c] :
                           /\ sent[c][i].from <= read[c]
                           /\ arrived[c] < sent[c][i].from + sent[c][i].size]_vars
  BY <1>1, <1>2
<1>4. QED
  BY <1>3, InvariantHolds, PTL DEF Spec, WholeMessagesAreKept

\* To recvqueue each connection is a Channel: the messages of a client come
\* whole, in order, none twice and none left out, until it is disconnected.
THEOREM ImplementsChannel == Spec => Queue!Init /\ [][Queue!Next]_Queue!vars
<1>1. FramingAssumption /\ NoConnAssumption
  BY FramingAssumption, NoConnAssumption
<1>2. Init => Queue!Init
  BY DEF Init, Queue!Init
<1>3. ASSUME FramingAssumption, NoConnAssumption, IInv, [Next]_vars
      PROVE  [Queue!Next]_Queue!vars
  <2> USE <1>3 DEF IInv
  <2>1. ASSUME NEW c \in Conns, NEW s \in Sizes, Send(c, s) PROVE Queue!Send(c)
    <3> DEFINE m == [from |-> written[c], size |-> s]
    <3>1. sent' = [sent EXCEPT ![c] = Append(@, m)] /\ sent \in [Conns -> Seq(Messages)]
          /\ UNCHANGED <<taken, watched>>
      BY <2>1 DEF Send, TypeOK
    <3>2. sent'[c] = Append(sent[c], m) /\ sent[c] \in Seq(Messages)
      BY <3>1
    <3>3. /\ Len(sent'[c]) = Len(sent[c]) + 1 /\ Len(sent[c]) \in Nat
          /\ sent'[c][Len(sent'[c])] = m
      BY <3>2
    <3>4. Len(sent'[c]) > 0
      BY <3>3
    <3>5. QED
      BY <3>1, <3>3, <3>4 DEF Queue!Send
  <2>2. CASE RecvEnds
    <3>1. cur \in Conns /\ UNCHANGED <<sent, taken>>
          /\ watched' = [watched EXCEPT ![cur] = FALSE] /\ watched \in [Conns -> BOOLEAN]
      BY <2>2 DEF RecvEnds, TypeOK, Receiving, client
    <3>2. PICK d \in Conns : d = cur
      BY <3>1
    <3>3. [c \in Conns |-> ~watched'[c]] =
             [[c \in Conns |-> ~watched[c]] EXCEPT ![d] = TRUE]
      BY <3>1, <3>2
    <3>4. Queue!Cut(d)
      BY <3>1, <3>3 DEF Queue!Cut
    <3>5. QED
      BY <3>4 DEF Queue!Next
  <2>3. CASE BodyRead
    <3>1. /\ cur \in Conns /\ Len(taken[cur]) < Len(sent[cur])
          /\ [from |-> read[cur] - size, size |-> size] = sent[cur][Len(taken[cur]) + 1]
      BY <2>3, NextIsTaken
    <3>2. watched[cur]
      BY <2>3 DEF BodyRead, InMessage, Receiving
    <3>3. /\ taken' = [taken EXCEPT ![cur] = Append(@, sent[cur][Len(@) + 1])]
          /\ UNCHANGED <<sent, watched>>
      BY <2>3, <3>1 DEF BodyRead, client
    <3>4. Queue!Take(cur)
      BY <3>1, <3>2, <3>3 DEF Queue!Take
    <3>5. QED
      BY <3>1, <3>4 DEF Queue!Next
  <2>4. ASSUME UNCHANGED <<sent, taken, watched>> PROVE UNCHANGED Queue!vars
    BY <2>4 DEF Queue!vars
  <2>5. QED
    BY <2>1, <2>2, <2>3, <2>4 DEF Next, Callback, HangUp, Arrive, Readable, Recv,
       HeadRead, vars, client, Queue!Next
<1>4. QED
  BY <1>1, <1>2, <1>3, InvariantHolds, PTL DEF Spec

=============================================================================
