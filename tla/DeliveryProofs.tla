--------------------------- MODULE DeliveryProofs ---------------------------
(***************************************************************************)
(* What TLAPS proves of Delivery: whatever the sizes of messages, however  *)
(* little a socket takes at a time, and however descriptors change hands,  *)
(* clients find messages whole and in order.                               *)
(***************************************************************************)
EXTENDS Delivery, TLAPS

\* A connection has one descriptor, and one that is still to come has received
\* nothing.
OneDescriptor ==
    /\ \A f, g \in Fds : conn[f] = conn[g] /\ conn[f] # Closed => f = g
    /\ \A c \in Conns : c > accepted => stream[c] = <<>>

\* What was sent are bytes of messages that SendTask has taken.
Sent == [post : 1 .. taken, byte : Nat \ {0}]

StreamsAreSent == stream \in [Conns -> Seq(Sent)]

Last(c) == stream[c][Len(stream[c])]

\* SendTask is at a message for descriptor f.
Busy(f) == Sending /\ posts[taken].fd = f

\* The last byte of a stream belongs to the last message for its descriptor:
\* all of it was sent, or it is the one SendTask is at.
LastByteOf(f, a) ==
    /\ posts[a.post].fd = f
    /\ \/ Busy(f) /\ a.post = taken /\ a.byte = ptr
       \/ /\ a.byte = posts[a.post].size
          /\ Busy(f) => ptr = 0 /\ a.post < taken
          /\ \A i \in a.post + 1 .. taken : posts[i].fd = f => Busy(f) /\ i = taken

LastByte ==
    \A f \in Fds : \A c \in Conns \ gone :
        conn[f] = c /\ stream[c] # <<>> => LastByteOf(f, Last(c))

\* Whoever has the descriptor of a message in the middle of it, and nothing
\* yet, came too late for its beginning.
EmptyIsHeir ==
    \A f \in Fds : \A c \in Conns \ gone :
        conn[f] = c /\ stream[c] = <<>> /\ Busy(f) /\ ptr > 0 => c \in heirs

IInv ==
    /\ TypeOK /\ OneDescriptor /\ StreamsAreSent /\ LastByte /\ EmptyIsHeir
    /\ WholeAndInOrder /\ OnlyHeirsGetTails

-----------------------------------------------------------------------------
(* Messages and bytes.                                                     *)

LEMMA ElementType ==
    ASSUME NEW S, NEW s \in Seq(S)
    PROVE  /\ Len(s) \in Nat /\ DOMAIN s = 1 .. Len(s)
           /\ \A i \in 1 .. Len(s) : s[i] \in S
  OBVIOUS

LEMMA PostTypes ==
    ASSUME DeliveryAssumption, TypeOK
    PROVE  /\ Len(posts) \in Nat /\ DOMAIN posts = 1 .. Len(posts)
           /\ \A i \in 1 .. Len(posts) :
                 posts[i].fd \in Fds /\ posts[i].size \in Nat /\ 0 < posts[i].size
           /\ taken \in Nat /\ taken <= Len(posts)
           /\ Sending => ptr \in Nat /\ ptr <= posts[taken].size /\ 0 < taken
           /\ accepted \in Nat /\ MaxConns \in Nat /\ MaxPosts \in Nat /\ Room \in Nat
<1>1. posts \in Seq([fd : Fds, size : Sizes])
  BY DEF TypeOK
<1>2. \A i \in 1 .. Len(posts) : posts[i] \in [fd : Fds, size : Sizes]
  BY <1>1, ElementType
<1>3. \A i \in 1 .. Len(posts) :
         posts[i].fd \in Fds /\ posts[i].size \in Nat /\ 0 < posts[i].size
  <2>1. ASSUME NEW m \in [fd : Fds, size : Sizes]
        PROVE  m.fd \in Fds /\ m.size \in Nat /\ 0 < m.size
    <3>1. m.fd \in Fds /\ m.size \in Sizes
      OBVIOUS
    <3>2. m.size \in Nat /\ m.size # 0
      BY <3>1 DEF DeliveryAssumption
    <3>3. QED
      BY <3>1, <3>2
  <2>2. QED
    BY <1>2, <2>1
<1>4. Len(posts) \in Nat /\ DOMAIN posts = 1 .. Len(posts)
  BY <1>1, ElementType
<1>5. taken \in Nat /\ taken <= Len(posts)
  BY <1>4 DEF TypeOK
<1>6. Sending => ptr \in Nat /\ ptr <= posts[taken].size /\ 0 < taken
  <2> SUFFICES ASSUME Sending PROVE ptr \in Nat /\ ptr <= posts[taken].size /\ 0 < taken
    OBVIOUS
  <2>1. taken > 0 /\ ptr \in 0 .. posts[taken].size
    BY DEF TypeOK, Current
  <2>2. posts[taken].size \in Nat
    BY <2>1, <1>3, <1>5
  <2>3. QED
    BY <2>1, <2>2, <1>5
<1>7. MaxConns \in Nat /\ MaxPosts \in Nat /\ Room \in Nat
  BY DEF DeliveryAssumption
<1>8. accepted \in Nat
  BY <1>7 DEF TypeOK
<1>9. QED
  BY <1>3, <1>4, <1>5, <1>6, <1>7, <1>8

\* The streams stay in order when something else happens than a send: messages
\* that are posted later do not come between earlier ones.
LEMMA OrderStays ==
    ASSUME DeliveryAssumption, TypeOK, StreamsAreSent, WholeAndInOrder,
           stream' = stream, \A i \in 1 .. taken : posts'[i] = posts[i]
    PROVE  WholeAndInOrder'
<1> SUFFICES ASSUME NEW c \in Conns, NEW k \in 2 .. Len(stream[c])
             PROVE  Follows(stream[c][k], stream[c][k - 1])'
  BY DEF WholeAndInOrder
<1> DEFINE b == stream[c][k]
           a == stream[c][k - 1]
<1>1. taken \in Nat
  BY PostTypes
<1>2. a \in Sent /\ b \in Sent
  <2>1. stream[c] \in Seq(Sent)
    BY DEF StreamsAreSent
  <2>2. Len(stream[c]) \in Nat
    BY <2>1, ElementType
  <2>3. k \in 1 .. Len(stream[c]) /\ k - 1 \in 1 .. Len(stream[c])
    BY <2>2
  <2>4. QED
    BY <2>1, <2>3, ElementType
<1>3. Follows(b, a)
  BY DEF WholeAndInOrder
<1>4. a.post \in 1 .. taken /\ b.post \in 1 .. taken
  BY <1>2 DEF Sent
<1>5. b' = b /\ a' = a
  OBVIOUS
<1>6. \A i \in a.post + 1 .. b.post - 1 : i \in 1 .. taken
  BY <1>1, <1>4
<1>7. QED
  BY <1>3, <1>4, <1>5, <1>6 DEF Follows

\* Nor does the last byte of a stream.
LEMMA LastStays ==
    ASSUME DeliveryAssumption, TypeOK, NEW f \in Fds, NEW a \in Sent, LastByteOf(f, a),
           UNCHANGED task, \A i \in 1 .. taken : posts'[i] = posts[i]
    PROVE  LastByteOf(f, a)'
<1>1. taken \in Nat /\ (Sending => 0 < taken)
  BY PostTypes
<1>2. a.post \in 1 .. taken
  BY DEF Sent
<1>3. UNCHANGED <<taken, ptr, Sending>>
  BY DEF task, Sending
<1>4. Busy(f)' = Busy(f)
  BY <1>1, <1>3 DEF Busy
<1>5. \A i \in a.post + 1 .. taken : posts'[i] = posts[i]
  BY <1>1, <1>2
<1>6. posts'[a.post] = posts[a.post]
  BY <1>2
<1>7. QED
  BY <1>2, <1>3, <1>4, <1>5, <1>6 DEF LastByteOf

-----------------------------------------------------------------------------
(* Steps other than those of SendTask.                                     *)

\* The last byte of a stream is one that was sent.
LEMMA LastIsSent ==
    ASSUME StreamsAreSent, NEW c \in Conns, stream[c] # <<>>
    PROVE  Last(c) \in Sent
<1>1. stream[c] \in Seq(Sent)
  BY DEF StreamsAreSent
<1>2. Len(stream[c]) \in 1 .. Len(stream[c])
  BY <1>1
<1>3. QED
  BY <1>1, <1>2, ElementType DEF Last

LEMMA PostKeeps ==
    ASSUME DeliveryAssumption, IInv, NEW f \in Fds, NEW s \in Sizes, Post(f, s)
    PROVE  IInv'
<1> USE DEF IInv
<1>1. /\ posts' = Append(posts, [fd |-> f, size |-> s])
      /\ UNCHANGED <<taken, ptr, pc, conn, accepted, heirs, gone, unread, stream>>
  BY DEF Post, task, sockets, clients
<1>2. /\ posts' \in Seq([fd : Fds, size : Sizes])
      /\ Len(posts') = Len(posts) + 1
      /\ \A i \in 1 .. Len(posts) : posts'[i] = posts[i]
  BY <1>1 DEF TypeOK
<1>3. /\ taken \in Nat /\ Len(posts) \in Nat /\ taken <= Len(posts)
      /\ Sending => 0 < taken
  BY PostTypes
<1>4. \A i \in 1 .. taken : posts'[i] = posts[i]
  BY <1>2, <1>3
<1>5. TypeOK'
  <2>1. taken' \in 0 .. Len(posts')
    BY <1>1, <1>2, <1>3
  <2>2. Sending' => taken' > 0 /\ ptr' \in 0 .. Current'.size
    BY <1>1, <1>3, <1>4 DEF TypeOK, Sending, Current
  <2>3. QED
    BY <1>1, <1>2, <2>1, <2>2 DEF TypeOK
<1>6. OneDescriptor'
  BY <1>1 DEF OneDescriptor
<1>7. StreamsAreSent'
  BY <1>1 DEF StreamsAreSent, Sent
<1>8. LastByte'
  <2> SUFFICES ASSUME NEW g \in Fds, NEW c \in Conns \ gone, conn[g] = c, stream[c] # <<>>
               PROVE  LastByteOf(g, Last(c))'
    BY <1>1 DEF LastByte
  <2>1. LastByteOf(g, Last(c)) /\ Last(c) \in Sent
    BY LastIsSent DEF LastByte
  <2>2. Last(c)' = Last(c)
    BY <1>1 DEF Last
  <2>3. UNCHANGED task
    BY <1>1 DEF task
  <2>4. QED
    BY <1>4, <2>1, <2>2, <2>3, LastStays
<1>9. EmptyIsHeir'
  BY <1>1, <1>3, <1>4 DEF EmptyIsHeir, Busy, Sending
<1>10. WholeAndInOrder'
  BY <1>1, <1>4, OrderStays
<1>11. OnlyHeirsGetTails'
  BY <1>1 DEF OnlyHeirsGetTails
<1>12. QED
  BY <1>5, <1>6, <1>7, <1>8, <1>9, <1>10, <1>11

\* Closing, reading and leaving take no descriptor and send nothing.
LEMMA QuietKeeps ==
    ASSUME DeliveryAssumption, IInv,
           UNCHANGED <<posts, task, accepted, heirs, stream>>,
           gone \subseteq gone', gone' \subseteq Conns,
           conn' \in [Fds -> 0 .. accepted],
           \A f \in Fds : conn'[f] \in {conn[f], Closed},
           unread' \in [Conns -> 0 .. Room],
           \A c \in Conns : unread'[c] <= Len(stream[c])
    PROVE  IInv'
<1> USE DEF IInv
<1>1. UNCHANGED <<posts, taken, ptr, pc, accepted, heirs, stream, Sending>>
  BY DEF task, Sending
<1>2. TypeOK'
  BY <1>1 DEF TypeOK, Current
<1>3. OneDescriptor'
  BY <1>1 DEF OneDescriptor
<1>4. StreamsAreSent'
  BY <1>1 DEF StreamsAreSent, Sent
<1>5. \A f \in Fds : \A c \in Conns : conn'[f] = c => conn[f] = c
  BY DEF Conns, Closed
<1>6. LastByte'
  <2> SUFFICES ASSUME NEW g \in Fds, NEW c \in Conns \ gone', conn'[g] = c, stream[c] # <<>>
               PROVE  LastByteOf(g, Last(c))'
    BY <1>1 DEF LastByte
  <2>1. LastByteOf(g, Last(c)) /\ Last(c) \in Sent
    BY <1>5, LastIsSent DEF LastByte
  <2>2. Last(c)' = Last(c)
    BY <1>1 DEF Last
  <2>3. QED
    BY <1>1, <2>1, <2>2, LastStays
<1>7. EmptyIsHeir'
  BY <1>1, <1>5 DEF EmptyIsHeir, Busy
<1>8. WholeAndInOrder'
  BY <1>1, OrderStays
<1>9. OnlyHeirsGetTails'
  BY <1>1 DEF OnlyHeirsGetTails
<1>10. QED
  BY <1>2, <1>3, <1>4, <1>6, <1>7, <1>8, <1>9

LEMMA AcceptKeeps ==
    ASSUME DeliveryAssumption, IInv, NEW f \in Fds, Accept(f)
    PROVE  IInv'
<1> USE DEF IInv
<1> DEFINE n == accepted + 1
<1>1. /\ accepted' = n /\ accepted < MaxConns
      /\ conn' = [conn EXCEPT ![f] = n]
      /\ heirs' = IF Busy(f) /\ ptr > 0 THEN heirs \cup {n} ELSE heirs
      /\ UNCHANGED <<posts, taken, ptr, pc, gone, unread, stream>>
  BY DEF Accept, task, clients, Busy
<1>2. accepted \in Nat /\ MaxConns \in Nat /\ n \in Conns /\ n # Closed
  BY <1>1, PostTypes DEF Conns, Closed
<1>3. conn \in [Fds -> 0 .. accepted]
  BY DEF TypeOK
<1>4. \A g \in Fds : conn[g] # n /\ conn[g] <= accepted
  BY <1>2, <1>3
<1>5. stream[n] = <<>>
  BY <1>2 DEF OneDescriptor
<1>6. UNCHANGED Sending /\ \A g \in Fds : Busy(g)' = Busy(g)
  BY <1>1 DEF Sending, Busy
<1>7. TypeOK'
  <2>1. conn' \in [Fds -> 0 .. n]
    BY <1>1, <1>2, <1>3
  <2>2. n \in 0 .. MaxConns
    BY <1>1, <1>2
  <2>3. heirs' \subseteq Conns
    BY <1>1, <1>2 DEF TypeOK
  <2>4. QED
    BY <1>1, <1>6, <2>1, <2>2, <2>3 DEF TypeOK, Current
<1>8. OneDescriptor'
  <2>1. \A g, h \in Fds : conn'[g] = conn'[h] /\ conn'[g] # Closed => g = h
    BY <1>1, <1>3, <1>4 DEF OneDescriptor
  <2>2. \A c \in Conns : c > accepted' => stream'[c] = <<>>
    BY <1>1, <1>2 DEF OneDescriptor, Conns
  <2>3. QED
    BY <2>1, <2>2 DEF OneDescriptor
<1>9. StreamsAreSent'
  BY <1>1 DEF StreamsAreSent, Sent
<1>10. LastByte'
  <2> SUFFICES ASSUME NEW g \in Fds, NEW c \in Conns \ gone, conn'[g] = c, stream[c] # <<>>
               PROVE  LastByteOf(g, Last(c))'
    BY <1>1 DEF LastByte
  <2>1. conn[g] = c
    BY <1>1, <1>3, <1>5
  <2>2. LastByteOf(g, Last(c)) /\ Last(c) \in Sent
    BY <2>1, LastIsSent DEF LastByte
  <2>3. Last(c)' = Last(c) /\ UNCHANGED task
    BY <1>1 DEF Last, task
  <2>4. QED
    BY <1>1, <2>2, <2>3, LastStays
<1>11. EmptyIsHeir'
  <2> SUFFICES ASSUME NEW g \in Fds, NEW c \in Conns \ gone, conn'[g] = c, stream[c] = <<>>,
                      Busy(g), ptr > 0
               PROVE  c \in heirs'
    BY <1>1, <1>6 DEF EmptyIsHeir
  <2>1. CASE g = f
    BY <1>1, <1>3, <2>1
  <2>2. CASE g # f
    BY <1>1, <1>3, <2>2 DEF EmptyIsHeir
  <2>3. QED
    BY <2>1, <2>2
<1>12. WholeAndInOrder'
  BY <1>1, OrderStays
<1>13. OnlyHeirsGetTails'
  BY <1>1 DEF OnlyHeirsGetTails
<1>14. QED
  BY <1>7, <1>8, <1>9, <1>10, <1>11, <1>12, <1>13

-----------------------------------------------------------------------------
(* SendTask.                                                               *)

LEMMA DequeueKeeps ==
    ASSUME DeliveryAssumption, IInv, Dequeue
    PROVE  IInv'
<1> USE DEF IInv
<1>1. /\ pc = "dequeue" /\ taken < Len(posts)
      /\ taken' = taken + 1 /\ ptr' = 0 /\ pc' = "send"
      /\ UNCHANGED <<posts, conn, accepted, heirs, gone, unread, stream>>
  BY DEF Dequeue, sockets, clients
<1>2. ~Sending /\ Sending'
  BY <1>1 DEF Sending
<1>3. /\ taken \in Nat /\ Len(posts) \in Nat
      /\ \A i \in 1 .. Len(posts) : posts[i].size \in Nat /\ 0 < posts[i].size
  BY PostTypes
<1>4. TypeOK'
  <2>1. taken' \in 0 .. Len(posts) /\ taken' > 0 /\ posts[taken'].size \in Nat
    BY <1>1, <1>3
  <2>2. ptr' \in 0 .. Current'.size
    BY <1>1, <2>1 DEF Current
  <2>3. QED
    BY <1>1, <2>1, <2>2 DEF TypeOK
<1>5. OneDescriptor'
  BY <1>1 DEF OneDescriptor
<1>6. StreamsAreSent'
  <2>1. Sent \subseteq Sent'
    BY <1>1, <1>3 DEF Sent
  <2>2. \A c \in Conns : stream[c] \in Seq(Sent')
    BY <2>1 DEF StreamsAreSent
  <2>3. QED
    BY <1>1, <2>2 DEF StreamsAreSent
<1>7. LastByte'
  <2> SUFFICES ASSUME NEW g \in Fds, NEW c \in Conns \ gone, conn[g] = c, stream[c] # <<>>
               PROVE  LastByteOf(g, Last(c))'
    BY <1>1 DEF LastByte
  <2> DEFINE a == Last(c)
  <2>1. LastByteOf(g, a) /\ a.post \in 1 .. taken
    BY LastIsSent DEF LastByte, Sent
  <2>2. /\ posts[a.post].fd = g /\ a.byte = posts[a.post].size
        /\ \A i \in a.post + 1 .. taken : posts[i].fd # g
    BY <1>2, <2>1 DEF LastByteOf, Busy
  <2>3. \A i \in a.post + 1 .. taken + 1 : posts[i].fd = g => i = taken + 1
    BY <1>3, <2>1, <2>2
  <2>4. a' = a /\ a.post < taken + 1
    BY <1>1, <1>3, <2>1 DEF Last
  <2> HIDE DEF a
  <2>5. QED
    BY <1>1, <1>2, <2>2, <2>3, <2>4 DEF LastByteOf, Busy, a
<1>8. EmptyIsHeir'
  BY <1>1 DEF EmptyIsHeir
<1>9. WholeAndInOrder'
  BY <1>1, OrderStays
<1>10. OnlyHeirsGetTails'
  BY <1>1 DEF OnlyHeirsGetTails
<1>11. QED
  BY <1>4, <1>5, <1>6, <1>7, <1>8, <1>9, <1>10

\* The loop ends with all bytes sent, if there is a client that stays.
LEMMA FinishKeeps ==
    ASSUME DeliveryAssumption, IInv, Finish
    PROVE  IInv'
<1> USE DEF IInv
<1>1. /\ Sending /\ (ptr = posts[taken].size \/ Refuses)
      /\ pc' = "dequeue"
      /\ UNCHANGED <<posts, taken, ptr, conn, accepted, heirs, gone, unread, stream>>
  BY DEF Finish, GivesUp, Current, sockets, clients
<1>2. ~Sending'
  BY <1>1 DEF Sending
<1>3. /\ taken \in Nat /\ 0 < taken /\ taken <= Len(posts) /\ Len(posts) \in Nat
      /\ \A i \in 1 .. Len(posts) : posts[i].size \in Nat /\ 0 < posts[i].size
  BY <1>1, PostTypes
<1>4. TypeOK'
  BY <1>1, <1>2 DEF TypeOK
<1>5. OneDescriptor'
  BY <1>1 DEF OneDescriptor
<1>6. StreamsAreSent'
  BY <1>1 DEF StreamsAreSent, Sent
<1>7. LastByte'
  <2> SUFFICES ASSUME NEW g \in Fds, NEW c \in Conns \ gone, conn[g] = c, stream[c] # <<>>
               PROVE  LastByteOf(g, Last(c))'
    BY <1>1 DEF LastByte
  <2> DEFINE a == Last(c)
  <2>1. LastByteOf(g, a) /\ a.post \in 1 .. taken /\ a' = a
    BY <1>1, LastIsSent DEF LastByte, Sent, Last
  <2> HIDE DEF a
  <2>2. CASE ~Busy(g)
    BY <1>1, <1>2, <2>1, <2>2 DEF LastByteOf, Busy, a
  <2>3. CASE Busy(g)
    <3>1. Receiver = c /\ ~Refuses
      BY <2>3 DEF Busy, Receiver, Current, Refuses, Conns, Closed
    <3>2. ptr = posts[taken].size /\ 0 < ptr
      BY <1>1, <1>3, <3>1
    <3>3. a.post = taken /\ a.byte = posts[taken].size /\ posts[a.post].fd = g
      BY <2>1, <2>3, <3>2 DEF LastByteOf
    <3>4. \A i \in a.post + 1 .. taken : FALSE
      BY <1>3, <3>3
    <3>5. QED
      BY <1>1, <1>2, <2>1, <3>3, <3>4 DEF LastByteOf, Busy, a
  <2>4. QED
    BY <2>2, <2>3
<1>8. EmptyIsHeir'
  BY <1>2 DEF EmptyIsHeir, Busy
<1>9. WholeAndInOrder'
  BY <1>1, OrderStays
<1>10. OnlyHeirsGetTails'
  BY <1>1 DEF OnlyHeirsGetTails
<1>11. QED
  BY <1>4, <1>5, <1>6, <1>7, <1>8, <1>9, <1>10

\* What a sequence looks like when more is appended to it.
LEMMA Appended ==
    ASSUME NEW S, NEW s \in Seq(S), NEW t \in Seq(S)
    PROVE  /\ s \o t \in Seq(S) /\ Len(s \o t) = Len(s) + Len(t)
           /\ \A k \in 1 .. Len(s) : (s \o t)[k] = s[k]
           /\ \A k \in 1 .. Len(t) : (s \o t)[Len(s) + k] = t[k]
  OBVIOUS

LEMMA BytesAre ==
    ASSUME DeliveryAssumption, TypeOK, Sending,
           NEW n \in Nat, 0 < n
    PROVE  /\ Bytes(ptr, ptr + n) \in Seq(Sent) /\ Len(Bytes(ptr, ptr + n)) = n
           /\ \A i \in 1 .. n : /\ Bytes(ptr, ptr + n)[i].post = taken
                                /\ Bytes(ptr, ptr + n)[i].byte = ptr + i
<1>1. ptr \in Nat /\ taken \in Nat /\ 0 < taken
  BY PostTypes
<1>2. (ptr + n) - ptr = n
  BY <1>1
<1>3. Bytes(ptr, ptr + n) = [i \in 1 .. n |-> [post |-> taken, byte |-> ptr + i]]
  BY <1>2 DEF Bytes
<1>4. \A i \in 1 .. n : [post |-> taken, byte |-> ptr + i] \in Sent
  BY <1>1 DEF Sent
<1> DEFINE t == Bytes(ptr, ptr + n)
<1>5. t \in Seq(Sent) /\ Len(t) = n
  BY <1>3, <1>4
<1>6. ASSUME NEW i \in 1 .. n PROVE t[i].post = taken /\ t[i].byte = ptr + i
  <2>1. t[i] = [post |-> taken, byte |-> ptr + i]
    BY <1>3
  <2> HIDE DEF t
  <2>2. QED
    BY <2>1
<1> HIDE DEF t
<1>7. QED
  BY <1>5, <1>6 DEF t

\* The bytes that are sent continue the stream of the receiver.
LEMMA SendContinues ==
    ASSUME DeliveryAssumption, IInv, Sending, Receiver \in Conns \ gone, Current.fd \in Fds,
           NEW n \in Nat, 0 < n,
           NEW w, \A i \in 1 .. Len(stream[Receiver]) : w[i] = stream[Receiver][i],
                  \A i \in 1 .. n : w[Len(stream[Receiver]) + i] = Bytes(ptr, ptr + n)[i]
    PROVE  \A k \in 2 .. Len(stream[Receiver]) + n : Follows(w[k], w[k - 1])
<1> DEFINE f == Current.fd
           c == Receiver
           s == stream[c]
           t == Bytes(ptr, ptr + n)
<1> SUFFICES ASSUME NEW k \in 2 .. Len(s) + n PROVE Follows(w[k], w[k - 1])
  OBVIOUS
<1>0. Busy(f) /\ conn[f] = c
  BY DEF Busy, Current, Receiver
<1>w. /\ \A i \in 1 .. Len(s) : w[i] = s[i]
      /\ \A i \in 1 .. n : w[Len(s) + i] = t[i]
  OBVIOUS
<1>1. s \in Seq(Sent) /\ t \in Seq(Sent) /\ Len(s) \in Nat /\ Len(t) = n
  BY BytesAre, ElementType DEF IInv, StreamsAreSent
<1>2. \A i \in 1 .. n : t[i].post = taken /\ t[i].byte = ptr + i
  BY BytesAre DEF IInv
<1>3. ptr \in Nat /\ taken \in Nat
  BY PostTypes DEF IInv
<1>s. \A i \in 2 .. Len(s) : Follows(s[i], s[i - 1])
  BY DEF IInv, WholeAndInOrder
<1>l. s # <<>> => /\ LastByteOf(f, s[Len(s)])
                   /\ s[Len(s)].post \in 1 .. taken
  BY <1>0, LastIsSent DEF IInv, LastByte, Sent, Last
<1> HIDE DEF f, c, s, t
<1>4. k \in Nat /\ 2 <= k /\ k <= Len(s) + n
  BY <1>1
<1>5. CASE k <= Len(s)
  <2>1. Follows(s[k], s[k - 1])
    BY <1>1, <1>5, <1>s
  <2>2. k \in 1 .. Len(s) /\ k - 1 \in 1 .. Len(s)
    BY <1>1, <1>5
  <2>3. w[k] = s[k] /\ w[k - 1] = s[k - 1]
    BY <1>w, <2>2
  <2>4. QED
    BY <2>1, <2>3
<1>6. CASE k = Len(s) + 1
  <2> DEFINE a == s[Len(s)]
  <2>1. s # <<>> /\ w[k - 1] = a /\ w[k] = t[1]
    <3>1. 0 < Len(s) /\ k - 1 = Len(s) /\ Len(s) \in 1 .. Len(s) /\ 1 \in 1 .. n
      BY <1>1, <1>6
    <3>2. s # <<>>
      BY <3>1
    <3>3. QED
      BY <1>w, <1>6, <3>1, <3>2
  <2>2. LastByteOf(f, a) /\ a.post \in 1 .. taken
    BY <2>1, <1>l
  <2>3. t[1].post = taken /\ t[1].byte = ptr + 1
    BY <1>2
  <2> HIDE DEF a
  <2>4. CASE a.post = taken /\ a.byte = ptr
    BY <2>1, <2>3, <2>4 DEF Follows
  <2>5. CASE /\ a.byte = posts[a.post].size /\ ptr = 0 /\ a.post < taken
             /\ \A i \in a.post + 1 .. taken : posts[i].fd = f => i = taken
    <3>1. \A i \in a.post + 1 .. taken - 1 : posts[i].fd # posts[a.post].fd
      BY <1>3, <2>2, <2>5 DEF LastByteOf
    <3>2. QED
      BY <2>1, <2>3, <2>5, <3>1 DEF Follows
  <2>6. \/ a.post = taken /\ a.byte = ptr
        \/ /\ a.byte = posts[a.post].size /\ ptr = 0 /\ a.post < taken
           /\ \A i \in a.post + 1 .. taken : posts[i].fd = f => i = taken
    <3>1. QED
      BY <1>0, <2>2 DEF LastByteOf
  <2>7. QED
    BY <2>4, <2>5, <2>6
<1>7. CASE k > Len(s) + 1
  <2> DEFINE j == k - Len(s)
  <2>1. j \in 1 .. n /\ k = Len(s) + j /\ k - 1 = Len(s) + (j - 1) /\ j - 1 \in 1 .. n
    <3>1. ASSUME NEW l \in Nat, Len(s) = l, NEW m \in Nat, k = m, m > l + 1, m <= l + n
          PROVE  m - l \in 1 .. n /\ m = l + (m - l) /\ m - 1 = l + ((m - l) - 1)
                 /\ (m - l) - 1 \in 1 .. n
      BY <3>1
    <3>2. QED
      BY <1>1, <1>4, <1>7, <3>1
  <2> HIDE DEF j
  <2>2. w[k] = t[j] /\ w[k - 1] = t[j - 1]
    BY <1>w, <2>1
  <2>3. t[j].post = t[j - 1].post /\ t[j].byte = t[j - 1].byte + 1
    BY <1>2, <1>3, <2>1 DEF j
  <2>4. QED
    BY <2>2, <2>3 DEF Follows
<1>8. QED
  BY <1>1, <1>4, <1>5, <1>6, <1>7

LEMMA SendKeeps ==
    ASSUME DeliveryAssumption, IInv, Send
    PROVE  IInv'
<1> USE DEF IInv
<1> DEFINE f == posts[taken].fd
           c == Receiver
           s == stream[c]
<1>1. PICK n \in 1 .. posts[taken].size - ptr :
         /\ unread[c] + n <= Room
         /\ unread' = [unread EXCEPT ![c] = @ + n]
         /\ stream' = [stream EXCEPT ![c] = @ \o Bytes(ptr, ptr + n)]
         /\ ptr' = ptr + n
  BY DEF Send, Current
<1>2. /\ Sending /\ ~Refuses
      /\ UNCHANGED <<posts, taken, pc, conn, accepted, heirs, gone, Sending>>
  BY DEF Send, sockets, Sending
<1>3. /\ ptr \in Nat /\ taken \in Nat /\ 0 < taken /\ taken <= Len(posts)
      /\ posts[taken].size \in Nat /\ f \in Fds /\ Len(posts) \in Nat
  BY <1>2, PostTypes
<1>4. n \in Nat /\ 0 < n /\ ptr + n <= posts[taken].size
  BY <1>1, <1>3
<1>5. /\ c \in Conns \ gone /\ conn[f] = c /\ Busy(f)
      /\ c <= accepted /\ accepted \in Nat
  <2>1. conn[f] = c /\ Busy(f)
    BY <1>2 DEF Receiver, Current, Busy
  <2>2. c \in 0 .. accepted /\ accepted \in 0 .. MaxConns /\ MaxConns \in Nat
    BY <1>3, <2>1, PostTypes DEF TypeOK
  <2>3. c \in Conns \ gone
    BY <1>2, <2>2 DEF Refuses, Conns, Closed
  <2>4. QED
    BY <2>1, <2>2, <2>3
<1> DEFINE t == Bytes(ptr, ptr + n)
           w == s \o t
<1>6. /\ s \in Seq(Sent) /\ t \in Seq(Sent) /\ Len(t) = n /\ Len(s) \in Nat
      /\ \A i \in 1 .. n : t[i].post = taken /\ t[i].byte = ptr + i
  BY <1>2, <1>4, <1>5, BytesAre, ElementType DEF StreamsAreSent
<1> HIDE DEF t
<1>7. /\ w \in Seq(Sent) /\ Len(w) = Len(s) + n
      /\ \A i \in 1 .. Len(s) : w[i] = s[i]
      /\ \A i \in 1 .. n : w[Len(s) + i] = t[i]
  <2>1. s \in Seq(Sent) /\ t \in Seq(Sent)
    BY <1>6
  <2> HIDE DEF s, f, c, w
  <2>2. /\ s \o t \in Seq(Sent) /\ Len(s \o t) = Len(s) + Len(t)
        /\ \A i \in 1 .. Len(s) : (s \o t)[i] = s[i]
        /\ \A i \in 1 .. Len(t) : (s \o t)[Len(s) + i] = t[i]
    BY <2>1, Appended
  <2>3. QED
    BY <1>6, <2>2 DEF w
<1>8. /\ stream'[c] = w /\ w # <<>>
      /\ \A d \in Conns \ {c} : stream'[d] = stream[d]
      /\ DOMAIN stream' = Conns
  <2>1. stream \in [Conns -> Seq(Sent)]
    BY DEF StreamsAreSent
  <2>2. w # <<>>
    BY <1>4, <1>6, <1>7
  <2>3. stream' = [stream EXCEPT ![c] = w]
    BY <1>1 DEF t
  <2> HIDE DEF w, c
  <2>4. c \in Conns
    BY <1>5
  <2>5. QED
    BY <2>1, <2>2, <2>3, <2>4
<1>w. stream' = [stream EXCEPT ![c] = w]
  BY <1>1 DEF t
<1>c. s = stream[c] /\ t = Bytes(ptr, ptr + n)
  BY DEF t
<1>k. \A k \in 2 .. Len(s) + n : Follows(w[k], w[k - 1])
  <2>1. /\ \A i \in 1 .. Len(stream[Receiver]) : w[i] = stream[Receiver][i]
        /\ \A i \in 1 .. n : w[Len(stream[Receiver]) + i] = Bytes(ptr, ptr + n)[i]
    BY <1>7, <1>c
  <2>2. Receiver \in Conns \ gone /\ Current.fd \in Fds /\ Sending
    BY <1>2, <1>3, <1>5 DEF Current
  <2>3. IInv /\ DeliveryAssumption
    OBVIOUS
  <2> HIDE DEF w, IInv
  <2>4. QED
    BY <1>4, <2>1, <2>2, <2>3, SendContinues
<1>9. \A g \in Fds : g # f => ~Busy(g) /\ ~Busy(g)'
  BY <1>2 DEF Busy
<1>10. \A g \in Fds : conn[g] = c => g = f
  <2>1. conn[f] # Closed
    BY <1>5 DEF Conns, Closed
  <2> HIDE DEF c, f
  <2>2. QED
    BY <1>3, <1>5, <2>1 DEF OneDescriptor
<1> HIDE DEF c, f, w
<1>11. TypeOK'
  <2>1. ptr' \in 0 .. Current'.size
    BY <1>1, <1>2, <1>3, <1>4 DEF Current
  <2>2. unread' \in [Conns -> 0 .. Room]
    BY <1>1, <1>4, <1>5, PostTypes DEF TypeOK
  <2>3. ASSUME NEW d \in Conns PROVE unread'[d] <= Len(stream'[d])
    <3>1. CASE d = c
      <4>1. unread[c] \in Nat /\ unread[c] <= Len(s) /\ unread'[c] = unread[c] + n
        BY <1>1, <1>5, PostTypes DEF TypeOK
      <4>2. QED
        BY <1>4, <1>6, <1>7, <1>8, <3>1, <4>1
    <3>2. CASE d # c
      BY <1>1, <1>5, <1>8, <3>2 DEF TypeOK
    <3>3. QED
      BY <3>1, <3>2
  <2>4. QED
    BY <1>2, <1>3, <2>1, <2>2, <2>3 DEF TypeOK
<1>12. OneDescriptor'
  <2>1. \A d \in Conns : d > accepted => d # c
    BY <1>5 DEF Conns
  <2>2. QED
    BY <1>2, <1>8, <2>1 DEF OneDescriptor
<1>13. StreamsAreSent'
  <2>1. Sent' = Sent
    BY <1>2 DEF Sent
  <2>2. stream' \in [Conns -> Seq(Sent)]
    BY <1>5, <1>7, <1>w DEF StreamsAreSent
  <2>3. QED
    BY <2>1, <2>2 DEF StreamsAreSent
<1>14. LastByte'
  <2> SUFFICES ASSUME NEW g \in Fds, NEW d \in Conns \ gone, conn[g] = d, stream'[d] # <<>>
               PROVE  LastByteOf(g, Last(d))'
    BY <1>2 DEF LastByte
  <2>1. CASE d = c
    <3>1. g = f /\ Busy(g)'
      BY <1>2, <1>5, <1>10, <2>1 DEF Busy
    <3>2. Last(d)' = w[Len(s) + n]
      BY <1>7, <1>8, <2>1 DEF Last
    <3>3. w[Len(s) + n].post = taken /\ w[Len(s) + n].byte = ptr + n
      BY <1>4, <1>6, <1>7
    <3>4. Last(d)'.post = taken' /\ Last(d)'.byte = ptr'
      BY <1>1, <1>2, <3>2, <3>3
    <3>5. posts'[Last(d)'.post].fd = g
      BY <1>2, <3>1, <3>4 DEF f
    <3>6. QED
      BY <3>1, <3>4, <3>5 DEF LastByteOf
  <2>2. CASE d # c
    <3>1. Last(d)' = Last(d) /\ stream[d] # <<>>
      BY <1>8, <2>2 DEF Last
    <3>2. LastByteOf(g, Last(d))
      BY <3>1 DEF LastByte
    <3>3. ~Busy(g) /\ ~Busy(g)'
      BY <1>5, <1>9, <2>2
    <3>4. QED
      BY <1>2, <3>1, <3>2, <3>3 DEF LastByteOf
  <2>3. QED
    BY <2>1, <2>2
<1>15. EmptyIsHeir'
  <2> SUFFICES ASSUME NEW g \in Fds, NEW d \in Conns \ gone, conn[g] = d,
                      stream'[d] = <<>>, Busy(g)'
               PROVE  FALSE
    BY <1>2 DEF EmptyIsHeir
  <2>1. d = c
    BY <1>5, <1>9
  <2>2. QED
    BY <1>8, <2>1
<1>16. WholeAndInOrder'
  <2> SUFFICES ASSUME NEW d \in Conns, NEW k \in 2 .. Len(stream'[d])
               PROVE  Follows(stream'[d][k], stream'[d][k - 1])
    BY <1>2 DEF WholeAndInOrder, Follows
  <2>1. CASE d = c
    <3>1. k \in 2 .. Len(s) + n
      BY <1>7, <1>8, <2>1
    <3>2. QED
      BY <1>8, <1>k, <2>1, <3>1
  <2>2. CASE d # c
    BY <1>8, <2>2 DEF WholeAndInOrder
  <2>3. QED
    BY <2>1, <2>2
<1>17. OnlyHeirsGetTails'
  <2> SUFFICES ASSUME NEW d \in Conns, stream'[d] # <<>>, stream'[d][1].byte # 1
               PROVE  d \in heirs
    BY <1>2 DEF OnlyHeirsGetTails
  <2>1. CASE d # c
    BY <1>8, <2>1 DEF OnlyHeirsGetTails
  <2>2. CASE d = c /\ s # <<>>
    <3>1. stream'[d][1] = s[1]
      BY <1>6, <1>7, <1>8, <2>2
    <3>2. QED
      BY <2>2, <3>1 DEF OnlyHeirsGetTails
  <2>3. CASE d = c /\ s = <<>>
    <3>1. stream'[d][1].byte = ptr + 1
      BY <1>4, <1>6, <1>7, <1>8, <2>3
    <3>2. ptr > 0
      BY <1>3, <3>1
    <3>3. QED
      BY <1>3, <1>5, <2>3, <3>2 DEF EmptyIsHeir
  <2>4. QED
    BY <2>1, <2>2, <2>3
<1>18. QED
  BY <1>11, <1>12, <1>13, <1>14, <1>15, <1>16, <1>17

-----------------------------------------------------------------------------
(* All steps together.                                                     *)

LEMMA InitIsFine == ASSUME DeliveryAssumption, Init PROVE IInv
<1> USE DEF Init
<1>1. MaxConns \in Nat /\ Room \in Nat /\ \A c \in Conns : stream[c] = <<>> /\ Len(stream[c]) = 0
  BY DEF DeliveryAssumption
<1>2. ~Sending
  BY DEF Sending
<1>3. TypeOK
  <2>1. posts \in Seq([fd : Fds, size : Sizes]) /\ taken \in 0 .. Len(posts)
    OBVIOUS
  <2>2. conn \in [Fds -> 0 .. accepted] /\ unread \in [Conns -> 0 .. Room]
    BY <1>1 DEF Closed
  <2>3. \A c \in Conns : unread[c] <= Len(stream[c])
    BY <1>1
  <2>4. QED
    BY <1>1, <1>2, <2>1, <2>2, <2>3 DEF TypeOK
<1>4. OneDescriptor /\ LastByte /\ EmptyIsHeir /\ OnlyHeirsGetTails
  BY <1>1, <1>2 DEF OneDescriptor, LastByte, EmptyIsHeir, OnlyHeirsGetTails, Busy
<1>5. StreamsAreSent
  BY DEF StreamsAreSent
<1>6. WholeAndInOrder
  <2>1. \A k \in 2 .. 0 : FALSE
    OBVIOUS
  <2>2. QED
    BY <1>1, <2>1 DEF WholeAndInOrder
<1>7. QED
  BY <1>3, <1>4, <1>5, <1>6 DEF IInv

LEMMA StepKeeps == ASSUME DeliveryAssumption, IInv, [Next]_vars PROVE IInv'
<1>t. /\ conn \in [Fds -> 0 .. accepted] /\ gone \subseteq Conns
      /\ unread \in [Conns -> 0 .. Room] /\ Room \in Nat /\ accepted \in Nat
      /\ \A c \in Conns : unread[c] <= Len(stream[c])
  BY PostTypes DEF IInv, TypeOK
<1>l. \A c \in Conns : Len(stream[c]) \in Nat
  BY ElementType DEF IInv, StreamsAreSent
<1>1. ASSUME NEW f \in Fds, NEW s \in Sizes, Post(f, s) PROVE IInv'
  BY <1>1, PostKeeps
<1>2. ASSUME NEW f \in Fds, Accept(f) PROVE IInv'
  BY <1>2, AcceptKeeps
<1>3. ASSUME NEW f \in Fds, CloseFd(f) PROVE IInv'
  <2>1. /\ UNCHANGED <<posts, task, accepted, heirs, stream, gone, unread>>
        /\ conn' = [conn EXCEPT ![f] = Closed]
    BY <1>3 DEF CloseFd, clients
  <2>2. conn' \in [Fds -> 0 .. accepted] /\ \A g \in Fds : conn'[g] \in {conn[g], Closed}
    BY <1>t, <2>1 DEF Closed
  <2>3. QED
    BY <1>t, <2>1, <2>2, QuietKeeps
<1>4. ASSUME NEW c \in Conns, Read(c) PROVE IInv'
  <2>1. /\ UNCHANGED <<posts, task, accepted, heirs, stream, gone, conn>>
        /\ unread' = [unread EXCEPT ![c] = @ - 1] /\ unread[c] > 0
    BY <1>4 DEF Read, sockets
  <2>2. unread' \in [Conns -> 0 .. Room] /\ \A d \in Conns : unread'[d] <= unread[d]
    BY <1>t, <2>1
  <2>3. \A d \in Conns : unread'[d] <= Len(stream[d])
    BY <1>t, <1>l, <2>2
  <2>4. QED
    BY <1>t, <2>1, <2>2, <2>3, QuietKeeps
<1>5. ASSUME NEW c \in Conns, Leave(c) PROVE IInv'
  <2>1. /\ UNCHANGED <<posts, task, accepted, heirs, stream, conn, unread>>
        /\ gone' = gone \cup {c}
    BY <1>5 DEF Leave, sockets
  <2>2. QED
    BY <1>t, <2>1, QuietKeeps
<1>6. CASE SendTask
  BY <1>6, DequeueKeeps, SendKeeps, FinishKeeps DEF SendTask
<1>7. CASE UNCHANGED vars
  <2>1. UNCHANGED <<posts, task, accepted, heirs, stream, gone, conn, unread>>
    BY <1>7 DEF vars, sockets, clients
  <2>2. QED
    BY <1>t, <2>1, QuietKeeps
<1>8. QED
  BY <1>1, <1>2, <1>3, <1>4, <1>5, <1>6, <1>7 DEF Next

LEMMA AlwaysIInv == Spec => []IInv
<1>1. Init => IInv
  BY DeliveryAssumption, InitIsFine
<1>2. IInv /\ [Next]_vars => IInv'
  BY DeliveryAssumption, StepKeeps
<1>3. QED
  BY <1>1, <1>2, PTL DEF Spec

-----------------------------------------------------------------------------
\* Type correctness: SendTask's pointer stays within the message it is at,
\* and a client has no more bytes to read than were sent to it.
THEOREM TypeCorrect == Spec => []TypeOK
<1>1. IInv => TypeOK
  BY DEF IInv
<1>2. QED
  BY <1>1, AlwaysIInv, PTL

\* Messages reach a client whole, in the order they were posted and with none
\* left out, whatever send takes at a time and whoever leaves meanwhile.
THEOREM MessagesStayWhole == Spec => []WholeAndInOrder
<1>1. IInv => WholeAndInOrder
  BY DEF IInv
<1>2. QED
  BY <1>1, AlwaysIInv, PTL

\* Only who is given a descriptor in the middle of a message to it begins with
\* the rest of that message.
THEOREM TailsAreForHeirs == Spec => []OnlyHeirsGetTails
<1>1. IInv => OnlyHeirsGetTails
  BY DEF IInv
<1>2. QED
  BY <1>1, AlwaysIInv, PTL

=============================================================================
