------------------------------- MODULE Framing -------------------------------
(***************************************************************************)
(* How Evloop makes messages of the bytes of a connection.  recv_cb reads  *)
(* the length, then as many bytes as the length says, both with recv_n and *)
(* within 500 microseconds for the two of them.  When they run out, or the *)
(* client hangs up, it closes the connection.                              *)
(*                                                                         *)
(* A byte is known by its place in the stream of its connection.  A step   *)
(* is a call of recv or a return of recv_n.                                *)
(***************************************************************************)
EXTENDS Naturals, Sequences, Functions

CONSTANTS
    Conns,      \* accepted connections
    Sizes,      \* lengths of messages, head included
    HeadLen,    \* bytes of a length (sizeof(int) in the code)
    MaxSent     \* bound on the messages a client sends

ASSUME FramingAssumption ==
    /\ HeadLen \in Nat \ {0}
    /\ Sizes \subseteq Nat
    /\ \A s \in Sizes : HeadLen <= s
    /\ MaxSent \in Nat

Messages == [from : Nat, size : Sizes]

NoConn == "no connection"

ASSUME NoConnAssumption == NoConn \notin Conns

VARIABLES
    \* clients: the messages sent, and the bytes these are; who has hung up
    sent, written, gone,
    \* sockets of the server: bytes that have arrived, bytes recv has taken
    arrived, read,
    \* Evloop: connections with a watcher, and the messages put on recvqueue
    watched, taken,
    \* recv_cb: its connection, what recv_n still wants, the length it has read
    pc, cur, left, size

client == <<sent, written, gone>>
cb     == <<pc, cur, left, size>>
vars   == <<client, arrived, read, watched, taken, cb>>

Init ==
    /\ sent = [c \in Conns |-> <<>>]
    /\ written = [c \in Conns |-> 0]
    /\ gone = [c \in Conns |-> FALSE]
    /\ arrived = [c \in Conns |-> 0]
    /\ read = [c \in Conns |-> 0]
    /\ watched = [c \in Conns |-> TRUE]
    /\ taken = [c \in Conns |-> <<>>]
    /\ pc = "idle" /\ cur = NoConn /\ left = 0 /\ size = 0

-----------------------------------------------------------------------------
(* Clients and the network.                                                *)

Send(c, s) ==
    /\ ~gone[c]
    /\ Len(sent[c]) < MaxSent
    /\ sent' = [sent EXCEPT ![c] = Append(@, [from |-> written[c], size |-> s])]
    /\ written' = [written EXCEPT ![c] = @ + s]
    /\ UNCHANGED <<gone, arrived, read, watched, taken, cb>>

HangUp(c) ==
    /\ gone' = [gone EXCEPT ![c] = TRUE]
    /\ UNCHANGED <<sent, written, arrived, read, watched, taken, cb>>

\* A segment, cut where the network likes.
Arrive(c) ==
    /\ \E n \in arrived[c] + 1 .. written[c] : arrived' = [arrived EXCEPT ![c] = n]
    /\ UNCHANGED <<client, read, watched, taken, cb>>

-----------------------------------------------------------------------------
(* Evloop::recv_cb.                                                        *)

\* The watcher of a connection with bytes to read, or the end of the stream.
Readable(c) ==
    /\ pc = "idle"
    /\ watched[c]
    /\ read[c] < arrived[c] \/ gone[c]
    /\ pc' = "head" /\ cur' = c /\ left' = HeadLen
    /\ UNCHANGED <<client, arrived, read, watched, taken, size>>

Receiving == pc \in {"head", "body"}

\* recv, in the loop of recv_n.
Recv ==
    /\ Receiving
    /\ \E n \in 1 .. left :
          /\ read[cur] + n <= arrived[cur]
          /\ read' = [read EXCEPT ![cur] = @ + n]
          /\ left' = left - n
    /\ UNCHANGED <<client, arrived, watched, taken, pc, cur, size>>

\* Mutant of RecvEnds: what there is of a message passes for the message.
RecvEndsAndTakes ==
    /\ Receiving /\ left > 0
    /\ read[cur] = arrived[cur]
    /\ taken' = [taken EXCEPT ![cur] = Append(@, [from |-> read[cur], size |-> HeadLen])]
    /\ pc' = "idle" /\ cur' = NoConn /\ left' = 0 /\ size' = 0
    /\ UNCHANGED <<client, arrived, read, watched>>

\* Nothing to read when the time is up, or at the end of the stream: closefd.
RecvEnds ==
    /\ Receiving /\ left > 0
    /\ read[cur] = arrived[cur]
    /\ watched' = [watched EXCEPT ![cur] = FALSE]
    /\ pc' = "idle" /\ cur' = NoConn /\ left' = 0 /\ size' = 0
    /\ UNCHANGED <<client, arrived, read, taken>>

\* What the bytes at a place of the stream say when they are read as a length.
LengthsAt(c, at) ==
    LET here == {i \in DOMAIN sent[c] : sent[c][i].from = at}
    IN IF here = {} THEN Sizes ELSE {sent[c][i].size : i \in here}

\* Mutant of BodyOf: the head is counted again.
WholeOf(s) == s

\* The bytes that are left after the head.
BodyOf(s) == s - HeadLen

HeadRead ==
    /\ pc = "head" /\ left = 0
    /\ size' \in LengthsAt(cur, read[cur] - HeadLen)
    /\ left' = BodyOf(size')
    /\ pc' = "body"
    /\ UNCHANGED <<client, arrived, read, watched, taken, cur>>

\* recvqueue.enqueue
BodyRead ==
    /\ pc = "body" /\ left = 0
    /\ taken' = [taken EXCEPT ![cur] = Append(@, [from |-> read[cur] - size, size |-> size])]
    /\ pc' = "idle" /\ cur' = NoConn /\ size' = 0
    /\ UNCHANGED <<client, arrived, read, watched, left>>

Callback == Recv \/ RecvEnds \/ HeadRead \/ BodyRead

-----------------------------------------------------------------------------
Next ==
    \/ \E c \in Conns : \/ HangUp(c) \/ Arrive(c) \/ Readable(c)
                        \/ \E s \in Sizes : Send(c, s)
    \/ Callback

\* The network delivers; a callback runs on; and libev calls every watcher
\* that is ready in a round of its loop before it begins another one.
Spec ==
    /\ Init /\ [][Next]_vars
    /\ WF_vars(Callback)
    /\ \A c \in Conns : WF_vars(Arrive(c)) /\ SF_vars(Readable(c))

-----------------------------------------------------------------------------
(* What holds.                                                             *)

\* The variables keep their types; recv_n wants no more than the message has.
TypeOK ==
    /\ sent \in [Conns -> Seq(Messages)]
    /\ written \in [Conns -> Nat]
    /\ gone \in [Conns -> BOOLEAN]
    /\ arrived \in [Conns -> Nat]
    /\ read \in [Conns -> Nat]
    /\ watched \in [Conns -> BOOLEAN]
    /\ taken \in [Conns -> Seq(Messages)]
    /\ pc \in {"idle", "head", "body"}
    /\ cur \in Conns \cup {NoConn}
    /\ Receiving <=> cur # NoConn
    /\ left \in Nat
    /\ size \in Sizes \cup {0}
    /\ pc = "head" => left <= HeadLen
    /\ pc = "body" => left + HeadLen <= size

\* Where message k of a connection begins, or will begin.
Begin(c, k) == IF k <= Len(sent[c]) THEN sent[c][k].from ELSE written[c]

\* Between two callbacks a connection is read up to the end of a message: the
\* next four bytes are a length.
Aligned ==
    \A c \in Conns : watched[c] /\ c # cur => read[c] = Begin(c, Len(taken[c]) + 1)

\* A client is disconnected only if it has hung up or the last message it has
\* begun has not arrived entirely: a message in one piece is never too late.
WholeMessagesAreKept ==
    [][\A c \in Conns :
          watched[c] /\ ~watched'[c] =>
             gone[c] \/ \E i \in DOMAIN sent[c] :
                           /\ sent[c][i].from <= read[c]
                           /\ arrived[c] < sent[c][i].from + sent[c][i].size]_vars

\* To the threads behind recvqueue a connection is a channel of messages.
Queue == INSTANCE Channel WITH cut <- [c \in Conns |-> ~watched[c]]
IsChannel == Queue!Spec

=============================================================================
