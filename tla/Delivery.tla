------------------------------ MODULE Delivery ------------------------------
(***************************************************************************)
(* What a client receives.  SendTask writes one message after the other to *)
(* the descriptors they are for, in as many calls of send as the socket    *)
(* takes.  Meanwhile Evloop closes connections and accepts others, and the *)
(* kernel gives a new one the lowest descriptor that is free.              *)
(*                                                                         *)
(* A byte on its way is known by its message and its place in it.          *)
(***************************************************************************)
EXTENDS Naturals, Sequences

CONSTANTS
    Fds,        \* descriptors for clients
    Sizes,      \* lengths of messages
    Room,       \* bytes a socket holds for a client that has not read them
    MaxConns,   \* bound on the connections accepted
    MaxPosts    \* bound on the messages posted

ASSUME DeliveryAssumption ==
    /\ Fds \subseteq Nat
    /\ Sizes \subseteq Nat \ {0}
    /\ Room \in Nat \ {0}
    /\ MaxConns \in Nat /\ MaxPosts \in Nat

Conns == 1 .. MaxConns
Closed == 0     \* no connection

VARIABLES
    posts,      \* all that was put on sendqueue
    taken,      \* how many of these SendTask has taken off
    ptr,        \* bytes of the last one it has sent
    pc,         \* whether it is in the loop of send
    conn,       \* per descriptor: its connection
    accepted,   \* connections up to now
    gone,       \* connections the client has left
    unread,     \* per connection: bytes in the socket
    stream,     \* per connection: all bytes that send has taken for it
    heirs       \* history: accepted in the middle of a message to their descriptor

task    == <<taken, ptr, pc>>
sockets == <<conn, accepted, heirs>>
clients == <<gone, unread>>
vars    == <<posts, task, sockets, clients, stream>>

Init ==
    /\ posts = <<>> /\ taken = 0 /\ ptr = 0 /\ pc = "dequeue"
    /\ conn = [f \in Fds |-> Closed] /\ accepted = 0
    /\ gone = {} /\ unread = [c \in Conns |-> 0]
    /\ stream = [c \in Conns |-> <<>>]
    /\ heirs = {}

-----------------------------------------------------------------------------
(* Evloop, RecvTask and the clients.                                       *)

Post(f, s) ==
    /\ Len(posts) < MaxPosts
    /\ posts' = Append(posts, [fd |-> f, size |-> s])
    /\ UNCHANGED <<task, sockets, clients, stream>>

Sending == pc = "send"

\* accept_cb: the kernel gives the lowest descriptor.
Accept(f) ==
    /\ conn[f] = Closed
    /\ \A g \in Fds : conn[g] = Closed => f <= g
    /\ accepted < MaxConns
    /\ accepted' = accepted + 1
    /\ conn' = [conn EXCEPT ![f] = accepted + 1]
    /\ heirs' = IF Sending /\ posts[taken].fd = f /\ ptr > 0
                  THEN heirs \cup {accepted + 1} ELSE heirs
    /\ UNCHANGED <<posts, task, clients, stream>>

\* closefd
CloseFd(f) ==
    /\ conn[f] # Closed
    /\ conn' = [conn EXCEPT ![f] = Closed]
    /\ UNCHANGED <<posts, task, accepted, heirs, clients, stream>>

Open(c) == c <= accepted /\ c \notin gone

Read(c) ==
    /\ Open(c) /\ unread[c] > 0
    /\ unread' = [unread EXCEPT ![c] = @ - 1]
    /\ UNCHANGED <<posts, task, sockets, gone, stream>>

Leave(c) ==
    /\ Open(c)
    /\ gone' = gone \cup {c}
    /\ UNCHANGED <<posts, task, sockets, unread, stream>>

-----------------------------------------------------------------------------
(* SendTask::work.                                                         *)

\* Mutant of Dequeue: ptr is where the last message ended.
DequeueKeepsPtr ==
    /\ pc = "dequeue" /\ taken < Len(posts)
    /\ taken' = taken + 1 /\ pc' = "send"
    /\ ptr' = IF ptr <= posts[taken + 1].size THEN ptr ELSE 0
    /\ UNCHANGED <<posts, sockets, clients, stream>>

\* Mutant of Dequeue: the end of the wait is taken for a message.
DequeueNothing ==
    /\ pc = "dequeue"
    /\ taken' = taken + 1 /\ ptr' = 0 /\ pc' = "send"
    /\ UNCHANGED <<posts, sockets, clients, stream>>

Dequeue ==
    /\ pc = "dequeue" /\ taken < Len(posts)
    /\ taken' = taken + 1 /\ ptr' = 0 /\ pc' = "send"
    /\ UNCHANGED <<posts, sockets, clients, stream>>

Current == posts[taken]
Receiver == conn[Current.fd]
Refuses == Receiver = Closed \/ Receiver \in gone

Bytes(from, to) ==
    [i \in 1 .. to - from |-> [post |-> taken, byte |-> from + i]]

\* Mutant of Send: the pointer is not moved on.
SendFromStart ==
    /\ Sending /\ ~Refuses /\ ptr < Current.size
    /\ \E n \in 1 .. Current.size - ptr :
          /\ unread[Receiver] + n <= Room
          /\ unread' = [unread EXCEPT ![Receiver] = @ + n]
          /\ stream' = [stream EXCEPT ![Receiver] = @ \o Bytes(0, n)]
          /\ ptr' = ptr + n
    /\ UNCHANGED <<posts, taken, pc, sockets, gone>>

\* send takes some of what is left.
Send ==
    /\ Sending /\ ~Refuses /\ ptr < Current.size
    /\ \E n \in 1 .. Current.size - ptr :
          /\ unread[Receiver] + n <= Room
          /\ unread' = [unread EXCEPT ![Receiver] = @ + n]
          /\ stream' = [stream EXCEPT ![Receiver] = @ \o Bytes(ptr, ptr + n)]
          /\ ptr' = ptr + n
    /\ UNCHANGED <<posts, taken, pc, sockets, gone>>

\* Mutant of GivesUp: no error ends the loop.
NeverStops == FALSE

\* Neither EINTR nor EAGAIN: the connection is closed or reset.
GivesUp == Refuses

\* The loop ends, with all bytes sent or with an error.
Finish ==
    /\ Sending
    /\ ptr = Current.size \/ GivesUp
    /\ pc' = "dequeue"
    /\ UNCHANGED <<posts, taken, ptr, sockets, clients, stream>>

SendTask == Dequeue \/ Send \/ Finish

-----------------------------------------------------------------------------
Next ==
    \/ \E f \in Fds : Accept(f) \/ CloseFd(f) \/ \E s \in Sizes : Post(f, s)
    \/ \E c \in Conns : Read(c) \/ Leave(c)
    \/ SendTask

\* The thread runs; a client that stays reads what is there for it.
Spec ==
    /\ Init /\ [][Next]_vars
    /\ WF_vars(SendTask)
    /\ \A c \in Conns : WF_vars(Read(c))

-----------------------------------------------------------------------------
(* What holds.                                                             *)

\* The variables keep their types, and every byte a client has not read has
\* been sent to it.
TypeOK ==
    /\ posts \in Seq([fd : Fds, size : Sizes])
    /\ taken \in 0 .. Len(posts)
    /\ pc \in {"dequeue", "send"}
    /\ Sending => taken > 0 /\ ptr \in 0 .. Current.size
    /\ accepted \in 0 .. MaxConns
    /\ conn \in [Fds -> 0 .. accepted]
    /\ gone \subseteq Conns /\ heirs \subseteq Conns
    /\ unread \in [Conns -> 0 .. Room]
    /\ \A c \in Conns : unread[c] <= Len(stream[c])

\* Byte b may come after byte a: it is the next of the message, or the first
\* of the next message for that descriptor.
Follows(b, a) ==
    \/ b.post = a.post /\ b.byte = a.byte + 1
    \/ /\ a.byte = posts[a.post].size /\ b.byte = 1
       /\ a.post < b.post
       /\ \A i \in a.post + 1 .. b.post - 1 : posts[i].fd # posts[a.post].fd

\* After the first message a client receives, or the tail of one, whole
\* messages follow, in the order they were posted and none left out: however
\* descriptors are given away, a client that has found the beginning of a
\* message once finds the beginning of every other.
WholeAndInOrder ==
    \A c \in Conns : \A k \in 2 .. Len(stream[c]) : Follows(stream[c][k], stream[c][k - 1])

\* Only a client that came while a message to the last owner of its descriptor
\* was being sent begins with a tail.
OnlyHeirsGetTails ==
    \A c \in Conns : stream[c] # <<>> /\ stream[c][1].byte # 1 => c \in heirs

\* Every message is done with in the end: a client that does not read holds
\* up all the others, but only until it reads on or leaves.
EveryPostEnds ==
    \A i \in 1 .. MaxPosts : (Len(posts) >= i) ~> (taken >= i /\ (taken = i => ~Sending))

=============================================================================
