------------------------------- MODULE Channel -------------------------------
(***************************************************************************)
(* What a connection promises to the code behind it: the client's messages *)
(* come out whole, in the order they were sent, none twice and none left   *)
(* out, until the connection is cut.                                       *)
(***************************************************************************)
EXTENDS Naturals, Sequences

CONSTANT Conns

VARIABLES sent, taken, cut

vars == <<sent, taken, cut>>

Init ==
    /\ sent = [c \in Conns |-> <<>>]
    /\ taken = [c \in Conns |-> <<>>]
    /\ cut = [c \in Conns |-> FALSE]

\* Any message.  A client that has not noticed the cut goes on sending.
Send(c) ==
    /\ Len(sent'[c]) > 0
    /\ sent' = [sent EXCEPT ![c] = Append(@, sent'[c][Len(sent'[c])])]
    /\ UNCHANGED <<taken, cut>>

Take(c) ==
    /\ ~cut[c]
    /\ Len(taken[c]) < Len(sent[c])
    /\ taken' = [taken EXCEPT ![c] = Append(@, sent[c][Len(@) + 1])]
    /\ UNCHANGED <<sent, cut>>

Cut(c) ==
    /\ cut' = [cut EXCEPT ![c] = TRUE]
    /\ UNCHANGED <<sent, taken>>

Next == \E c \in Conns : Send(c) \/ Take(c) \/ Cut(c)

\* What has been sent is taken in the end, or the connection is cut.
Spec == Init /\ [][Next]_vars /\ \A c \in Conns : WF_vars(Take(c))
=============================================================================
