----------------------------- MODULE BuildHouse -----------------------------
(***************************************************************************)
(* The game of building a house, composed with ClassRoom.  A start collects *)
(* the students of the room into a group, the only one, and the group adds *)
(* pictures to a house, moves and deletes them.  Group and nodes know their *)
(* people by descriptor, and outlive disconnects, resets and later starts: *)
(* build_house_end is never called.                                        *)
(***************************************************************************)
EXTENDS ClassRoom, Sequences

CONSTANT MaxNodes   \* bound on the pictures added to one house

ASSUME BuildHouseAssumption == MaxNodes \in Nat

VARIABLES
    members,    \* m_buildhouse_groups: the rooms with a group, and who is in it
    nodes,      \* m_node_map of each room's house: who has made which node
    layers,     \* m_node_layer_list
    nextId,     \* m_node_id
    founding,   \* the group a start is filling, with the one who asked for it
    founder,
    present,    \* history: the students the start found, but for those who left
    astray,     \* history: that walk met a student Evloop had erased
    ids,        \* history: the ids nodes were given
    orphans     \* history: nodes whose maker's connection is gone

houses    == <<members, nodes, layers, nextId, founding, founder>>
histories == <<present, astray, ids, orphans>>
house     == <<houses, histories>>

HouseInit ==
    /\ Init
    /\ members = <<>>
    /\ nodes = [r \in Rooms |-> <<>>]
    /\ layers = [r \in Rooms |-> <<>>]
    /\ nextId = [r \in Rooms |-> 1]
    /\ founding = {} /\ founder = NoFd /\ present = {} /\ astray = FALSE
    /\ ids = [r \in Rooms |-> {}]
    /\ orphans = [r \in Rooms |-> {}]

StopsHouse(how) == Stops(how) /\ UNCHANGED house

-----------------------------------------------------------------------------
(* CT_BuildHouse_GameStart                                                 *)

\* build_house_start: a new group, filled by a walk over the students.
HouseStart(f) ==
    /\ Serve(f)
    /\ RoomsOf(f) # {}
    /\ rtPc' = "found" /\ rtRoom' = RoomOf(f)
    /\ rtAt' = Least(Seated(rtRoom'))
    /\ founding' = {} /\ founder' = f /\ present' = Seated(rtRoom')
    /\ astray' = FALSE
    /\ UNCHANGED <<room, sent, rtList, strays, members, nodes, layers, nextId, ids, orphans>>

Founding == Running /\ rtPc = "found" /\ rtAt # NoFd

\* Mutant of Found: the iterator is advanced twice.
FoundEveryOther ==
    /\ Founding
    /\ rtAt \in Seated(rtRoom)
    /\ founding' = founding \cup {rtAt}
    /\ rtAt' = After(Seated(rtRoom), After(Seated(rtRoom), rtAt))
    /\ UNCHANGED <<room, peer, sent, rtPc, rtRoom, rtList, ev, strays, overlap, status,
                   members, nodes, layers, nextId, founder, histories>>

\* One student joins the group.
Found ==
    /\ Founding
    /\ rtAt \in Seated(rtRoom)
    /\ founding' = IF seat[rtRoom][rtAt] = Null THEN founding ELSE founding \cup {rtAt}
    /\ rtAt' = After(Seated(rtRoom), rtAt)
    /\ UNCHANGED <<room, peer, sent, rtPc, rtRoom, rtList, ev, strays, overlap, status,
                   members, nodes, layers, nextId, founder, histories>>

\* Evloop has erased the student the iterator is at.
FoundDangling ==
    /\ Founding
    /\ rtAt \notin Seated(rtRoom)
    /\ \/ StopsHouse("crashed")
       \/ /\ rtAt' \in {NoFd} \cup {k \in Seated(rtRoom) : k > rtAt}
          /\ astray' = TRUE
          /\ UNCHANGED <<room, peer, sent, rtPc, rtRoom, rtList, ev, strays, overlap,
                         status, houses, present, ids, orphans>>

\* map::insert under the key 1, which every start uses.
AddGroup(map, r, group) ==
    IF r \in DOMAIN map THEN map
    ELSE [q \in DOMAIN map \cup {r} |-> IF q = r THEN group ELSE map[q]]

\* What the founder's whiteboard is told afterwards, nobody else hears of.
Founded ==
    /\ Running /\ rtPc = "found" /\ rtAt = NoFd
    /\ members' = AddGroup(members, rtRoom, founding)
    /\ rtPc' = "idle" /\ rtRoom' = 1
    /\ founding' = {} /\ founder' = NoFd /\ present' = {} /\ astray' = FALSE
    /\ UNCHANGED <<room, peer, sent, rtList, rtAt, ev, strays, overlap, status,
                   nodes, layers, nextId, ids, orphans>>

-----------------------------------------------------------------------------
(* The requests of a group's members.                                      *)

\* get_room_by_fd, then CRoom::get_group_by_fd.
InHouse(f, r) ==
    /\ RoomsOf(f) # {} /\ r = RoomOf(f)
    /\ r \in DOMAIN members /\ f \in members[r]

\* sendToOtherStudent has nobody to send to, and frees the Buf.
AloneInHouse(f, r) == Serve(f) /\ InHouse(f, r) /\ members[r] = {f}

\* Otherwise it copies as many bytes of the Buf object itself as the low half
\* of the object's first field, a pointer, happens to say, then puts the type
\* of the message into the other half: all four operations end there.
WildCopy(f, r) ==
    /\ Running /\ rtPc = "idle" /\ f \in backlog
    /\ InHouse(f, r) /\ members[r] # {f}
    /\ StopsHouse("wild copy")

\* Mutant of NewId: ids of deleted nodes are given again.
FreeId(r) == Least((1 .. MaxNodes + 1) \ DOMAIN nodes[r])

\* Mutant of NewId: the counter is read after it has been advanced.
IdAfterNext(r) == nextId[r] + 1

\* getAutoNodeId.
NewId(r) == nextId[r]

\* CT_BuildHouse_Add_Pic.
AddPic(f, r) ==
    /\ AloneInHouse(f, r)
    /\ nextId[r] <= MaxNodes
    /\ nodes' = [nodes EXCEPT ![r] = Put(@, NewId(r), f)]
    /\ nextId' = [nextId EXCEPT ![r] = @ + 1]
    /\ ids' = [ids EXCEPT ![r] = @ \cup {NewId(r)}]
    /\ orphans' = IF f \in conn THEN orphans
                  ELSE [orphans EXCEPT ![r] = @ \cup {NewId(r)}]
    /\ UNCHANGED <<room, sent, rt, strays, members, layers, founding, founder,
                   present, astray>>

\* CT_BuildHouse_Del_Pic, of any member.
DelPic(f, r, id) ==
    /\ AloneInHouse(f, r)
    /\ id \in DOMAIN nodes[r]
    /\ nodes' = [nodes EXCEPT ![r] = Erase(@, id)]
    /\ orphans' = [orphans EXCEPT ![r] = @ \ {id}]
    /\ UNCHANGED <<room, sent, rt, strays, members, layers, nextId, founding, founder,
                   present, astray, ids>>

\* CT_BuildHouse_Update, of the maker.  Where the node is, is left out.
UpdateNode(f, r, id) ==
    /\ AloneInHouse(f, r)
    /\ id \in DOMAIN nodes[r] /\ nodes[r][id] = f
    /\ UNCHANGED <<room, sent, rt, strays, house>>

\* layer_down, taken for any count since the pointer to the request is never
\* below 0.  The swaps modify an iterator they read: any order may result.
LayerDown(list, id) ==
    IF id \notin Range(list) THEN {list}
    ELSE {s \in [DOMAIN list -> Range(list)] : Range(s) = Range(list)}

\* CT_BuildHouse_Change_Layer.
ChangeLayer(f, r, id) ==
    /\ AloneInHouse(f, r)
    /\ \E list \in LayerDown(layers[r], id) : layers' = [layers EXCEPT ![r] = list]
    /\ UNCHANGED <<room, sent, rt, strays, members, nodes, nextId, founding, founder,
                   histories>>

-----------------------------------------------------------------------------
\* A request of somebody in no group, and an update or a deletion that finds no
\* node, change nothing: Other in ClassRoom.
ClassroomToo(step) ==
    /\ step
    /\ orphans' = [r \in Rooms |-> orphans[r] \cup
                      {id \in DOMAIN nodes[r] : nodes[r][id] \in conn \ conn'}]
    /\ present' = present \cap DOMAIN seat'[rtRoom]
    /\ UNCHANGED <<houses, ids, astray>>

HouseTaskStep ==
    \/ \E f \in Fds : HouseStart(f)
    \/ Found \/ FoundDangling \/ Founded
    \/ \E f \in Fds, r \in Rooms :
          \/ WildCopy(f, r) \/ AddPic(f, r)
          \/ \E id \in 1 .. MaxNodes :
                DelPic(f, r, id) \/ UpdateNode(f, r, id) \/ ChangeLayer(f, r, id)
    \/ ClassroomToo(RecvTaskStep)

HouseNext ==
    \/ ClassroomToo(Clients) \/ ClassroomToo(EvloopStep) \/ HouseTaskStep
    \/ Stopped /\ UNCHANGED house

HouseSpec ==
    /\ HouseInit /\ [][HouseNext]_<<vars, house>>
    /\ WF_<<vars, house>>(ClassroomToo(EvloopStep)) /\ WF_<<vars, house>>(HouseTaskStep)

-----------------------------------------------------------------------------
(* What holds.                                                             *)

\* The tables keep their types, and nodes exist in rooms with a group only.
HouseTypeOK ==
    /\ DOMAIN members \subseteq Rooms /\ DOMAIN nodes = Rooms
    /\ \A r \in DOMAIN members : members[r] \subseteq Fds
    /\ \A r \in Rooms : /\ DOMAIN nodes[r] \subseteq 1 .. nextId[r] - 1
                        /\ Range(nodes[r]) \subseteq Fds
                        /\ nodes[r] # <<>> => r \in DOMAIN members
    /\ nextId \in [Rooms -> 1 .. MaxNodes + 1]
    /\ founding \subseteq Fds
    /\ founder # NoFd <=> rtPc = "found"

\* An id that a client remembers never comes to mean another node: a late
\* update or deletion misses, it does not hit somebody else's picture.
IdsAreFresh ==
    [][\A r \in Rooms : \A id \in DOMAIN nodes'[r] \ DOMAIN nodes[r] : id \notin ids[r]
      ]_<<vars, house>>

\* The first start of a room takes everybody into the group who sat there when
\* it began and still sits there when it is done, whatever Evloop does to the
\* map meanwhile, unless it erased the very student the walk was at.
AllSeatedJoin ==
    [][\A r \in Rooms :
          Founded /\ rtRoom = r /\ r \notin DOMAIN members /\ ~astray
             => present \subseteq members'[r]]_<<vars, house>>

\* The node of a client that has gone is moved only by another client with the
\* same descriptor: a late request of the maker cannot touch it, except while
\* del_client is at work or the room has kept the descriptor.
OrphansNeedHeir ==
    [][\A f \in Fds, r \in Rooms : \A id \in orphans[r] :
          UpdateNode(f, r, id) => f \in conn \cup strays \cup {evFd}]_<<vars, house>>

\* Numbers ahead of the counter are unused, a group is founded in a room, and
\* the house puts nobody in a seat.
HouseInPlace ==
    /\ DOMAIN ids = Rooms
    /\ \A r \in Rooms : /\ ids[r] \subseteq 1 .. nextId[r] - 1
                        /\ Null \notin Range(seat[r])
    /\ rtPc = "found" => rtRoom \in Rooms

\* Whom the walk found at its start and who still sits there, it has taken into
\* the group or is still to come to.
SeatedAreJoining ==
    rtPc = "found" /\ ~astray =>
        /\ present \subseteq Seated(rtRoom)
        /\ \A f \in present : f \in founding \/ (rtAt # NoFd /\ rtAt <= f)

=============================================================================
