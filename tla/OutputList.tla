------------------------------ MODULE OutputList ------------------------------
(***************************************************************************)
(* class output_list of backend_private.hh: the queue of text a            *)
(* backend_device has been asked to write.  It is one std::forward_list    *)
(* and two iterators into it, so that the same list holds what was written *)
(* and awaits an answer (the front part, up to send_iter) and what still   *)
(* has to be written (from send_iter on).                                  *)
(*                                                                         *)
(* An iterator of a forward_list is the address of a node.  A node is a    *)
(* record [addr, data]; the allocator hands out any free address, the one  *)
(* of a node popped a moment ago included.  An iterator whose node is gone *)
(* dangles: NodeAt is then unspecified.                                    *)
(***************************************************************************)
EXTENDS Integers, Sequences

CONSTANTS
    Addr,          \* the addresses a list node can have
    Msg,           \* what can be written to the device
    End,           \* list.end()
    BeforeBegin    \* list.before_begin()

ASSUME IteratorAssumption ==
    /\ End \notin Addr
    /\ BeforeBegin \notin Addr

Node == [addr: Addr, data: Msg]

OutputLists ==
    [ list        : Seq(Node),
      send_iter   : Addr \union {End},
      insert_iter : Addr \union {BeforeBegin} ]

-----------------------------------------------------------------------------
\* The constructor, and what clear() leaves.
EmptyOutput == [list |-> <<>>, send_iter |-> End, insert_iter |-> BeforeBegin]

Addrs(o) == { o.list[i].addr : i \in DOMAIN o.list }

\* Where the node an iterator points to stands in the list.
Position(o, it) == CHOOSE i \in DOMAIN o.list : o.list[i].addr = it

NodeAt(o, it) == o.list[Position(o, it)]

\* list.begin(), which is list.end() for an empty list.
BeginOf(o) == IF o.list = <<>> THEN End ELSE o.list[1].addr

\* ++it
NextOf(o, it) ==
    IF Position(o, it) = Len(o.list) THEN End ELSE o.list[Position(o, it) + 1].addr

\* list.insert_after(it, node)
InsertAfter(o, it, node) ==
    IF it = BeforeBegin
      THEN <<node>> \o o.list
      ELSE SubSeq(o.list, 1, Position(o, it))
             \o <<node>>
             \o SubSeq(o.list, Position(o, it) + 1, Len(o.list))

-----------------------------------------------------------------------------
(* The operations of the class. *)

Push(o, node) ==
    [ list        |-> InsertAfter(o, o.insert_iter, node),
      insert_iter |-> node.addr,
      send_iter   |-> IF o.send_iter = End THEN node.addr ELSE o.send_iter ]

Pop(o) ==
    [ list        |-> Tail(o.list),
      send_iter   |-> o.send_iter,
      insert_iter |-> IF o.insert_iter = BeginOf(o) THEN BeforeBegin ELSE o.insert_iter ]

\* Mutant of ToSend: send_iter is returned and not stepped.
ToSendStays(o) == o

\* to_send() returns send_iter and steps it over the node it returns.
ToSend(o) ==
    IF o.send_iter = End THEN o ELSE [o EXCEPT !.send_iter = NextOf(o, o.send_iter)]

-----------------------------------------------------------------------------
(* What the list stands for. *)

\* How many nodes, from the front, have been written.  inptr() is the first of
\* them, or NULL if there is none.
SentLen(o) ==
    IF o.send_iter = End THEN Len(o.list) ELSE Position(o, o.send_iter) - 1

\* Mutant of PopN: pop() leaves insert_iter at the node it erases.
PopNKeepsInsert(o, n) == [o EXCEPT !.list = SubSeq(o.list, n + 1, Len(o.list))]

\* n calls of remove_output in a row, each of which pops the front.
PopN(o, n) ==
    [ list        |-> SubSeq(o.list, n + 1, Len(o.list)),
      send_iter   |-> o.send_iter,
      insert_iter |-> IF \E i \in 1 .. n : o.insert_iter = o.list[i].addr
                        THEN BeforeBegin ELSE o.insert_iter ]

DataOf(nodes) == [i \in DOMAIN nodes |-> nodes[i].data]

SentNodes(o)   == SubSeq(o.list, 1, SentLen(o))
UnsentNodes(o) == SubSeq(o.list, SentLen(o) + 1, Len(o.list))

-----------------------------------------------------------------------------
(* The shape every operation relies on: no two nodes share an address,     *)
(* insert_iter is the last node (or before_begin of an empty list), and    *)
(* send_iter is a node of the list or end().                               *)
Distinct(o) ==
    \A i, j \in DOMAIN o.list : o.list[i].addr = o.list[j].addr => i = j

InsertAtLast(o) ==
    o.insert_iter = IF o.list = <<>> THEN BeforeBegin ELSE o.list[Len(o.list)].addr

SendInList(o) == o.send_iter = End \/ o.send_iter \in Addrs(o)

WellFormed(o) == Distinct(o) /\ InsertAtLast(o) /\ SendInList(o)
=============================================================================
