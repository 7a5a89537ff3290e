----------------------------- MODULE ThreadList -----------------------------
(***************************************************************************)
(* list.c: the linked list in which the main thread keeps the threads it   *)
(* created, to cancel them at shutdown.  head is the member of the List    *)
(* structure, NULL when the list is empty and NoList when there is no such *)
(* structure; node maps the address of each Node that malloc returned and  *)
(* nobody freed to its contents.  Only the main thread uses it.            *)
(***************************************************************************)
EXTENDS Naturals, Sequences, FiniteSets

CONSTANTS NULL,    \* the address of no node
          NoList   \* head, when there is no List structure

ASSUME NoListIsNotEmpty == NoList # NULL
ASSUME NodesAreSomewhere == NULL \notin Nat \ {0} /\ NoList \notin Nat \ {0}

VARIABLES head, node

listVars == <<head, node>>

Allocated == DOMAIN node

ListInit == head = NoList /\ node = [a \in {} |-> NULL]

(* The nodes from the head on, in the order the while loops meet them.     *)
Nodes ==
    LET from[a \in Allocated] ==
            <<a>> \o (IF node[a].next = NULL THEN <<>> ELSE from[node[a].next])
    IN  IF head \in {NULL, NoList} THEN <<>> ELSE from[head]

Listed == [i \in DOMAIN Nodes |-> node[Nodes[i]].data]

make_list == head' = NULL /\ UNCHANGED node
make_list_fails == UNCHANGED listVars

NewNode == Cardinality(Allocated) + 1
create_node(thread, others) ==
    [a \in (DOMAIN others) \cup {NewNode} |->
        IF a = NewNode THEN [data |-> thread, next |-> NULL] ELSE others[a]]

(* Mutant of list_add: the loop stops one node after the head.             *)
list_add_second(thread) ==
    IF head = NULL
      THEN /\ head' = NewNode
           /\ node' = create_node(thread, node)
      ELSE /\ node' = create_node(thread, [node EXCEPT ![head].next = NewNode])
           /\ UNCHANGED head

(* The new node goes behind the last one, where next is NULL.              *)
list_add(thread) ==
    IF head = NULL
      THEN /\ head' = NewNode
           /\ node' = create_node(thread, node)
      ELSE /\ node' = create_node(thread,
                         [node EXCEPT ![Nodes[Len(Nodes)]].next = NewNode])
           /\ UNCHANGED head

(* malloc failed in create_node: the pointer is set to the NULL it was.    *)
list_add_fails == UNCHANGED listVars

(* Every node is freed, its next read before, and then the List itself.    *)
list_destroy ==
    /\ node' = [a \in Allocated \ {Nodes[i] : i \in DOMAIN Nodes} |-> node[a]]
    /\ head' = NoList
=============================================================================
