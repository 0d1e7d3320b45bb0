----------------------------- MODULE FusedPathOps -----------------------------
(***************************************************************************)
(* The list of reference-counted nodes under the fused queue and deque     *)
(* (src/structures/listqueue.go, dequeue.go).  Every source occupies a run *)
(* of neighbouring nodes, from its head to its tail, with one element in   *)
(* each; a node holds the XOR of its elements and counts them.             *)
(*                                                                         *)
(* A list is [nodes, heads, tails].  Nodes are a sequence, and a pointer   *)
(* to a node is its position, 0 when nil, so positions behind a node move  *)
(* when it is removed.  No pointer to a removed node is left: one with     *)
(* count 0 is on no run, see RunsCounted, and one that is merged away has  *)
(* been replaced in all heads and tails.                                   *)
(***************************************************************************)
EXTENDS FusedWords

EmptyList == [nodes |-> <<>>,
              heads |-> [s \in Source |-> 0],
              tails |-> [s \in Source |-> 0]]

FreshNode == [value |-> 0, refCount |-> 0]

Joined(node, value) == [value |-> Xor(node.value, value), refCount |-> node.refCount + 1]
Parted(node, value) == [value |-> Xor(node.value, value), refCount |-> node.refCount - 1]

\* The nodes of the run of source s.
Run(list, s) == IF list.heads[s] = 0 THEN {} ELSE list.heads[s] .. list.tails[s]

-----------------------------------------------------------------------------
(* Adding an element at an end                                             *)

AddBack(list, s, value) ==
    LET empty == list.tails[s] = 0
        at == IF empty THEN 1 ELSE list.tails[s] + 1
        nodes == IF at > Len(list.nodes) THEN Append(list.nodes, FreshNode) ELSE list.nodes
    IN  [nodes |-> [nodes EXCEPT ![at] = Joined(@, value)],
         heads |-> [list.heads EXCEPT ![s] = IF empty THEN at ELSE @],
         tails |-> [list.tails EXCEPT ![s] = at]]

\* A fresh node before all others.
PrependForgetsTails(list) ==
    [nodes |-> <<FreshNode>> \o list.nodes,
     heads |-> [s \in Source |-> IF list.heads[s] = 0 THEN 0 ELSE list.heads[s] + 1],
     tails |-> list.tails]
PrependNode(list) ==
    LET Moved(pointers) == [s \in Source |-> IF pointers[s] = 0 THEN 0 ELSE pointers[s] + 1]
    IN  [nodes |-> <<FreshNode>> \o list.nodes,
         heads |-> Moved(list.heads),
         tails |-> Moved(list.tails)]

AddFront(list, s, value) ==
    LET empty == list.heads[s] = 0
        before == IF empty THEN Len(list.nodes) ELSE list.heads[s] - 1
        roomy == IF before = 0 THEN PrependNode(list) ELSE list
        at == IF before = 0 THEN 1 ELSE before
    IN  [nodes |-> [roomy.nodes EXCEPT ![at] = Joined(@, value)],
         heads |-> [roomy.heads EXCEPT ![s] = at],
         tails |-> [roomy.tails EXCEPT ![s] = IF empty THEN at ELSE @]]

-----------------------------------------------------------------------------
(* Removing an element at an end                                           *)

RemoveNode(list, i) ==
    LET Moved(pointers) == [s \in Source |-> IF pointers[s] > i THEN pointers[s] - 1 ELSE pointers[s]]
    IN  [nodes |-> RemoveAt(list.nodes, i),
         heads |-> Moved(list.heads),
         tails |-> Moved(list.tails)]

\* Node i takes in the node after it, and whoever pointed to that one.
MergeKeepsValue(list, i) ==
    LET Redirected(pointers) == [s \in Source |-> IF pointers[s] = i + 1 THEN i ELSE pointers[s]]
    IN  RemoveNode([nodes |-> [list.nodes EXCEPT ![i].refCount = @ + list.nodes[i + 1].refCount],
                    heads |-> Redirected(list.heads),
                    tails |-> Redirected(list.tails)],
                   i + 1)
Merge(list, i) ==
    LET right == list.nodes[i + 1]
        Redirected(pointers) == [s \in Source |-> IF pointers[s] = i + 1 THEN i ELSE pointers[s]]
    IN  RemoveNode([nodes |-> [list.nodes EXCEPT ![i] =
                                  [value    |-> Xor(@.value, right.value),
                                   refCount |-> @.refCount + right.refCount]],
                    heads |-> Redirected(list.heads),
                    tails |-> Redirected(list.tails)],
                   i + 1)

\* A node that holds nothing any more is removed.
Drop(list, i) == IF list.nodes[i].refCount = 0 THEN RemoveNode(list, i) ELSE list

\* Two neighbours may be merged when each holds one element.
SingleAnyCount(list, i) == i \in 1 .. Len(list.nodes) - 1
Single(list, i) ==
    /\ i \in 1 .. Len(list.nodes) - 1
    /\ list.nodes[i].refCount = 1
    /\ list.nodes[i + 1].refCount = 1

\* The first element of source s, which is value, leaves; last says that s has
\* no other.
TakeFront(list, s, value, last) ==
    LET h == list.heads[s]
        parted == [nodes |-> [list.nodes EXCEPT ![h] = Parted(@, value)],
                   heads |-> [list.heads EXCEPT ![s] = IF last THEN 0 ELSE h + 1],
                   tails |-> [list.tails EXCEPT ![s] = IF last THEN 0 ELSE @]]
        dropped == Drop(parted, h)
        before == dropped.heads[s] - 1
    IN  IF ~last /\ Single(dropped, before) THEN Merge(dropped, before) ELSE dropped

TakeBack(list, s, value, last) ==
    LET t == list.tails[s]
        parted == [nodes |-> [list.nodes EXCEPT ![t] = Parted(@, value)],
                   heads |-> [list.heads EXCEPT ![s] = IF last THEN 0 ELSE @],
                   tails |-> [list.tails EXCEPT ![s] = IF last THEN 0 ELSE t - 1]]
        dropped == Drop(parted, t)
        tail == dropped.tails[s]
    IN  IF ~last /\ Single(dropped, tail) THEN Merge(dropped, tail) ELSE dropped

-----------------------------------------------------------------------------
(* Recovery                                                                *)

PathSurvivorsFit(list, missing, survivors) ==
    /\ missing \in Source
    /\ DOMAIN survivors = Source \ {missing}
    /\ \A s \in DOMAIN survivors : Len(survivors[s]) = Cardinality(Run(list, s))

\* Node i with the elements of the survivors XORed out of it.
RecoverElement(list, i, survivors) ==
    LET here == {s \in DOMAIN survivors : i \in Run(list, s)}
    IN  Xor(list.nodes[i].value,
            XorOver([s \in here |-> survivors[s][i - list.heads[s] + 1]], here))

RecoverRun(list, missing, survivors) ==
    [n \in 1 .. Cardinality(Run(list, missing)) |->
        RecoverElement(list, list.heads[missing] + n - 1, survivors)]
=============================================================================
