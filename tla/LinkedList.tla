----------------------------- MODULE LinkedList -----------------------------
(***************************************************************************)
(* src/list.c and src/queue.c: a doubly linked list, and a queue made of   *)
(* it.  No operation is protected by a lock; a list has one user.  A node  *)
(* stands for itself and its copy of the data, allocated and freed         *)
(* together.  There is memory for every push (a push does not look).       *)
(***************************************************************************)
EXTENDS Naturals, Sequences, SequencesExt

CONSTANTS Nodes, Null, Data, MaxSteps

ListConstants == Null \notin Nodes

VARIABLES lhead, ltail, list_size, lnext, lprev, ldata, live,
          buffer,     \* what dequeue left in its caller's buffer
          contents,   \* auxiliary: the data in the list, in their order
          lorder,     \* auxiliary: their nodes
          taken,      \* auxiliary: the data dequeue removed
          steps

vars == <<lhead, ltail, list_size, lnext, lprev, ldata, live, buffer, contents, lorder, taken, steps>>

\* new_list.  Memory is not cleared.
Init == /\ lhead = Null /\ ltail = Null /\ list_size = 0
        /\ lnext = [n \in Nodes |-> Null] /\ lprev = [n \in Nodes |-> Null]
        /\ \E d \in Data : ldata = [n \in Nodes |-> d] /\ buffer = d /\ taken = d
        /\ live = {} /\ contents = <<>> /\ lorder = <<>> /\ steps = 0

Count == steps < MaxSteps /\ steps' = steps + 1

-----------------------------------------------------------------------------
PushFront(n, d) ==
    /\ Count /\ n \notin live /\ live' = live \cup {n} /\ ldata' = [ldata EXCEPT ![n] = d]
    /\ lnext' = [lnext EXCEPT ![n] = lhead]
    /\ lprev' = [m \in Nodes |-> IF m = n THEN Null ELSE IF m = lhead THEN n ELSE lprev[m]]
    /\ lhead' = n /\ ltail' = (IF ltail = Null THEN n ELSE ltail)
    /\ list_size' = list_size + 1 /\ contents' = <<d>> \o contents
    /\ lorder' = <<n>> \o lorder /\ UNCHANGED <<buffer, taken>>

\* list_push_back, enqueue.
PushBack(n, d) ==
    /\ Count /\ n \notin live /\ live' = live \cup {n} /\ ldata' = [ldata EXCEPT ![n] = d]
    /\ lnext' = [m \in Nodes |-> IF m = n THEN Null ELSE IF m = ltail THEN n ELSE lnext[m]]
    /\ lprev' = [lprev EXCEPT ![n] = ltail]
    /\ ltail' = n /\ lhead' = (IF lhead = Null THEN n ELSE lhead)
    /\ list_size' = list_size + 1 /\ contents' = Append(contents, d)
    /\ lorder' = Append(lorder, n) /\ UNCHANGED <<buffer, taken>>

\* The tail keeps pointing at the node that is freed.
UnlinkTailKept(n) ==
    /\ lnext' = [m \in Nodes |-> IF m = lprev[n] THEN lnext[n] ELSE lnext[m]]
    /\ lprev' = [m \in Nodes |-> IF m = lnext[n] THEN lprev[n] ELSE lprev[m]]
    /\ lhead' = (IF lhead = n THEN lnext[n] ELSE lhead) /\ UNCHANGED ltail
    /\ live' = live \ {n} /\ list_size' = list_size - 1

Unlink(n) ==
    /\ lnext' = [m \in Nodes |-> IF m = lprev[n] THEN lnext[n] ELSE lnext[m]]
    /\ lprev' = [m \in Nodes |-> IF m = lnext[n] THEN lprev[n] ELSE lprev[m]]
    /\ lhead' = (IF lhead = n THEN lnext[n] ELSE lhead)
    /\ ltail' = (IF ltail = n THEN lprev[n] ELSE ltail)
    /\ live' = live \ {n} /\ list_size' = list_size - 1

\* list_delete_node: a node of the list, wherever it is.
DeleteNode(n) ==
    /\ Count /\ n \in live /\ Unlink(n)
    /\ \E k \in DOMAIN lorder :
         lorder[k] = n /\ contents' = RemoveAt(contents, k) /\ lorder' = RemoveAt(lorder, k)
    /\ UNCHANGED <<ldata, buffer, taken>>

\* list_delete_head sets the tail to null, not to lprev, when it was the only
\* node: lprev is null then.
DeleteHead ==
    /\ Count /\ lhead # Null
    /\ lhead' = lnext[lhead] /\ lprev' = [m \in Nodes |-> IF m = lnext[lhead] THEN Null ELSE lprev[m]]
    /\ ltail' = (IF ltail = lhead THEN Null ELSE ltail)
    /\ live' = live \ {lhead} /\ list_size' = list_size - 1 /\ contents' = Tail(contents)
    /\ lorder' = Tail(lorder) /\ UNCHANGED <<lnext, ldata, buffer, taken>>

DeleteTail ==
    /\ Count /\ ltail # Null
    /\ ltail' = lprev[ltail] /\ lnext' = [m \in Nodes |-> IF m = lprev[ltail] THEN Null ELSE lnext[m]]
    /\ lhead' = (IF lhead = ltail THEN Null ELSE lhead)
    /\ live' = live \ {ltail} /\ list_size' = list_size - 1 /\ contents' = Front(contents)
    /\ lorder' = Front(lorder) /\ UNCHANGED <<lprev, ldata, buffer, taken>>

\* dequeue looks at list_size, copies and deletes the head.
Dequeue ==
    /\ list_size # 0 /\ buffer' = ldata[lhead] /\ Count
    /\ lhead' = lnext[lhead] /\ lprev' = [m \in Nodes |-> IF m = lnext[lhead] THEN Null ELSE lprev[m]]
    /\ ltail' = (IF ltail = lhead THEN Null ELSE ltail)
    /\ live' = live \ {lhead} /\ list_size' = list_size - 1 /\ contents' = Tail(contents)
    /\ lorder' = Tail(lorder) /\ taken' = Head(contents) /\ UNCHANGED <<lnext, ldata>>

\* The nodes a walk along next meets from the head on, as in list_for_each.
Reached == {n \in Nodes : \A S \in SUBSET Nodes :
              lhead \in S \cup {Null} /\ (\A m \in S : lnext[m] \in S \cup {Null}) => n \in S}

\* destroy_list: from the head on; then new_list.
Destroy ==
    /\ Count /\ live' = live \ Reached
    /\ lhead' = Null /\ ltail' = Null /\ list_size' = 0 /\ contents' = <<>> /\ lorder' = <<>>
    /\ UNCHANGED <<lnext, lprev, ldata, buffer, taken>>

-----------------------------------------------------------------------------
Next == \/ \E n \in Nodes : DeleteNode(n) \/ \E d \in Data : PushFront(n, d) \/ PushBack(n, d)
        \/ DeleteHead \/ DeleteTail \/ Dequeue \/ Destroy

Spec == Init /\ [][Next]_vars

-----------------------------------------------------------------------------
(* Properties.                                                             *)

\* Through any sequence of calls the list holds the data it should, in their
\* order, read forward and backward; its size is their number, dequeue copied
\* the first, and a node is allocated exactly as long as it is in the list: no
\* node is freed that can still be reached, and destroy_list leaves none behind.
NodeAt(k) == IF k \in DOMAIN lorder THEN lorder[k] ELSE Null
ListExact ==
    /\ lhead = NodeAt(1) /\ ltail = NodeAt(Len(lorder))
    /\ \A k \in DOMAIN lorder :
         /\ lnext[lorder[k]] = NodeAt(k + 1) /\ lprev[lorder[k]] = NodeAt(k - 1)
         /\ ldata[lorder[k]] = contents[k]
    /\ Len(contents) = Len(lorder) /\ list_size = Len(contents)
    /\ live = ToSet(lorder) /\ buffer = taken
=============================================================================
