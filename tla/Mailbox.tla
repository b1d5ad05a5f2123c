------------------------------ MODULE Mailbox ------------------------------
(***************************************************************************)
(* src/rpi-mailbox.c and src/rpi-mailbox-interface.c: requests to the      *)
(* firmware of the graphics processor, through the buffer pt that both     *)
(* sides write and two queues of the mailbox.  One task asks at a time (it *)
(* is not protected by a lock).  The buffer is never cleared: behind the   *)
(* terminator of a request words of earlier ones remain.                   *)
(***************************************************************************)
EXTENDS Integers, Sequences

CONSTANTS Sizes,    \* words of a supported tag's value, a function of the tag
          Tags,     \* supported tags and others
          Answers,  \* word a tag's request is answered with
          Args,     \* arguments
          PtSize, MaxTags, MaxRequests, MaxOther, Full  \* bounds; depth of a queue

MailboxConstants ==
    /\ DOMAIN Sizes \subseteq Tags /\ \A t \in Tags : t \in Nat /\ t > 4 * PtSize
    /\ \A t \in DOMAIN Sizes : Sizes[t] \in 1..3 /\ Answers[t] \in Int
    /\ Args \subseteq Int /\ PtSize \in Nat /\ PtSize > 3

VARIABLES pt, pt_index,
          pc, asked,     \* the task; auxiliary: what it added to the request, and where
          want, index,   \* RPI_PropertyGet: its argument, its loop
          property,      \* what it returned: a record, or none
          toVc, toArm,   \* the two queues: channels of the values in them
          vc,            \* the firmware: the tag it is at, or 0
          requests, others, \* counts
          behind         \* auxiliary: the word behind the terminator

vars == <<pt, pt_index, pc, asked, want, index, property, toVc, toArm, vc, requests, others, behind>>

Property == 8
NoProperty == [len |-> -1, value |-> 0]

Init == /\ pt = [i \in 0..(PtSize - 1) |-> 0] /\ pt_index = 0 /\ pc = "idle" /\ asked = <<>> /\ want = 0
        /\ index = 0 /\ property = NoProperty /\ toVc = <<>> /\ toArm = <<>> /\ vc = 0
        /\ requests = 0 /\ others = 0 /\ behind = 0

-----------------------------------------------------------------------------
\* RPI_PropertyInit.
PropertyInit ==
    /\ pc = "idle" /\ requests < MaxRequests /\ requests' = requests + 1
    /\ pt' = [pt EXCEPT ![0] = 12, ![1] = 0, ![2] = 0] /\ pt_index' = 2
    /\ pc' = "add" /\ asked' = <<>>
    /\ UNCHANGED <<want, index, property, toVc, toArm, vc, others, behind>>

\* A tag, the size of its value, a 0 and its arguments (a GET leaves some of
\* the words as they are); an unsupported tag is taken away again.
PropertyAddTag(t, a) ==
    /\ pc = "add" /\ Len(asked) < MaxTags
    /\ IF t \in DOMAIN Sizes
         THEN LET n == pt_index + 3 + Sizes[t]
              IN  /\ n + 1 < PtSize /\ pt_index' = n
                  /\ pt' = [pt EXCEPT ![pt_index] = t, ![pt_index + 1] = 4 * Sizes[t], ![pt_index + 2] = 0,
                                      ![pt_index + 3] = a, ![n] = 0]
                  /\ asked' = Append(asked, [tag |-> t, arg |-> a, place |-> pt_index])
         ELSE pt' = [pt EXCEPT ![pt_index] = 0] /\ UNCHANGED <<pt_index, asked>>
    /\ UNCHANGED <<pc, want, index, property, toVc, toArm, vc, requests, others, behind>>

\* RPI_PropertyProcess; RPI_Mailbox0Write waits while the queue is full.
PropertyProcess ==
    /\ pc = "add" /\ Len(toVc) < Full
    /\ pt' = [pt EXCEPT ![0] = 4 * (pt_index + 1), ![1] = 0] /\ behind' = pt[pt_index + 1]
    /\ toVc' = Append(toVc, Property) /\ pc' = "read"
    /\ UNCHANGED <<pt_index, asked, want, index, property, toArm, vc, requests, others>>

\* The first value ends the wait.
ReadAny ==
    /\ pc = "read" /\ toArm # <<>> /\ toArm' = Tail(toArm) /\ pc' = "got"
    /\ UNCHANGED <<pt, pt_index, asked, want, index, property, toVc, vc, requests, others, behind>>

\* RPI_Mailbox0Read: values of other channels are read and dropped.
Read ==
    /\ pc = "read" /\ toArm # <<>> /\ toArm' = Tail(toArm)
    /\ pc' = (IF Head(toArm) = Property THEN "got" ELSE "read")
    /\ UNCHANGED <<pt, pt_index, asked, want, index, property, toVc, vc, requests, others, behind>>

-----------------------------------------------------------------------------
(* RPI_PropertyGet, one tag of the buffer after the other.                 *)

PropertyGet(t) ==
    /\ pc = "got" /\ pc' = "get" /\ want' = t /\ index' = 2
    /\ UNCHANGED <<pt, pt_index, asked, property, toVc, toArm, vc, requests, others, behind>>

\* A negative size takes the index before the buffer, or nowhere for ever.
Find ==
    /\ pc = "get"
    /\ IF index >= pt[0] \div 4 THEN pc' = "done" /\ property' = NoProperty /\ UNCHANGED index
       ELSE IF pt[index] = want
         THEN /\ pc' = "done" /\ UNCHANGED index
              /\ property' = [len |-> pt[index + 2], value |-> pt[index + 3]]
       ELSE LET i == index + (pt[index + 1] \div 4) + 3
            IN  IF i > index THEN index' = i /\ UNCHANGED <<pc, property>>
                ELSE pc' = "wild" /\ UNCHANGED <<index, property>>
    /\ UNCHANGED <<pt, pt_index, asked, want, toVc, toArm, vc, requests, others, behind>>

\* The caller goes on; after another request, or another tag of this one.
Use == /\ pc = "done" /\ pc' \in {"idle", "got"} /\ want' = 0 /\ index' = 0 /\ property' = NoProperty
       /\ UNCHANGED <<pt, pt_index, asked, toVc, toArm, vc, requests, others, behind>>

-----------------------------------------------------------------------------
(* The firmware.                                                           *)

\* It takes a request and walks its tags; for each it sets the answer's length
\* and its first word (the request's argument, the answer's meaning), and for a
\* long value a last one.
Fetch ==
    /\ toVc # <<>> /\ vc = 0 /\ toVc' = Tail(toVc) /\ vc' = 2
    /\ UNCHANGED <<pt, pt_index, pc, asked, want, index, property, toArm, requests, others, behind>>

Answer ==
    /\ vc # 0
    /\ IF pt[vc] = 0 \/ vc >= pt[0] \div 4
         THEN pt' = [pt EXCEPT ![1] = 1] /\ vc' = 0 /\ toArm' = Append(toArm, Property)
         ELSE /\ pt' = [i \in DOMAIN pt |->
                          CASE i = vc + 2 -> pt[vc + 1] [] i = vc + 3 -> pt[i] + Answers[pt[vc]]
                            [] i = vc + 5 /\ pt[vc + 1] = 12 -> -40 [] OTHER -> pt[i]]
              /\ vc' = vc + 3 + (pt[vc + 1] \div 4) /\ UNCHANGED toArm
    /\ UNCHANGED <<pt_index, pc, asked, want, index, property, toVc, requests, others, behind>>

\* Something for another user of the mailbox.
OtherChannel ==
    /\ others < MaxOther /\ others' = others + 1 /\ toArm' = Append(toArm, 1)
    /\ UNCHANGED <<pt, pt_index, pc, asked, want, index, property, toVc, vc, requests, behind>>

-----------------------------------------------------------------------------
Ask == PropertyInit \/ (\E t \in Tags, a \in Args : PropertyAddTag(t, a)) \/ PropertyProcess \/ Read
Next == Ask \/ (\E t \in Tags : PropertyGet(t)) \/ Find \/ Use \/ Fetch \/ Answer \/ OtherChannel

Spec == Init /\ [][Next]_vars

-----------------------------------------------------------------------------
(* Properties.                                                             *)

\* RPI_PropertyGet returns the firmware's answer to the first request for the
\* tag that was made since RPI_PropertyInit, complete, whatever earlier
\* requests left in the buffer and whatever came through other channels, and
\* nothing for a tag that was not asked for; for such a tag it may run out of
\* the buffer, but only if a negative word was left behind the terminator.
OwnAnswer ==
    /\ pc = "done" =>
         LET mine == {k \in DOMAIN asked : asked[k].tag = want}
         IN  IF mine = {} THEN property = NoProperty
             ELSE \E k \in mine : /\ \A m \in mine : k <= m
                                  /\ property = [len |-> 4 * Sizes[want], value |-> asked[k].arg + Answers[want]]
    /\ pc = "wild" => behind < 0 /\ \A k \in DOMAIN asked : asked[k].tag # want
=============================================================================
