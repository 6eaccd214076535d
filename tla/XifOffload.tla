----------------------------- MODULE XifOffload -----------------------------
(***************************************************************************)
(* What an in-order coprocessor promises the core over CORE-V-XIF.  It     *)
(* holds a bounded queue of the instructions it accepted, oldest first.    *)
(* In every cycle it may take a new one, be told that one of them is       *)
(* committed or killed, and hand back the result of the oldest, provided   *)
(* that one is committed.  A killed instruction leaves without a result.   *)
(***************************************************************************)
EXTENDS Naturals, Sequences, SequencesExt

CONSTANTS Ids, Data, Capacity

VARIABLE queue

Entry == [id : Ids, data : Data, committed : BOOLEAN]

IdsOf(q) == {q[k].id : k \in DOMAIN q}

Init == queue = <<>>

\* What can happen to the queue in a cycle, as functions of it: a set of ids
\* that is empty says that the cycle has no such event.
Returned(q, ret) == IF ret THEN Tail(q) ELSE q

\* At most one entry has the id that is killed.
Killed(q, kills) ==
  LET at == {k \in DOMAIN q : q[k].id \in kills}
  IN  IF at = {} THEN q ELSE RemoveAt(q, CHOOSE k \in at : TRUE)

Decided(q, commits) ==
  [k \in DOMAIN q |->
     [q[k] EXCEPT !.committed = @ \/ q[k].id \in commits]]

AtMostOne(S) == {{}} \cup {{s} : s \in S}

NewEntry == [id : Ids, data : Data, committed : {FALSE}]

\* One cycle takes the queue from q to r.  A committed instruction is never
\* killed, and an id is free again in the cycle in which its result is handed
\* back.
Cycle(q, r) ==
  \E ret \in BOOLEAN, commits \in AtMostOne(Ids), kills \in AtMostOne(Ids) :
    LET left == Returned(q, ret)
        kept == Decided(Killed(left, kills), commits)
    IN  /\ ret => q # <<>> /\ q[1].committed
        /\ \A k \in DOMAIN q : q[k].committed => q[k].id \notin kills
        /\ \/ r = kept
           \/ \E new \in NewEntry :
                new.id \notin IdsOf(left) /\ r = Append(kept, new)
        /\ Len(r) <= Capacity

Next == Cycle(queue, queue')

Spec == Init /\ [][Next]_queue

=============================================================================
