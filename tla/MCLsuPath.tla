----------------------------- MODULE MCLsuPath -----------------------------
(* A load and a store of each shape that differs to the path: single and    *)
(* split, buffered or not, and blocked in the first or the second half.     *)
EXTENDS LsuPath

Access(we, attrs) == [kind |-> "lsu", we |-> we, attrs |-> attrs]

MCAccesses ==
  {Access(FALSE, attrs) : attrs \in {<<"fault">>, <<"plain", "plain">>,
                                     <<"watch", "plain">>}}
    \cup {Access(TRUE, attrs) : attrs \in {<<"buffered">>,
                                           <<"buffered", "fault">>}}
=============================================================================
