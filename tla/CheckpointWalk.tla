--------------------------- MODULE CheckpointWalk ---------------------------
(***************************************************************************)
(* What the checkpoint store promises to the caller who resumes a thread:  *)
(* its row is always one walk of the graph, and from one row to the next   *)
(* the walk gets longer by exactly the node that was pending.  There are   *)
(* no calls, retries, failures or crashes at this level.                   *)
(***************************************************************************)
EXTENDS Sequences

CONSTANTS Thread, Node, First, Route, None

VARIABLE row

Start == [trace |-> <<>>, next |-> First]

Init == row = [t \in Thread |-> None]

\* interrupt_before stops a call before its first node.
Open(t) ==
    /\ row[t] = None
    /\ row' = [row EXCEPT ![t] = Start]

\* The pending node is done; its destination is pending now.
Advance(t) ==
    LET r == IF row[t] = None THEN Start ELSE row[t] IN
    /\ r.next \in Node
    /\ \E n \in Route[r.next] :
         row' = [row EXCEPT ![t] = [trace |-> Append(r.trace, r.next), next |-> n]]

\* The caller is done with the thread.
Forget(t) == row' = [row EXCEPT ![t] = None]

Next == \E t \in Thread : Open(t) \/ Advance(t) \/ Forget(t)

Spec == Init /\ [][Next]_row

=============================================================================
