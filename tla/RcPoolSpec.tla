----------------------------- MODULE RcPoolSpec -----------------------------
(***************************************************************************)
(* What rcPool promises its users (sync2/dbsync): add stores an item under *)
(* an index that no live reference names and hands out one reference; ref *)
(* adds a reference to a live index; release drops one; item reads the    *)
(* stored item of a live index. An index whose references are all dropped *)
(* may be handed out again. Indices are natural numbers below MaxEntries.  *)
(***************************************************************************)
EXTENDS Naturals

CONSTANTS Items, NoItem, MaxEntries

VARIABLES count, content

Idx == 0..MaxEntries - 1

Init ==
  /\ count = [i \in Idx |-> 0]
  /\ content = [i \in Idx |-> NoItem]

Add(item) ==
  \E i \in Idx :
    /\ count[i] = 0
    /\ count' = [count EXCEPT ![i] = 1]
    /\ content' = [content EXCEPT ![i] = item]

Ref(i) ==
  /\ count[i] > 0
  /\ count' = [count EXCEPT ![i] = @ + 1]
  /\ UNCHANGED content

Release(i) ==
  /\ count[i] > 0
  /\ count' = [count EXCEPT ![i] = @ - 1]
  /\ UNCHANGED content

Next == (\E item \in Items : Add(item)) \/ \E i \in Idx : Ref(i) \/ Release(i)

Spec == Init /\ [][Next]_<<count, content>>

=============================================================================
