------------------------------ MODULE Regions ------------------------------
(***************************************************************************)
(* What an allocator of a line of places promises, without chunks and free *)
(* lists: a caller gets places that lie in the line, begin where it asked  *)
(* for and are nobody else's, and they stay its own until it puts them     *)
(* back.  Which places those are the allocator decides.                    *)
(***************************************************************************)
EXTENDS Integers

CONSTANTS Sizes, Aligns, maxLen

VARIABLE lent  \* the regions that callers hold: [offset, size, align]

Overlap(r, q) == r.offset < q.offset + q.size /\ q.offset < r.offset + r.size

Init == lent = {}

Get(size, align) ==
  \E offset \in 0 .. maxLen - size :
    LET r == [offset |-> offset, size |-> size, align |-> align]
    IN /\ offset % align = 0
       /\ \A q \in lent : ~Overlap(r, q)
       /\ lent' = lent \cup {r}

Put(r) == lent' = lent \ {r}

Next == \/ \E size \in Sizes, align \in Aligns : Get(size, align)
        \/ \E r \in lent : Put(r)

Spec == Init /\ [][Next]_lent
=============================================================================
