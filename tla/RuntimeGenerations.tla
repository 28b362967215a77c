------------------------ MODULE RuntimeGenerations ------------------------
(***************************************************************************)
(* What the publication of a prepared analyzer runtime promises the        *)
(* processes that open the authoritative directory: at every moment there  *)
(* is one whole generation, a new one takes its place in one step, and a   *)
(* loss of power may undo only a replacement that was not durable yet.     *)
(***************************************************************************)

CONSTANTS Generation, Shipped

VARIABLES current,    \* the generation the authoritative name leads to
          durable,    \* the one a loss of power would leave there
          used        \* the generations that were ever current

vars == <<current, durable, used>>

Init == /\ current = Shipped
        /\ durable = Shipped
        /\ used = {Shipped}

(* A generation that was never current replaces the current one. *)
Replace(g) == /\ durable = current
              /\ g \notin used
              /\ current' = g
              /\ used' = used \cup {g}
              /\ UNCHANGED durable

Settle == /\ durable' = current
          /\ UNCHANGED <<current, used>>

LosePower == /\ current' = durable
             /\ UNCHANGED <<durable, used>>

Next == Settle \/ LosePower \/ \E g \in Generation : Replace(g)

Spec == Init /\ [][Next]_vars

=============================================================================
