------------------------------ MODULE LabelSpec ------------------------------
(***************************************************************************)
(* What the assembler promises of labels: a jump to a label goes to the    *)
(* place where the label is bound, whichever of the two comes first, and   *)
(* never anywhere else after.  Labels implements it.                       *)
(***************************************************************************)
CONSTANTS Label,
          Address,
          Open     \* the place of a label that is not bound yet, no address

VARIABLES aim,    \* for every jump, known by its address, its label
          lands,  \* where it goes, Open if that is not known yet
          place   \* where each label is bound

vars == <<aim, lands, place>>

Empty == [j \in {} |-> j]

Init ==
  /\ aim = Empty
  /\ lands = Empty
  /\ place = [l \in Label |-> Open]

Jump(j, l) ==
  /\ j \notin DOMAIN aim
  /\ aim' = [k \in DOMAIN aim \cup {j} |-> IF k = j THEN l ELSE aim[k]]
  /\ lands' = [k \in DOMAIN lands \cup {j} |-> IF k = j THEN place[l] ELSE lands[k]]
  /\ UNCHANGED place

Bind(l, p) ==
  /\ place[l] = Open
  /\ place' = [place EXCEPT ![l] = p]
  /\ lands' = [j \in DOMAIN lands |-> IF aim[j] = l THEN p ELSE lands[j]]
  /\ UNCHANGED aim

Next == \E l \in Label : \/ \E j \in Address : Jump(j, l)
                         \/ \E p \in Address : Bind(l, p)

Spec == Init /\ [][Next]_vars

=============================================================================
