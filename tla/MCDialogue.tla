----------------------------- MODULE MCDialogue -----------------------------
(***************************************************************************)
(* An instance of Dialogue for TLC.                                        *)
(***************************************************************************)
EXTENDS Dialogue, TLC

\* What random() returns after rand_init(44): (value * 16807) % 2147483647 in
\* 32 bits (random.h:31-34).
Draws44 == <<739508, 1691492717, 529562395, 1182935453, 192545387, 1999945421,
             668632251, 2067796221, 723210764, 245862868, 458683724, 1778536597>>

\* All nodes begin at once, or one when the packet of the starter is over.
AtOnce == [n \in Nodes |-> 0]
Begun == {AtOnce} \cup {[AtOnce EXCEPT ![n] = 150] : n \in Nodes \ {Starter}}

\* The nodes that do not start are alike.
Alike == Permutations(Nodes \ {Starter})
=============================================================================
