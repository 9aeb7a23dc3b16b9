--------------------------- MODULE ReplicatedLog ---------------------------
(***************************************************************************)
(* What a cluster promises to its state machines: one sequence of entries  *)
(* is chosen, only ever by adding to its end, and each node learns a       *)
(* prefix of it, more and more.  No terms, votes or messages.              *)
(***************************************************************************)
EXTENDS Sequences, SequencesExt

CONSTANT Node

VARIABLES chosen,     \* the entries chosen so far
          learned     \* per node, the ones it knows as chosen

logVars == <<chosen, learned>>

Init ==
    /\ chosen = <<>>
    /\ learned = [i \in Node |-> <<>>]

\* Entries are chosen after those chosen before, and node i is the first to know:
\* it knows all of them.
Choose(i) ==
    /\ IsStrictPrefix(chosen, chosen')
    /\ learned' = [learned EXCEPT ![i] = chosen']

\* Node i learns more of what has been chosen.
Learn(i) ==
    /\ chosen' = chosen
    /\ IsPrefix(learned[i], learned'[i]) /\ IsPrefix(learned'[i], chosen)
    /\ learned' = [learned EXCEPT ![i] = learned'[i]]

Next == \E i \in Node : learned'[i] # learned[i] /\ (Choose(i) \/ Learn(i))

Spec == Init /\ [][Next]_logVars
=============================================================================
