---------------------------- MODULE MCSystemMode ----------------------------
(* Instances of SystemMode: a few conditions on each side of the thresholds. *)
EXTENDS SystemMode

Quiet == [db |-> 30, mem |-> 20, stream |-> 10, pending |-> 10, drawdown |-> 0]

\* calm; a pool at 75% (warning in "normal" only); a backlog (critical in
\* "normal" only, once damped); a pool at 95% and memory at 96% (critical
\* everywhere it counts)
MCWorlds == {Quiet,
             [Quiet EXCEPT !.db = 75],
             [Quiet EXCEPT !.stream = 100, !.pending = 1000],
             [Quiet EXCEPT !.db = 95],
             [Quiet EXCEPT !.mem = 96]}

\* for the claims of the documents: calm or critical memory, and a loss of 20%
MCFewWorlds == {Quiet, [Quiet EXCEPT !.mem = 96]}
MCDrawdown == {[Quiet EXCEPT !.drawdown = 20]}
=============================================================================
