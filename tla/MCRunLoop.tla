----------------------------- MODULE MCRunLoop -----------------------------
(* An instance of RunLoop for TLC. *)
EXTENDS RunLoop

Plain == [snapshots |-> TRUE, nv2 |-> FALSE, gpu |-> FALSE, startup |-> FALSE,
          balloon |-> FALSE, tty |-> FALSE]

\* command lines that between them take every path
MCCommands ==
    {[Plain EXCEPT !.startup = TRUE, !.balloon = TRUE],
     [Plain EXCEPT !.nv2 = TRUE],
     [Plain EXCEPT !.gpu = TRUE],
     [Plain EXCEPT !.snapshots = FALSE, !.tty = TRUE]}
=============================================================================
