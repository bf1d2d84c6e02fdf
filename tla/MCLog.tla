------------------------------- MODULE MCLog -------------------------------
(* Log for TLC.                                                            *)
EXTENDS Log

\* The log blocks that hold data: those of the header on the disk, and those
\* a commit has written.  The others are written before they are read again,
\* so states that differ only there are the same to the log.
Written ==
  {n \in Slots : \/ n <= Len(dhead)
                  \/ \E p \in Procs : pc[p] = "write_log" /\ n <= tail[p]}

View == <<disk, [n \in Written |-> dlog[n]], dhead, memVars, lockVars, procVars,
          bootVars>>
=============================================================================
