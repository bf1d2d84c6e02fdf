---------------------------- MODULE MCVirtioDisk ----------------------------
(* VirtioDisk for TLC.                                                     *)
EXTENDS VirtioDisk, TLC

CONSTANTS p1, p2, p3, b1, b2, b3

MCBufsOf == (p1 :> {b1}) @@ (p2 :> {b2}) @@ (p3 :> {b1, b3})

\* Ring entries that have been consumed are never read again, so states that
\* differ only there are the same; every step of the fairness conditions
\* changes what is left.
Live(ring, from, to) ==
  [n \in 0..(Entries(from, to) - 1) |-> ring[(from + n) % NUM]]

View ==
  <<descVars, avail.idx, Live(avail.ring, seen, avail.idx), used.idx,
    Live(used.ring, used_idx, used.idx), used_idx, disk, procVars, chan, devVars,
    irq, handler>>
=============================================================================
