----------------------------- MODULE MCInodeData -----------------------------
EXTENDS InodeData, TLC

(* Two open files of one inode, or one of each. *)
MCOpens == {<<1, 1>>, <<1, 2>>}
=============================================================================
