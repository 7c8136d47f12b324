--------------------------- MODULE MCWatchBuffer ---------------------------
(* The watch buffer over one directory with a file in it. *)
EXTENDS WatchBuffer

OneFile  == {"folder", "inside"}
InFolder == {<<"folder", "inside">>}
AllKept  == [p \in Paths |-> "kept"]
=============================================================================
