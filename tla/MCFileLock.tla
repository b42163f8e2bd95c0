---------------------------- MODULE MCFileLock ----------------------------
(* Saves of one slug from two processes, two values, one reader.           *)
EXTENDS FileLock
CONSTANTS w1, w2, p1, p2

MCProcessOf == [w \in Writer |-> IF w = w1 THEN p1 ELSE p2]
=============================================================================
