----------------------------- MODULE AtomicFile -----------------------------
(***************************************************************************)
(* What flock.go promises the rest of the store about one instance file:   *)
(* a save takes effect in one step between its call and its return, or not *)
(* at all; its error tells which; a reader sees one whole value, the one   *)
(* the file had when the reader opened it.                                 *)
(***************************************************************************)
CONSTANTS Writer, Reader, Value, Absent

VARIABLES
    file,    \* the value of the file, or Absent
    phase,   \* per writer: "idle", "pending", or "installed"
    val,     \* per writer: the value it saves
    result,  \* per writer: what its last call returned
    view     \* per reader: the value it is reading, or Absent

vars == <<file, phase, val, result, view>>

Init == /\ file \in Value \cup {Absent}
        /\ phase = [w \in Writer |-> "idle"]
        /\ val \in [Writer -> Value]
        /\ result = [w \in Writer |-> "none"]
        /\ view = [r \in Reader |-> Absent]

Call(w) == /\ phase[w] = "idle"
           /\ phase' = [phase EXCEPT ![w] = "pending"]
           /\ \E v \in Value : val' = [val EXCEPT ![w] = v]
           /\ result' = [result EXCEPT ![w] = "none"]
           /\ UNCHANGED <<file, view>>

\* The only step that changes the file to a saved value.
Install(w) == /\ phase[w] = "pending"
              /\ file' = val[w]
              /\ phase' = [phase EXCEPT ![w] = "installed"]
              /\ UNCHANGED <<val, result, view>>

\* nil exactly when the save was installed, an error exactly when it was not.
Return(w) == /\ phase[w] # "idle"
             /\ phase' = [phase EXCEPT ![w] = "idle"]
             /\ result' = [result EXCEPT ![w] =
                             IF phase[w] = "installed" THEN "ok" ELSE "error"]
             /\ UNCHANGED <<file, val, view>>

\* The process of some writers dies: they never learn a result.
Die(S) == /\ phase' = [w \in Writer |-> IF w \in S THEN "idle" ELSE phase[w]]
          /\ UNCHANGED <<file, val, result, view>>

Remove == file' = Absent /\ UNCHANGED <<phase, val, result, view>>

Open(r) == /\ view[r] = Absent /\ file # Absent
           /\ view' = [view EXCEPT ![r] = file]
           /\ UNCHANGED <<file, phase, val, result>>

Close(r) == /\ view' = [view EXCEPT ![r] = Absent]
            /\ UNCHANGED <<file, phase, val, result>>

Next == \/ \E w \in Writer : Call(w) \/ Install(w) \/ Return(w)
        \/ \E S \in SUBSET Writer : Die(S)
        \/ Remove
        \/ \E r \in Reader : Open(r) \/ Close(r)

Spec == Init /\ [][Next]_vars
=============================================================================
