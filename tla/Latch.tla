------------------------------- MODULE Latch -------------------------------
(***************************************************************************)
(* What an S / X / W latch promises its clients: a thread owns it in at    *)
(* most one mode, and modes that conflict are never owned at once.         *)
(***************************************************************************)
CONSTANT Thread
VARIABLE mode

Modes == {"none", "S", "X", "W"}

\* The compatibility of two modes owned by different threads.
Compatible(m, n) ==
    \/ m = "none" \/ n = "none"
    \/ m = "S" /\ n \in {"S", "X"}
    \/ n = "S" /\ m \in {"S", "X"}

Init == mode = [t \in Thread |-> "none"]

Change(t, m) ==
    /\ \A u \in Thread \ {t} : Compatible(m, mode[u])
    /\ mode' = [mode EXCEPT ![t] = m]

Next == \E t \in Thread, m \in Modes : Change(t, m)

Spec == Init /\ [][Next]_mode
=============================================================================
