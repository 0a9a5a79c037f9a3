---------------------------- MODULE SlidingWindow ----------------------------
(***************************************************************************)
(* What the sending half of the SSM data channel promises the callers of   *)
(* Write: a sliding window.  Each frame has a number of its own; numbers   *)
(* are taken in order, but their frames enter the window in any order, or  *)
(* not at all.  A frame leaves the window because it has arrived, or       *)
(* because the caller was told that it failed; one the caller was told is  *)
(* accepted stays until it has arrived.                                    *)
(***************************************************************************)
EXTENDS Naturals, FiniteSets

CONSTANTS
    Capacity,   \* how much the window holds
    Sizes       \* sizes a frame may have

VARIABLES
    next,       \* the next number
    taken,      \* numbers taken whose frames have not entered the window
    window,     \* the frames in the window: sizes, by number
    arrived,    \* numbers of the frames that have arrived
    accepted,   \* numbers of the frames the caller was told are accepted
    closed      \* no frame enters any more

vars == <<next, taken, window, arrived, accepted, closed>>

Load(w) == Cardinality({b \in (DOMAIN w) \X (1..Capacity) : b[2] <= w[b[1]]})

Init ==
    /\ next = 1 /\ taken = {} /\ window = [s \in {} |-> 0]
    /\ arrived = {} /\ accepted = {} /\ closed = FALSE

Take ==
    /\ next' = next + 1 /\ taken' = taken \cup {next}
    /\ UNCHANGED <<window, arrived, accepted, closed>>

Waste(s) ==
    /\ s \in taken /\ taken' = taken \ {s}
    /\ UNCHANGED <<next, window, arrived, accepted, closed>>

Enter(s, n) ==
    /\ s \in taken /\ taken' = taken \ {s}
    /\ ~closed /\ s \notin DOMAIN window /\ Load(window) + n <= Capacity
    /\ window' = [t \in DOMAIN window \cup {s} |-> IF t = s THEN n ELSE window[t]]
    /\ UNCHANGED <<next, arrived, accepted, closed>>

Arrive(s) ==
    /\ arrived' = arrived \cup {s}
    /\ s < next /\ s \notin taken
    /\ UNCHANGED <<next, taken, window, accepted, closed>>

Accept(s) ==
    /\ accepted' = accepted \cup {s}
    /\ UNCHANGED <<next, taken, window, arrived, closed>>

Leave(s) ==
    /\ s \in DOMAIN window
    /\ s \in arrived \/ s \notin accepted
    /\ window' = [t \in DOMAIN window \ {s} |-> window[t]]
    /\ UNCHANGED <<next, taken, arrived, accepted, closed>>

Close ==
    /\ closed' = TRUE
    /\ UNCHANGED <<next, taken, window, arrived, accepted>>

Next ==
    \/ Take \/ Close
    \/ \E s \in taken : Waste(s) \/ \E n \in Sizes : Enter(s, n)
    \/ \E s \in 0..next : Arrive(s)
    \/ \E s \in arrived \cup DOMAIN window : Accept(s)
    \/ \E s \in DOMAIN window : Leave(s)

Spec == Init /\ [][Next]_vars
=============================================================================
