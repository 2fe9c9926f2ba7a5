----------------------------- MODULE RadioSwitch -----------------------------
(***************************************************************************)
(* What tarishd promises the rest of the system: the AWDL radio follows    *)
(* the property tarish.awdl.wanted, late, and may be refused or lost.      *)
(***************************************************************************)
VARIABLES
    want,          \* tarish.awdl.wanted: "unset", "0" or "1"
    seen,          \* tarishd last read it as wanting the radio
    up             \* tarishd holds a session

Wanted(w) == w # "0"       \* an absent property means on

Init == seen = FALSE /\ up = FALSE

\* tarishd polls the property.
See == seen' = Wanted(want) /\ UNCHANGED <<want, up>>

\* It takes the radio only on the strength of a poll that asked for it.
Raise == seen /\ ~up /\ up' = TRUE /\ UNCHANGED <<want, seen>>

\* It lets go when told to, when the link dies, and when it dies itself.
Lower == up /\ up' = FALSE /\ UNCHANGED <<want, seen>>
Die == up' = FALSE /\ seen' = FALSE /\ UNCHANGED want

\* Somebody writes the property.
Ask == UNCHANGED <<seen, up>>

Next == See \/ Raise \/ Lower \/ Die \/ Ask

\* A radio a poll found unwanted is released.
Release == ~seen /\ Lower

Spec == Init /\ [][Next]_<<want, seen, up>> /\ WF_<<want, seen, up>>(Release)
==============================================================================
