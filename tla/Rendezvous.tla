---------------------------- MODULE Rendezvous -----------------------------
(***************************************************************************)
(* What the pairing server promises a phone and a desktop that never see   *)
(* each other: an offer is handed to the desktop it was made for, at most  *)
(* once; the desktop gives one verdict on an offer it was handed; and a    *)
(* phone learns that verdict for that offer, or nothing.  How sessions,    *)
(* channels, streams and polls achieve this is SignalStore's business.     *)
(***************************************************************************)
CONSTANTS Devices, Sessions, Answers, None

VARIABLES
    owner,    \* the device an accepted offer was made for
    inbox,    \* the offers a device was handed
    verdict,  \* its verdict on each offer
    learned   \* what phones were told

abstractVars == <<owner, inbox, verdict, learned>>

Start ==
    /\ owner = [s \in Sessions |-> None]
    /\ inbox = [d \in Devices |-> {}]
    /\ verdict = [s \in Sessions |-> "none"]
    /\ learned = {}

\* The phone's offer is accepted.
Offer(s, d) ==
    /\ owner[s] = None
    /\ owner' = [owner EXCEPT ![s] = d]
    /\ UNCHANGED <<inbox, verdict, learned>>

\* The desktop is handed the offer.
HandOver(s, d) ==
    /\ owner[s] = d
    /\ \A e \in Devices : s \notin inbox[e]
    /\ inbox' = [inbox EXCEPT ![d] = @ \cup {s}]
    /\ UNCHANGED <<owner, verdict, learned>>

\* The desktop decides.
Decide(s, d, a) ==
    /\ s \in inbox[d]
    /\ verdict[s] = "none"
    /\ verdict' = [verdict EXCEPT ![s] = a]
    /\ UNCHANGED <<owner, inbox, learned>>

\* A phone is told the verdict.
Learn(s) ==
    /\ verdict[s] # "none"
    /\ learned' = learned \cup {<<s, verdict[s]>>}
    /\ UNCHANGED <<owner, inbox, verdict>>

Step ==
    \/ \E s \in Sessions, d \in Devices :
         \/ Offer(s, d)
         \/ HandOver(s, d)
         \/ \E a \in Answers : Decide(s, d, a)
    \/ \E s \in Sessions : Learn(s)

RendezvousSpec == Start /\ [][Step]_abstractVars
=============================================================================
