--------------------------- MODULE AdmissionGate ---------------------------
(***************************************************************************)
(* What admission control promises, with nothing of how it is built: every *)
(* model tier owns a strip of numbered tickets.  The first RateLimit       *)
(* tickets are immediate admits, the next QueueCapacity are waiting places,*)
(* and once the strip is used up everybody is turned away.  The fate of a  *)
(* request is the class of the ticket it draws, and of nothing else.       *)
(*                                                                         *)
(* Admission.tla, which has a counter, a list and racing threads in place  *)
(* of the strip, implements this specification.                            *)
(***************************************************************************)
EXTENDS Naturals

CONSTANTS
    Workers,        \* request-handling threads
    Models,         \* the tiers of RATE_LIMITS
    RateLimit,      \* immediate admits of a tier
    QueueCapacity   \* waiting places of a tier

VARIABLES
    taken,      \* tickets drawn from the strip of a tier since it was renewed
    verdict     \* the fate a thread holds for the request it is serving

gateVars == <<taken, verdict>>

Burst(m) == RateLimit[m] + QueueCapacity[m]

FateOfTicket(m, n) ==
    IF n < RateLimit[m] THEN "accepted"
    ELSE IF n < Burst(m) THEN "delayed" ELSE "rejected"

Init ==
    /\ taken = [m \in Models |-> 0]
    /\ verdict = [w \in Workers |-> "none"]

Draw(w, m) ==
    /\ verdict[w] = "none"
    /\ verdict' = [verdict EXCEPT ![w] = FateOfTicket(m, taken[m])]
    /\ taken' = [taken EXCEPT ![m] = IF @ < Burst(m) THEN @ + 1 ELSE @]

\* A thread is done with its request: it answered, or it failed.
Finish(w) ==
    /\ verdict' = [verdict EXCEPT ![w] = "none"]
    /\ UNCHANGED taken

\* All strips are renewed at once; a verdict already given stands.
Renew ==
    /\ taken' = [m \in Models |-> 0]
    /\ UNCHANGED verdict

\* The process restarts: no thread holds a verdict, the strips may be renewed.
Reboot ==
    /\ verdict' = [w \in Workers |-> "none"]
    /\ taken' \in {taken, [m \in Models |-> 0]}

Next ==
    \/ \E w \in Workers, m \in Models : Draw(w, m)
    \/ \E w \in Workers : Finish(w)
    \/ Renew
    \/ Reboot

Spec == Init /\ [][Next]_gateVars
============================================================================
