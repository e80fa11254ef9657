----------------------------- MODULE MCJourney -----------------------------
(***************************************************************************)
(* Instances of Journey for TLC.                                           *)
(***************************************************************************)
EXTENDS Journey, TLC

CONSTANTS
    b1, b2,         \* browsers
    r1, r2,         \* requests in progress
    alice, bob,     \* One Login accounts
    k1, k2, k3,     \* session ids
    n1, n2          \* sign-ins

JourneySymmetry ==
    Permutations(Browsers) \cup Permutations(Slots) \cup Permutations(Subjects)
    \cup Permutations(SessionIds) \cup Permutations(Flows)

SlotSymmetry == Permutations(Slots)

-----------------------------------------------------------------------------
\* Alice has signed in on her own browser b1, k1, and given her answers.  She has
\* signed in on b2 as well, k2, where bob began to register before her.  Each
\* browser has another tab at One Login.  Nobody is registered.
Session(subject) == [subject |-> subject, person |-> None]

SignedIn ==
    /\ sid = [b \in Browsers |-> IF b = b1 THEN k1 ELSE k2]
    /\ bell = [b \in Browsers |-> IF b = b1 THEN n1 ELSE IF n2 \in Flows THEN n2 ELSE None]
    /\ asked = [b \in Browsers |-> {bell[b]} \ {None}]
    /\ cache = [k \in SessionIds |->
                 IF \E b \in Browsers : sid[b] = k THEN Session(alice) ELSE None]
    /\ generated = {sid[b] : b \in Browsers} \cup ({bell[b] : b \in Browsers} \ {None})
    /\ yar = [b \in Browsers |->
               [name |-> alice, contact |-> IF b = b1 THEN alice ELSE bob,
                redirectTo |-> None, nonce |-> bell[b]]]
    /\ people = [a \in Subjects |-> None]
    /\ pc = [s \in Slots |-> "idle"]
    /\ request = [s \in Slots |-> None]
    /\ failures = 0
    /\ dropped = {}
    /\ followed = [b \in Browsers |-> None]

SignedInSpec == SignedIn /\ [][Next]_journeyVars

=============================================================================
