------------------------------- MODULE MCGate -------------------------------
(* A business, its owner, and somebody else who may be invited to it. *)
EXTENDS Gate

CONSTANTS p1, p2, o1, o2, i1, i2, s1, k1, k2, x1, x2, annTyped, ann, bob

MCEmails == {annTyped, ann, bob}

MCLower == [e \in MCEmails |-> IF e = annTyped THEN ann ELSE e]

NoEmail == [path |-> "email", message |-> "any.required"]
BadEmail == [path |-> "email", message |-> "string.email"]
NoPermission == [path |-> "permission", message |-> "any.required"]
BadPermission == [path |-> "permission", message |-> "any.only"]

MCRefusals == {<<NoEmail>>, <<NoPermission, BadPermission>>,
               <<BadEmail, NoEmail, BadPermission>>, <<NoEmail, NoPermission, BadEmail>>}

\* Bob has the business, Ann, who capitalises her address, is registered.
Inhabited ==
    /\ clock = 0
    /\ people = {[id |-> p1, email |-> bob], [id |-> p2, email |-> annTyped]}
    /\ identities = {[subject |-> k1, person |-> p1], [subject |-> k2, person |-> p2]}
    /\ organisations = {[id |-> o1, sbi |-> x1]}
    /\ memberships = {Owner(o1, p1)}
    /\ invitations = {}
    /\ auditEvents = {Registered(p1), Registered(p2), Created(p1, o1)}
    /\ visit = [s \in Slots |-> None]
    /\ told = {}

InhabitedSpec == Inhabited /\ [][Next]_vars

=============================================================================
