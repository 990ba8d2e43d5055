----------------------- MODULE MCOrganizationControl ------------------------
(* Instances of OrganizationControl for TLC: which four requests come together. *)
EXTENDS OrganizationControl, TLC

CONSTANTS q1, q2, q3, q4, o1, o2, u1, u2

Plan(a, b, c, d) == (q1 :> a) @@ (q2 :> b) @@ (q3 :> c) @@ (q4 :> d)

\* Two users, or one with two tries, set the deployment up.
SetupPlans ==
  {Plan(<<"enroll", o1, u1>>, <<"enroll", op1, user1>>,
        <<"bootstrap", o1, u1>>, <<"bootstrap", op2, user2>>) :
     op1 \in {o1, o2}, op2 \in {o1, o2}, user1 \in {u1, u2}, user2 \in {u1, u2}}

\* Renames from the same version, repeated ones, and an operation id that was used
\* to create the mailbox.
RenamePlans ==
  {Plan(<<"rename", o1, u1>>, <<"rename", o1, user>>, <<"rename", o2, u1>>,
        <<kind, o2, u2>>) :
     user \in {u1, u2}, kind \in {"rename", "bootstrap", "suspend"}}

\* Suspensions and resumptions, one of them sent twice or under one operation id.
LifecyclePlans ==
  {Plan(<<"suspend", o1, u1>>, <<kind, o1, user>>, <<"resume", o2, u1>>,
        <<"suspend", op, u2>>) :
     kind \in {"suspend", "resume"}, user \in {u1, u2}, op \in {o1, o2}}

MCPlans == SetupPlans \cup RenamePlans \cup LifecyclePlans

Symmetry == Permutations(Names)
=============================================================================
