------------------------- MODULE MCAccountRecovery --------------------------
(* Instances of AccountRecovery for TLC: which four requests come together.   *)
EXTENDS AccountRecovery, TLC

CONSTANTS q1, q2, q3, q4, o1, o2

Plan(a, b, c, d) == (q1 :> a) @@ (q2 :> b) @@ (q3 :> c) @@ (q4 :> d)

\* Two recoveries at once or one after the other, or one whose requests are sent
\* twice, or one beside what else a session of the user's does.
RecoveryPlans ==
  {Plan(<<"complete", o1>>, <<"complete", o2>>, <<"finish", o1>>, <<"finish", o2>>),
   Plan(<<"complete", o1>>, <<"finish", o1>>, <<"generate", o1>>, <<"revoke", o1>>),
   Plan(<<"complete", o1>>, <<"finish", o1>>, <<"enroll", o1>>, <<"verify", o2>>)}

\* Requests of one kind that contend, two of them under one operation id.
ContendedPlans ==
  {Plan(<<"complete", o1>>, <<"complete", o1>>, <<"complete", o2>>, <<"generate", o1>>),
   Plan(<<"finish", o1>>, <<"finish", o1>>, <<"finish", o2>>, <<"enroll", o1>>)}
  \cup {Plan(<<kind, o1>>, <<kind, o1>>, <<kind, o2>>, <<"revoke", o2>>) :
          kind \in {"generate", "revoke"}}

\* A user sets everything up.
SetupPlans ==
  {Plan(<<"enroll", o1>>, <<"enroll", op>>, <<"verify", o2>>, <<kind, o1>>) :
     op \in {o1, o2}, kind \in {"verify", "finish", "generate"}}

MCPlans == RecoveryPlans \cup ContendedPlans \cup SetupPlans

Symmetry ==
  Permutations(CodeNumbers) \cup Permutations(FirstKeys)
    \cup Permutations(Passkeys \ FirstKeys)
    \cup Permutations(Flows) \cup Permutations(Challenges)
=============================================================================
