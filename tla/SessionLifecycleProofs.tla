----------------------- MODULE SessionLifecycleProofs -----------------------
(***************************************************************************)
(* The abstract lifecycle promises one event per effect.                   *)
(***************************************************************************)
EXTENDS SessionLifecycle, TLAPS

\* An effect is named by a mutation of a created session, none by "create".
EffectsAreNamed ==
    \A id \in accepted : id.session \in DOMAIN status /\ id.route # "create"

IInv == OneEventPerEffect /\ EffectsAreNamed

\* Creations and mutations never have one name.
LEMMA Names ==
    ASSUME NEW s, NEW route, NEW key
    PROVE  /\ Mutation(s, route, key).session = s
           /\ Mutation(s, route, key).route = route
BY DEF Mutation

\* An accepted mutation keeps the invariant.
LEMMA AcceptKeepsIInv ==
    ASSUME IInv, NEW s, NEW route, route # "create", NEW key, NEW guard, NEW after,
           Accept(s, route, key, guard, after)
    PROVE  IInv'
<1> DEFINE id == Mutation(s, route, key)
<1>1. /\ s \in DOMAIN status /\ id \notin accepted
      /\ DOMAIN status' = DOMAIN status
      /\ accepted' = accepted \cup {id} /\ outbox' = outbox \cup {id}
      /\ UNCHANGED <<delivered, dead>>
  BY DEF Accept
<1>2. id.session = s /\ id.route = route
  BY Names
<1>3. \A t : id # Created(t)
  BY <1>2, Names DEF Created
<1>4. id \notin outbox \cup delivered \cup dead
  BY <1>1, <1>3 DEF IInv, OneEventPerEffect
<1> HIDE DEF id
<1>5. OneEventPerEffect'
  BY <1>1, <1>4 DEF IInv, OneEventPerEffect
<1>6. EffectsAreNamed'
  BY <1>1, <1>2 DEF IInv, EffectsAreNamed
<1> QED BY <1>5, <1>6 DEF IInv

\* Every effect has its event in exactly one of outbox, delivered and dead.
THEOREM OneEventPerEffectAlways == Spec => []OneEventPerEffect
<1>1. Init => IInv
  BY DEF Init, IInv, OneEventPerEffect, EffectsAreNamed
<1>2. IInv /\ [Next]_vars => IInv'
  <2> SUFFICES ASSUME IInv, [Next]_vars PROVE IInv'
    OBVIOUS
  <2>1. ASSUME NEW s \in SessionIds, Open(s) PROVE IInv'
    <3>1. /\ s \notin DOMAIN status /\ DOMAIN status' = DOMAIN status \cup {s}
          /\ outbox' = outbox \cup {Created(s)} /\ UNCHANGED <<accepted, delivered, dead>>
      BY <2>1 DEF Open
    <3>2. Created(s).route = "create" /\ \A t : Created(t) = Created(s) => t = s
      BY Names DEF Created
    <3>3. Created(s) \notin outbox \cup delivered \cup dead
      BY <3>1, <3>2 DEF IInv, OneEventPerEffect, EffectsAreNamed
    <3>4. OneEventPerEffect'
      BY <3>1, <3>3 DEF IInv, OneEventPerEffect
    <3>5. EffectsAreNamed'
      BY <3>1 DEF IInv, EffectsAreNamed
    <3> QED BY <3>4, <3>5 DEF IInv
  <2>2. ASSUME NEW s \in SessionIds, Advance(s) PROVE IInv'
    <3>1. DOMAIN status' = DOMAIN status /\ UNCHANGED <<accepted, outbox, delivered, dead>>
      BY <2>2 DEF Advance
    <3> QED BY <3>1 DEF IInv, OneEventPerEffect, EffectsAreNamed
  <2>3. ASSUME NEW s \in SessionIds, NEW key \in Keys,
               Save(s, key) \/ Finalize(s, key) \/ Evaluate(s, key)
        PROVE  IInv'
    BY <2>3, AcceptKeepsIInv DEF Save, Finalize, Evaluate
  <2>4. ASSUME NEW e \in Events, Deliver(e) \/ DeadLetter(e) PROVE IInv'
    BY <2>4 DEF Deliver, DeadLetter, IInv, OneEventPerEffect, EffectsAreNamed
  <2>5. CASE UNCHANGED vars
    BY <2>5 DEF vars, IInv, OneEventPerEffect, EffectsAreNamed
  <2> QED BY <2>1, <2>2, <2>3, <2>4, <2>5 DEF Next
<1>3. IInv => OneEventPerEffect
  BY DEF IInv
<1> QED BY <1>1, <1>2, <1>3, PTL DEF Spec
=============================================================================
