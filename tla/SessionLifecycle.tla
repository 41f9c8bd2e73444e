-------------------------- MODULE SessionLifecycle --------------------------
(***************************************************************************)
(* What the interview API promises its clients, without goroutines, queue  *)
(* or responses: a session moves along the canonical states, a mutation    *)
(* (session, route, idempotency key) takes effect at most once, and every  *)
(* effect puts exactly one event into an outbox, which later is delivered  *)
(* or becomes a dead letter, never both and never neither.                 *)
(***************************************************************************)
EXTENDS Naturals

CONSTANTS Keys, EmptyKey, MaxSessions

VARIABLES
    status,     \* sessionId -> canonical status
    accepted,   \* the mutations that took effect
    outbox,     \* their events that are neither delivered nor dead
    delivered,
    dead

vars == <<status, accepted, outbox, delivered, dead>>

SessionIds == 1..MaxSessions
Mutation(s, route, key) == [session |-> s, route |-> route, key |-> key]
Created(s) == Mutation(s, "create", EmptyKey)
Events == [session : SessionIds, route : {"create", "answers", "finalize", "evaluations"},
           key : Keys \cup {EmptyKey}]

Init ==
    /\ status = [s \in {} |-> "pending"]
    /\ accepted = {} /\ outbox = {} /\ delivered = {} /\ dead = {}

Open(s) ==
    /\ s \in SessionIds \ DOMAIN status
    /\ status' = [t \in DOMAIN status \cup {s} |-> IF t = s THEN "pending" ELSE status[t]]
    /\ outbox' = outbox \cup {Created(s)}
    /\ UNCHANGED <<accepted, delivered, dead>>

Advance(s) ==
    /\ s \in DOMAIN status
    /\ \/ status[s] = "pending" /\ status' = [status EXCEPT ![s] = "preparing"]
       \/ status[s] = "preparing" /\ status' = [status EXCEPT ![s] = "in_progress"]
    /\ UNCHANGED <<accepted, outbox, delivered, dead>>

\* A mutation takes effect: its status guard, its effect on the status, its
\* event.
Accept(s, route, key, guard, after) ==
    LET id == Mutation(s, route, key) IN
    /\ s \in DOMAIN status
    /\ id \notin accepted
    /\ status[s] \in guard
    /\ status' = [status EXCEPT ![s] = after]
    /\ accepted' = accepted \cup {id}
    /\ outbox' = outbox \cup {id}
    /\ UNCHANGED <<delivered, dead>>

Save(s, key) ==
    \E now \in {"pending", "preparing", "in_progress", "submitted", "completed"} :
        Accept(s, "answers", key, {now}, now)
Finalize(s, key) ==
    Accept(s, "finalize", key, {"in_progress", "submitted", "completed"}, "submitted")
Evaluate(s, key) ==
    Accept(s, "evaluations", key, {"submitted", "completed"}, "completed")

Deliver(e) ==
    /\ e \in outbox
    /\ outbox' = outbox \ {e}
    /\ delivered' = delivered \cup {e}
    /\ UNCHANGED <<status, accepted, dead>>

DeadLetter(e) ==
    /\ e \in outbox
    /\ outbox' = outbox \ {e}
    /\ dead' = dead \cup {e}
    /\ UNCHANGED <<status, accepted, delivered>>

Next ==
    \/ \E s \in SessionIds : Open(s) \/ Advance(s)
    \/ \E s \in SessionIds, key \in Keys : Save(s, key) \/ Finalize(s, key) \/ Evaluate(s, key)
    \/ \E e \in Events : Deliver(e) \/ DeadLetter(e)

Spec == Init /\ [][Next]_vars

\* An event that is in no set any more was lost, one in two was published
\* twice: every effect has its event in exactly one of the three.
OneEventPerEffect ==
    /\ outbox \cup delivered \cup dead = accepted \cup {Created(s) : s \in DOMAIN status}
    /\ outbox \cap delivered = {} /\ outbox \cap dead = {} /\ delivered \cap dead = {}
=============================================================================
