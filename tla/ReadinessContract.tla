-------------------------- MODULE ReadinessContract --------------------------
(***************************************************************************)
(* What the rest of the server may rely on, whoever drives the runtime:    *)
(* readiness moves only by publishing the next activation, by reporting an *)
(* observation, or by closing, every move takes the next revision, and a   *)
(* closed runtime never publishes or reports an observation again.         *)
(* The reload and Direct coordinators are shown to implement this.         *)
(***************************************************************************)
EXTENDS ActivationState

VARIABLE readiness

Init == readiness = Readiness(InitialState(NoSnapshot))

PublishNext ==
    /\ ~Closed(readiness)
    /\ readiness.rev < MaxRevision
    /\ readiness' = [ready |-> TRUE, id |-> readiness.id + 1,
                     rev |-> readiness.rev + 1, cause |-> NoCause]

ReportObservation ==
    /\ ~Closed(readiness)
    /\ readiness.rev < MaxRevision
    /\ \E c \in ObservedCauses :
          readiness' = [ready |-> FALSE, id |-> readiness.id,
                        rev |-> readiness.rev + 1, cause |-> c]

Close ==
    \/ /\ readiness.rev < MaxRevision
       /\ readiness' = [ready |-> FALSE, id |-> readiness.id,
                        rev |-> readiness.rev + 1, cause |-> "Administrative"]
    \/ /\ readiness.rev = MaxRevision
       /\ readiness' = [ready |-> FALSE, id |-> readiness.id,
                        rev |-> readiness.rev,
                        cause |-> "StateRevisionExhausted"]

Next == PublishNext \/ ReportObservation \/ Close

Spec == Init /\ [][Next]_readiness
=============================================================================
