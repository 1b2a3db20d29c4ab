SPECIFICATION FairSpec
CONSTANTS
    q1 = q1
    q2 = q2
    Nobody = Nobody
    Sources = {1, 2}
    Requests = {q1, q2}
    MaxEvents = 2
    Deployments <- Mixed
    Fragments <- Opposite
    MaxOpens = 2
CHECK_DEADLOCK FALSE
INVARIANTS
    FreeMemberIsClean
    SuccessIsSound
    AnsweredHoldsNothing
PROPERTIES
    RequestsEnd
    MembersComeBack
