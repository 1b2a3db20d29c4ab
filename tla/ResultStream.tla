----------------------------- MODULE ResultStream -----------------------------
(***************************************************************************)
(* What a client may conclude from a streamed result: it receives the      *)
(* document from its beginning, without gaps, and then one verdict; a      *)
(* clean end means that it has the whole document.                         *)
(***************************************************************************)
EXTENDS Naturals, Sequences

VARIABLES document,   \* the serialised result of the query, piece by piece
          delivered,  \* what the client has received of it
          verdict     \* "none" yet, a "clean" end, or a "failed" one

Init ==
    /\ document \in Seq(Nat)
    /\ delivered = <<>>
    /\ verdict = "none"

Receive ==
    /\ verdict = "none"
    /\ Len(delivered') > Len(delivered)
    /\ delivered' = SubSeq(document, 1, Len(delivered'))
    /\ UNCHANGED <<document, verdict>>

End ==
    /\ verdict = "none"
    /\ verdict' \in {"clean", "failed"}
    /\ verdict' = "clean" => delivered = document
    /\ UNCHANGED <<document, delivered>>

Next == Receive \/ End

Spec == Init /\ [][Next]_<<document, delivered, verdict>>
=============================================================================
