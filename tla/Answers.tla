------------------------------ MODULE Answers -------------------------------
(***************************************************************************)
(* What the transfer of results promises.  For every request the client    *)
(* shows what the server sent for it, in order and without gaps, and is    *)
(* ready for the next request only when it has shown all of it; until it   *)
(* loses step with the stream or goes away, when it shows nothing more.    *)
(***************************************************************************)
EXTENDS Sequences, Naturals

VARIABLES sent,    \* the texts of the answer, in the order of sending
          shown,   \* the texts the client has shown
          busy,    \* a request is being answered
          over     \* the client follows the stream no more

vars == <<sent, shown, busy, over>>

IsPrefixOf(s, t) == Len(s) <= Len(t) /\ s = SubSeq(t, 1, Len(s))

Init == sent = <<>> /\ shown = <<>> /\ busy = FALSE /\ over = FALSE

Ask == /\ ~busy /\ ~over /\ shown = sent
       /\ busy' = TRUE /\ sent' = <<>> /\ shown' = <<>>
       /\ UNCHANGED over

Send == /\ busy \/ over
        /\ IsPrefixOf(sent, sent')
        /\ UNCHANGED <<shown, busy, over>>

Show == /\ busy /\ ~over
        /\ IsPrefixOf(shown, shown')
        /\ IsPrefixOf(shown', sent)
        /\ busy' = FALSE => shown' = sent
        /\ UNCHANGED <<sent, over>>

Stop == over' = TRUE /\ UNCHANGED <<sent, shown>>

Next == Ask \/ Send \/ Show \/ Stop

Spec == Init /\ [][Next]_vars
=============================================================================
