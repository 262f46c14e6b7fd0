-------------------------- MODULE CapnegProjection --------------------------
(***************************************************************************)
(* The session state projection v2 (reference/python/aicp_ref_capneg_v02/  *)
(* session_state_v2.py): a STATE_SYNC_RESPONSE states the profiles and the *)
(* accepted negotiation result of a session and contract, as of an earlier *)
(* message.  The validator reduces the transcript up to that message, so   *)
(* the state here is the one after the as_of message, whatever followed,   *)
(* and a validation changes nothing.                                       *)
(*                                                                         *)
(* The field sound stands for the checks of the projection alone: its      *)
(* context is the envelope's, its hashes recompute, its profiles are       *)
(* sorted and resolve, its as_of_message_hash names exactly one earlier    *)
(* message, and its extensions are registered and include the required.    *)
(***************************************************************************)
EXTENDS Capneg

\* participants is None when the projection carries no participant_refs; result
\* stands for accepted_negotiation_result_hash.
Projection ==
  [context : Contexts, participants : (SUBSET Parties) \cup {None},
   composition : Compositions, result : Results, sound : BOOLEAN]

InProjectedContext(n, projection) ==
  /\ negotiations[n].result.context = projection.context
  /\ projection.participants \in {None, negotiations[n].result.participants}

\* Mutant: whatever was ever accepted is a candidate.
EverAccepted(projection) ==
  {n \in Known : negotiations[n].accepted # None /\ InProjectedContext(n, projection)}

\* The negotiations that a projection may describe.  Their superseded_by is not
\* looked at.
AcceptedCandidates(projection) ==
  {n \in Known :
     negotiations[n].state = "ACCEPTED" /\ InProjectedContext(n, projection)}

\* validate_session_state_projection_v2 reports no issue.
ProjectionValid(projection) ==
  /\ projection.sound
  /\ \E n \in Known :
       /\ AcceptedCandidates(projection) = {n}
       /\ negotiations[n].accepted.composition = projection.composition
       /\ negotiations[n].accepted = projection.result

\* Whoever validates a projection learns the current root and nothing else: it
\* passes only if it states what all participants of the root accepted, and a
\* sound one that names the participants of the root and states it does pass
\* (session_state_v2.py:160-225, SESSION_STATE_PROJECTION_v2.md).
ProjectionsNameTheRoot ==
  \A projection \in Projection :
    LET Stated(n) == /\ IsRoot(n) /\ InProjectedContext(n, projection)
                     /\ negotiations[n].result = projection.result
                     /\ projection.result.composition = projection.composition
                     /\ negotiations[n].acceptances = projection.result.participants
    IN /\ ProjectionValid(projection) => \E n \in Known : Stated(n)
       /\ projection.sound /\ projection.participants # None
            /\ (\E n \in Known : Stated(n)) => ProjectionValid(projection)
=============================================================================
