-------------------------- MODULE MembershipChecks --------------------------
(* Checks of who takes part: participants (PA), admissions (AD), marketplace *)
(* work (MP) and the roles a contract must name (RC).                        *)
EXTENDS Transcript

(* Participants. The first event of a kind counts.                           *)
PAConfig(T) == FirstConfig(T, [acceptors |-> {}, perParticipant |-> FALSE])
MemberTypes == {"PARTICIPANT_JOIN", "PARTICIPANT_ACCEPT", "PARTICIPANT_LEAVE"}
Events(T, type, p) == {i \in Rows(T, {type}) : T[i].participant = p /\ p # None}
EventsBefore(T, type, i, p) == Earlier(Events(T, type, p), i)
Spoken(T) == DOMAIN T \ Rows(T, MemberTypes)
Entry(T, i) == Least(EventsBefore(T, "PARTICIPANT_ACCEPT", i, T[i].sender))

PA_JOIN(T) ==
    {i \in Rows(T, {"PARTICIPANT_JOIN"}) : T[i].participant = None \/ T[i].participant # T[i].sender}
PA_ACCEPT(T) ==
    {i \in Rows(T, {"PARTICIPANT_ACCEPT"}) :
        EventsBefore(T, "PARTICIPANT_JOIN", i, T[i].participant) = {}}
PA_AUTH(T) ==
    {i \in Rows(T, {"PARTICIPANT_ACCEPT"}) :
        PAConfig(T).acceptors # {} /\ T[i].sender \notin PAConfig(T).acceptors}
PA_MEM(T) ==
    {i \in Spoken(T) :
        /\ EventsBefore(T, "PARTICIPANT_JOIN", i, T[i].sender) # {}
        /\ \/ EventsBefore(T, "PARTICIPANT_ACCEPT", i, T[i].sender) = {}
           \/ EventsBefore(T, "PARTICIPANT_LEAVE", i, T[i].sender) # {}}
PA_MODEL(T) ==
    {i \in Rows(T, {"PARTICIPANT_ACCEPT"}) :
        /\ PAConfig(T).perParticipant /\ T[i].participant # None /\ T[i].ref = None
        /\ EventsBefore(T, "PARTICIPANT_ACCEPT", i, T[i].participant) = {}}
    \cup {i \in Spoken(T) :
            /\ PAConfig(T).perParticipant
            /\ EventsBefore(T, "PARTICIPANT_ACCEPT", i, T[i].sender) # {}
            /\ T[Entry(T, i)].ref \notin {None, T[i].contract}}
PAPasses(T) == PA_JOIN(T) \cup PA_ACCEPT(T) \cup PA_AUTH(T) \cup PA_MEM(T) \cup PA_MODEL(T) = {}

(* Who joins speaks only after being accepted by an acceptor and before      *)
(* leaving, and speaks under one contract.                                   *)
PALegal(T) ==
    \A j \in Rows(T, {"PARTICIPANT_JOIN"}), i \in Spoken(T) :
        j < i /\ T[i].sender = T[j].sender =>
            /\ \E a \in Rows(T, {"PARTICIPANT_ACCEPT"}) :
                  /\ a < i /\ T[a].participant = T[i].sender
                  /\ PAConfig(T).acceptors # {} => T[a].sender \in PAConfig(T).acceptors
            /\ \A l \in Rows(T, {"PARTICIPANT_LEAVE"}) : l < i => T[l].participant # T[i].sender
            /\ PAConfig(T).perParticipant => \A k \in Spoken(T) :
                  j < k /\ T[k].sender = T[i].sender => T[k].contract = T[i].contract

-----------------------------------------------------------------------------
(* Admissions. A renewal opens a request of its own unless it is known.      *)
Opens(T, r) == {i \in Rows(T, {"ADMISSION_REQUEST", "ADMISSION_RENEW"}) : T[i].request = r /\ r # None}
Registers(T, r) ==
    {i \in Opens(T, r) : T[i].type = "ADMISSION_REQUEST" \/ Earlier(Opens(T, r), i) = {}}
Offers(T, r) == {i \in Rows(T, {"ADMISSION_OFFER"}) : T[i].request = r /\ r # None}
Admits(T, r) == {i \in Rows(T, {"ADMISSION_ACCEPT"}) : T[i].request = r /\ r # None}
Conclusions == {"ADMISSION_ACCEPT", "ADMISSION_REJECT", "ADMISSION_REVOKE"}
Within(grants, asks) ==
    \A k \in DOMAIN asks : asks[k] # {} => grants[k] \subseteq asks[k]

AD_REQUEST(T) == {i \in Rows(T, {"ADMISSION_REQUEST"}) : ~T[i].sound \/ T[i].request = None}
AD_OFFER(T) ==
    Unsound(T, {"ADMISSION_OFFER"})
    \cup {i \in Rows(T, {"ADMISSION_OFFER"}) :
            LET known == Earlier(Registers(T, T[i].request), i)
            IN known = {} \/ ~Within(T[i].grants, T[Greatest(known)].asks)}
    \cup {i \in Rows(T, {"ADMISSION_ACCEPT"}) :
            LET offers == Earlier(Offers(T, T[i].request), i)
            IN offers = {} \/ T[i].offer \notin {None} \cup {T[j].offer : j \in offers}}
AD_REASON(T) == Unsound(T, {"ADMISSION_REJECT", "ADMISSION_REVOKE", "ADMISSION_RENEW"})
AD_RENEW(T) ==
    {i \in Rows(T, {"ADMISSION_RENEW"}) : Earlier(Admits(T, T[i].prior), i) = {}}
(* An attestation may be any message of the transcript.                      *)
AD_ATTEST(T) ==
    {i \in Rows(T, {"ADMISSION_REQUEST", "ADMISSION_RENEW"}) : ~(T[i].refs \subseteq Hashes(T))}
AD_NO_SILENT_DROP(T) ==
    {r \in {T[i].request : i \in Rows(T, {"ADMISSION_REQUEST", "ADMISSION_RENEW"})} \ {None} :
        ~\E i \in Rows(T, Conclusions) : T[i].request = r}
ADPasses(T) ==
    /\ AD_REQUEST(T) \cup AD_OFFER(T) \cup AD_REASON(T) \cup AD_RENEW(T) \cup AD_ATTEST(T) = {}
    /\ AD_NO_SILENT_DROP(T) = {}

(* An admission was offered before it was accepted, and asked for before it  *)
(* was offered, with no more than was asked; so was what a renewal renews.   *)
Admitted(T, r, i) ==
    \E q, o, a \in 1 .. i :
        /\ q < o /\ o < a
        /\ q \in Opens(T, r) /\ o \in Offers(T, r) /\ a \in Admits(T, r)
        /\ T[q].type = "ADMISSION_REQUEST" => Within(T[o].grants, T[q].asks)
ADLegal(T) ==
    /\ \A i \in Rows(T, {"ADMISSION_ACCEPT"}) : Admitted(T, T[i].request, i)
    /\ \A i \in Rows(T, {"ADMISSION_RENEW"}) : Admitted(T, T[i].prior, i - 1)
    /\ \A i \in Rows(T, {"ADMISSION_REQUEST"}) : \E j \in Rows(T, Conclusions) : T[j].request = T[i].request

-----------------------------------------------------------------------------
(* The marketplace. What has an id is opened by one type of message; later   *)
(* messages refer to the last opening of the id before them.                 *)
MPConfig(T) == FirstConfig(T, [admission |-> FALSE, routing |-> FALSE, correlated |-> FALSE])
BidTypes == {"BID_SUBMIT", "BID_UPDATE", "BID_WITHDRAW"}
AwardAnswers == {"AWARD_ACCEPT", "AWARD_DECLINE"}
Opened(T, i, types, key) == {j \in Earlier(Rows(T, types), i) : T[j][key] = T[i][key] /\ T[i][key] # None}
Unposted(T, types) == {i \in Rows(T, types) : Opened(T, i, {"RFW_POST"}, "rfw") = {}}
Disagrees(T, i, types, key) ==
    LET opened == Opened(T, i, types, key)
    IN opened = {} \/ T[Greatest(opened)].rfw \notin {None, T[i].rfw}

MP_RFW(T) == Unsound(T, {"RFW_POST"})
MP_BID(T) == Unsound(T, BidTypes) \cup Unposted(T, BidTypes)
(* A withdrawal is the last word on a bid, and still a bid to award.         *)
MP_AWARD(T) ==
    Unsound(T, {"AWARD_ISSUE"}) \cup Unposted(T, {"AWARD_ISSUE"} \cup AwardAnswers)
        \cup {i \in Rows(T, {"AWARD_ISSUE"}) : T[i].award = None \/ Disagrees(T, i, BidTypes, "bid")}
        \cup {i \in Rows(T, AwardAnswers) : Disagrees(T, i, {"AWARD_ISSUE"}, "award")}
MP_AUCTION(T) ==
    Unsound(T, {"AUCTION_OPEN", "AUCTION_CLOSE"}) \cup Unposted(T, {"AUCTION_OPEN", "AUCTION_CLOSE"})
        \cup {i \in Rows(T, {"AUCTION_CLOSE"}) : Opened(T, i, {"AUCTION_OPEN"}, "auction") = {}}
MP_BLACKBOARD(T) ==
    {i \in Rows(T, {"BLACKBOARD_POST", "BLACKBOARD_UPDATE", "BLACKBOARD_REMOVE"}) :
        Opened(T, i, {"BLACKBOARD_DECLARE"}, "workspace") = {}}
MP_SUBCHAT(T) ==
    {i \in Rows(T, {"SUBCHAT_INVITE", "SUBCHAT_JOIN"}) : Opened(T, i, {"SUBCHAT_CREATE"}, "subchat") = {}}
Invited(T, i) ==
    \E j \in Earlier(Rows(T, {"SUBCHAT_INVITE"}), i) :
        T[j].subchat = T[i].subchat /\ T[j].participant = T[i].participant
MP_ADMISSION_LINK(T) ==
    {i \in Rows(T, {"SUBCHAT_JOIN"}) :
        /\ MPConfig(T).admission
        /\ \/ Earlier(Rows(T, {"ADMISSION_ACCEPT"}), i) = {}
           \/ None \notin {T[i].subchat, T[i].participant} /\ ~Invited(T, i)}
MP_ROUTING_ATTEST(T) ==
    {i \in Rows(T, {"ROUTING_DECISION_ATTEST"}) : Opened(T, i, {"AWARD_ISSUE"}, "award") = {}}
        \cup {i \in Rows(T, {"AWARD_ISSUE"}) :
                /\ MPConfig(T).routing /\ T[i].award # None
                /\ ~\E j \in Rows(T, {"ROUTING_DECISION_ATTEST"}) : T[j].award = T[i].award}
MarketTypes == {"RFW_POST", "AWARD_ISSUE", "AUCTION_OPEN", "AUCTION_CLOSE", "SUBCHAT_CREATE", "SUBCHAT_JOIN"} \cup BidTypes
MP_OBS_CORRELATION(T) ==
    {i \in {0} : /\ MPConfig(T).correlated
                 /\ ~\E i1 \in Rows(T, {"OBS_SIGNAL"}), j \in Rows(T, MarketTypes) :
                        T[i1].target = T[j].hash /\ T[j].hash # None}
MPPasses(T) ==
    MP_RFW(T) \cup MP_BID(T) \cup MP_AWARD(T) \cup MP_AUCTION(T) \cup MP_BLACKBOARD(T) \cup MP_SUBCHAT(T)
        \cup MP_ADMISSION_LINK(T) \cup MP_ROUTING_ATTEST(T) \cup MP_OBS_CORRELATION(T) = {}

(* What is accepted was awarded, what was awarded had been bid, and what was *)
(* bid had been posted, all of one request for work; and no required routing *)
(* attestation precedes every issue of its award.                            *)
MPLegal(T) ==
    /\ \A i \in Rows(T, AwardAnswers) : \E a, b, p \in 1 .. i - 1 :
          /\ p < b /\ b < a
          /\ T[p].type = "RFW_POST" /\ T[b].type \in BidTypes /\ T[a].type = "AWARD_ISSUE"
          /\ T[a].award = T[i].award /\ T[b].bid = T[a].bid
          /\ {T[p].rfw, T[b].rfw, T[a].rfw} = {T[i].rfw}
    /\ MPConfig(T).routing => \A i \in Rows(T, {"AWARD_ISSUE"}) :
          \E a, j \in DOMAIN T : /\ a < j /\ T[a].type = "AWARD_ISSUE" /\ T[j].type = "ROUTING_DECISION_ATTEST"
                                 /\ T[a].award = T[i].award /\ T[j].award = T[i].award

-----------------------------------------------------------------------------
(* Roles. What the contract took over from the negotiation is the first      *)
(* result that was proposed; a result stands for its hash.                   *)
RCConfig(T) ==
    FirstConfig(T, [result |-> None, selected |-> None, blocking |-> FALSE, mediators |-> {}, participants |-> FALSE])
Expected(T) == {i \in Rows(T, {"CAPABILITIES_PROPOSE"}) : T[i].result # None}
ExpectedResult(T) == T[Least(Expected(T))].result
RC_CONTRACT(T) ==
    {i \in {0} : LET config == RCConfig(T) IN
        \/ None \in {config.result, config.selected} \/ ~config.blocking
        \/ config.mediators = {} \/ ~config.participants
        \/ /\ Expected(T) # {}
           /\ \/ config.result # ExpectedResult(T)
              \/ config.selected # ExpectedResult(T).selected}
    \cup {i \in Rows(T, {"CAPABILITIES_ACCEPT"}) :
            /\ T[i].accepted /\ RCConfig(T).result # None /\ Expected(T) # {}
            /\ \/ T[i].result \notin {None, ExpectedResult(T)}
               \/ T[i].resultHash \notin {None, ExpectedResult(T)}}
RC_DELIVER(T) ==
    {i \in Rows(T, {"CONTENT_DELIVER"}) :
        RCConfig(T).mediators # {} /\ T[i].sender \notin RCConfig(T).mediators}
RCPasses(T) == RC_CONTRACT(T) \cup RC_DELIVER(T) = {}

(* Once a result is proposed, nobody accepts another than the contract has.  *)
RCLegal(T) ==
    Expected(T) # {} => \A i \in Rows(T, {"CAPABILITIES_ACCEPT"}) :
        T[i].accepted => /\ T[i].result \in {None, RCConfig(T).result}
                         /\ T[i].resultHash \in {None, RCConfig(T).result}
=============================================================================
