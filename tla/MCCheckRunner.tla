--------------------------- MODULE MCCheckRunner ---------------------------
(* Small instances of CheckRunner: for each suite the messages that reach    *)
(* the interesting cases of its checks. A field given to M replaces the      *)
(* default one.                                                              *)
EXTENDS CheckRunner, TLC

M(type, fields) ==
    fields @@ [type |-> type, id |-> type, session |-> "s", sender |-> "a", hash |-> None, sound |-> TRUE]

Propose(config) == M("CONTRACT_PROPOSE", [config |-> config])

QLMessages ==
    {Propose([required |-> TRUE, correlated |-> FALSE]),
     M("QUEUE_LEASE_GRANT", [lease |-> "l", msgs |-> 2, calls |-> 1]),
     M("QUEUE_LEASE_GRANT", [lease |-> "l", msgs |-> 1, calls |-> 0]),
     M("QUEUE_LEASE_GRANT", [lease |-> "m", msgs |-> 1, calls |-> 1]),
     M("QUEUE_RELEASE", [lease |-> "l"])}
    \cup {M(t, [lease |-> l]) : t \in Use, l \in {"l", "m"}}
    \cup {M("CONTENT_MESSAGE", [lease |-> None])}

ENFMessages ==
    {Propose([enforcers |-> {"e"}, blocking |-> b, gated |-> None]) : b \in BOOLEAN}
    \cup {M("ENFORCEMENT_VERDICT", [decision |-> d, target |-> h, id |-> "v", sender |-> s]) :
            d \in {"ALLOW", "DENY"}, h \in {"h", None}, s \in {"e", "f"}}
    \cup {M("ENFORCEMENT_VERDICT", [decision |-> d, target |-> "h", id |-> "w", sender |-> s]) :
            d \in {"ALLOW", "DENY"}, s \in {"e", "f"}}
    \cup {M("CONTENT_DELIVER", [verdict |-> "v", original |-> o, embedded |-> [hash |-> h, type |-> "C"]]) :
            o \in {"h", None}, h \in {"h", None}}

EXMessages ==
    {M(t, [run |-> r, thread |-> h, needs |-> None, found |-> None]) :
        t \in RunSteps \cup ThreadSteps \cup {"RUN_CREATE", "THREAD_CREATE"},
        r \in {"r", "q"}, h \in {"t", "u", None}}

ESMessages ==
    {M("ACTION_PREPARE", [escrow |-> "e", call |-> c, policy |-> "p"]) : c \in {"c", "d"}}
    \cup {M("ACTION_APPROVE", [escrow |-> "e", approval |-> a]) : a \in {"a", "b"}}
    \cup {M("ACTION_COMMIT", [escrow |-> "e", call |-> c, policy |-> "p", approval |-> a]) :
            c \in {"c", "d"}, a \in {"a", "b"}}

RPMessages ==
    {M("RESPONSIBILITY_ASSIGN", [transfer |-> t, to |-> p]) : t \in {"t", "u"}, p \in {"x", "y"}}
    \cup {M("RESPONSIBILITY_ACCEPT", [transfer |-> t, by |-> p]) : t \in {"t", "u"}, p \in {"x", "y"}}
    \cup {M("RESPONSIBILITY_REVOKE", [transfer |-> t]) : t \in {"t", "u"}}
    \cup {M("CHAIN_FAILURE_ATTEST", [transfer |-> t, graph |-> g]) : t \in {"t", None}, g \in {"g", None}}
    \cup {M("PROVENANCE_DECLARE", [graph |-> "g"])}

Node(n, parents) == [node |-> n, parents |-> parents, sound |-> TRUE]
PRMessages ==
    {M("PROVENANCE_DECLARE", [graph |-> g, nodes |-> n]) :
        g \in {"g", "h"}, n \in {<<>>, <<Node("a", {}), Node("b", {"a"})>>, <<Node("a", {"b"}), Node("b", {"a"})>>}}
    \cup {M("PROVENANCE_APPEND", [graph |-> g, nodes |-> <<n>>]) :
            g \in {"g", "h"}, n \in {Node("c", {"b"}), Node("a", {"c"}), Node("b", {})}}

WFMessages ==
    {M("WORKFLOW_DECLARE", [workflow |-> w, artifact |-> "a", version |-> 1]) : w \in {"w", "x"}}
    \cup {M("WORKFLOW_UPDATE", [workflow |-> "w", artifact |-> a, base |-> "a", version |-> v]) :
            a \in {"a", "b"}, v \in 1 .. 3}
    \cup {M("WORKFLOW_UPDATE", [workflow |-> "w", artifact |-> "a", base |-> "b", version |-> v]) : v \in 2 .. 3}
    \cup {M("WORKFLOW_UPDATE", [workflow |-> "w", artifact |-> "b", base |-> "a", version |-> None]),
          M("WORKFLOW_STEP_ATTEST", [workflow |-> "w", step |-> None])}
    \cup {M("WORKFLOW_STEP_ATTEST", [workflow |-> w, step |-> s]) : w \in {"w", "x"}, s \in {1, 2}}

DLMessages ==
    {M("DELEGATION_GRANT", [delegation |-> "d", parent |-> None, depth |-> 2, scope |-> {"a"}, expiry |-> 1])}
    \cup {M("DELEGATION_GRANT", [delegation |-> g[1], parent |-> g[2], depth |-> n, scope |-> s, expiry |-> 1]) :
            g \in {<<"e", "d">>, <<"e", "e">>, <<"f", "e">>}, n \in {0, 1}, s \in {{"a"}, {"a", "b"}}}
    \cup {M("DELEGATION_GRANT", [delegation |-> "f", parent |-> "e", depth |-> 0, scope |-> {}, expiry |-> 1])}
    \cup {M("DELEGATION_RESULT_ATTEST", [delegation |-> "e", time |-> t]) : t \in {1, 2}}

(* A hash can only be referred to by what comes after it.                    *)
CTMessages ==
    {M("CONTENT_MESSAGE", [id |-> n, prev |-> p, hash |-> h, computed |-> n]) :
        n \in 1 .. 4, p \in {None, 1, 2, 3}, h \in 1 .. 4}
CTAlphabet == {m \in CTMessages : m.prev = None \/ m.prev < m.id}

HAMessages ==
    {M("APPROVAL_CHALLENGE", [hash |-> "c", target |-> {t}, expires |-> 2, approver |-> "a"]) : t \in {"t", "u"}}
    \cup {M("APPROVAL_GRANT", [challenge |-> "c", target |-> {t}, expires |-> 2, approver |-> "a",
            sender |-> p, time |-> n]) : t \in {"t", "u"}, p \in {"a", "b"}, n \in {2, 3}}
    \cup {M("TOOL_CALL_REQUEST", [guarded |-> TRUE, target |-> {"t"}, time |-> n]) : n \in {1, 3, None}}
    \cup {M("TOOL_CALL_REQUEST", [guarded |-> TRUE, target |-> {"u"}, time |-> 1])}

ETResults ==
    {M("EXTERNAL_TX_RESULT", [hash |-> "r", declared |-> d, tx |-> "x", needsApproval |-> None, needsPolicy |-> None,
        irreversible |-> TRUE, approvalRef |-> g, policyRef |-> p, success |-> TRUE]) :
        d \in {"d", "c"}, g \in {"g", None}, p \in {"p", "q"}}
    \cup {M("EXTERNAL_TX_RESULT", [hash |-> "r", declared |-> "d", tx |-> "x", needsApproval |-> None, needsPolicy |-> None,
        irreversible |-> TRUE, approvalRef |-> "g", policyRef |-> None, success |-> TRUE])}
ETSteps ==
    {M("EXTERNAL_TX_DECLARE", [hash |-> h[1], tx |-> h[2], needsApproval |-> h[3], needsPolicy |-> None]) :
        h \in {<<"d", "x", TRUE>>, <<"c", "x", None>>, <<"b", "y", TRUE>>}}
    \cup {M("APPROVAL_GRANT", [hash |-> "g"])}
    \cup {M("POLICY_EVAL_RESULT", [hash |-> h[1], decision |-> h[2]]) : h \in {<<"p", "ALLOW">>, <<"q", "DENY">>}}
ETMessages == ETResults \cup ETSteps
CMMessages ==
    {m \in ETResults : m.declared = "d" /\ m.policyRef = "p"} \cup {m \in ETSteps : m.hash \notin {"b", "c", "q"}}
    \cup {M(t, [commerce |-> TRUE]) : t \in {"CAPABILITIES_DECLARE", "CAPABILITIES_PROPOSE"}}

TGMessages ==
    {Propose([mode |-> m, acceptors |-> {"e"}]) : m \in {"blocking", "audit"}}
    \cup {M("TOOL_CALL_REQUEST", [hash |-> q, target |-> None]) : q \in {"q", "p"}}
    \cup {M("TOOL_CALL_VERDICT", [target |-> "q", decision |-> d, id |-> "v", sender |-> e]) :
            d \in {"ALLOW", "DENY"}, e \in {"e", "f"}}
    \cup {M("TOOL_CALL_RESULT", [target |-> q, verdict |-> "v", hash |-> "r"]) : q \in {"q", "p"}}
    \cup {M("TOOL_CALL_ATTEST", [target |-> "q", result |-> "r", sender |-> e]) : e \in {"e", "f"}}

PAMessages ==
    {M("CONTRACT_PROPOSE", [config |-> [acceptors |-> {"h"}, perParticipant |-> TRUE], sender |-> "h", contract |-> "k"])}
    \cup {M("PARTICIPANT_JOIN", [participant |-> p]) : p \in {"a", "b"}}
    \cup {M("PARTICIPANT_LEAVE", [participant |-> "a"])}
    \cup {M("PARTICIPANT_ACCEPT", [participant |-> "a", ref |-> r[1], sender |-> r[2]]) :
            r \in {<<"k", "h">>, <<"l", "h">>, <<None, "h">>, <<"k", "a">>}}
    \cup {M("CONTENT_MESSAGE", [contract |-> c]) : c \in {"k", "l"}}

ADMessages ==
    {M("ADMISSION_REQUEST", [request |-> "q", asks |-> [x |-> a], refs |-> {}]) : a \in {{}, {"r"}}}
    \cup {M("ADMISSION_RENEW", [request |-> r, prior |-> "q", asks |-> [x |-> {}], refs |-> {}]) : r \in {"p", "q"}}
    \cup {M("ADMISSION_OFFER", [request |-> r, offer |-> "o", grants |-> [x |-> {"r"}]]) :
            r \in {"p", "q"}}
    \cup {M("ADMISSION_OFFER", [request |-> "q", offer |-> "o", grants |-> [x |-> {"r", "s"}]])}
    \cup {M("ADMISSION_ACCEPT", [request |-> r, offer |-> "o"]) : r \in {"p", "q"}}
    \cup {M("ADMISSION_REJECT", [request |-> "p"])}

MPMessages ==
    {M("RFW_POST", [rfw |-> w]) : w \in {"w", "x"}}
    \cup {M("BID_SUBMIT", [rfw |-> w, bid |-> "b"]) : w \in {"w", "x"}}
    \cup {M("BID_WITHDRAW", [rfw |-> "w", bid |-> "b"])}
    \cup {M("AWARD_ISSUE", [rfw |-> w, bid |-> "b", award |-> "a"]) : w \in {"w", "x"}}
    \cup {M("AWARD_ACCEPT", [rfw |-> "w", award |-> "a"])}
    \cup {M("ROUTING_DECISION_ATTEST", [award |-> "a"]),
          Propose([admission |-> TRUE, routing |-> TRUE, correlated |-> FALSE])}

Outcome(n) == [n |-> n, selected |-> n]
RCMessages ==
    {Propose([result |-> Outcome(n), selected |-> n, blocking |-> TRUE, mediators |-> {"m"}, participants |-> TRUE]) : n \in 1 .. 2}
    \cup {M("CAPABILITIES_PROPOSE", [result |-> Outcome(n)]) : n \in 1 .. 2}
    \cup {M("CAPABILITIES_ACCEPT", [accepted |-> a, result |-> r, resultHash |-> h]) :
            a \in BOOLEAN, r \in {Outcome(2), None}, h \in {Outcome(1), None}}
    \cup {M("CONTENT_DELIVER", [sender |-> s]) : s \in {"m", "n"}}

MCBaselineKeys == {<<"a", "k", "P">>}
Sig(signer, kid, key, hash) == [signer |-> signer, kid |-> kid, by |-> key, over |-> hash, type |-> "message"]
Announce(agent, keys) == M("IDENTITY_ANNOUNCE", [agent |-> agent, keys |-> keys, sigs |-> {}, hash |-> "n"])
Rotation(kid, old, matches) ==
    M("KEY_ROTATION", [oldKid |-> kid, newKid |-> "r", newKey |-> "R", oldSig |-> old, newSig |-> "R",
                       hashesMatch |-> matches, sigs |-> {}, hash |-> "o"])
Signed(type, sigs) == M(type, [hash |-> "h", sigs |-> sigs])
SIGMessages ==
    {Signed("CONTENT_MESSAGE", {Sig("a", p[1], p[2], h)}) :
        p \in {<<"k", "P">>, <<"l", "Q">>, <<"r", "R">>, <<"k", "R">>}, h \in {"h", "g"}}
    \cup {Announce("a", {<<"l", "Q">>})}
    \cup {Rotation(k, old, FALSE) : k \in {"k", "l"}, old \in {"P", "Q", "R"}}
AUTHMessages ==
    {Signed("CONTENT_MESSAGE", sigs) : sigs \in
        {{}, {Sig("a", "k", "P", "h")}, {Sig("a", "k", "Q", "h")}, {Sig("b", "k", "P", "h")},
         {Sig("a", "l", "P", "h")}, {Sig("a", "k", "P", "g")}, {Sig("a", "k", "P", "h"), Sig("a", "k", "Q", "h")}}}
AUTHExpectations == {{}, {"signature_invalid"}, {"signature_invalid", "sender_signature_required"},
                     {"sender_signature_required", "kid_mismatch"}, {"signatures_required"}}
IDMessages ==
    {Signed("CONTEXT_AMEND", {Sig("a", k, "P", "h")}) : k \in {"k", "r"}}
    \cup {Announce("a", {<<"l", "Q">>})}
    \cup {Rotation(k, old, TRUE) : k \in {"k", "l", "r"}, old \in {"P", "Q", "R"}}
    \cup {Rotation(k, "P", FALSE) : k \in {"k", "l", "r"}}
    \cup {M("KEY_REVOKE", [target |-> k, sigs |-> {}]) : k \in {"k", "r"}}

Bond(e) == [issuer |-> "i", agent |-> "a", expires |-> e]
Nobodys == [issuer |-> None, agent |-> "a", expires |-> 2]
Issue(s, b, object, hash) ==
    M("SUBJECT_BINDING_ISSUE", [sender |-> s, binding |-> b, signed |-> TRUE, acts |-> None,
                                ref |-> [object |-> object, hash |-> hash]])
DIMessages ==
    {Issue(s, Bond(b), Bond(o), Bond(h)) : s \in {"i", "j"}, b \in 1 .. 2, o \in 1 .. 2, h \in 1 .. 2}
    \cup {Issue("j", Nobodys, Nobodys, Nobodys), M("CONTENT_MESSAGE", [acts |-> Nobodys, time |-> 1])}
    \cup {M("CONTENT_MESSAGE", [sender |-> s, acts |-> Bond(e), time |-> t]) :
            s \in {"a", "b"}, e \in 1 .. 2, t \in {1, 2, 3, None}}
    \cup {M("SUBJECT_BINDING_REVOKE", [binding |-> Bond(2), signed |-> TRUE, acts |-> None, effective |-> t]) : t \in {1, 2, None}}

NoDeclares == [acts |-> None, action |-> None, declares |-> None, call |-> None, subset |-> {}, binding |-> None, claims |-> None]
IBMessage(type, fields) == M(type, fields @@ NoDeclares)
IBMessages ==
    {IBMessage("CONTRACT_PROPOSE", [config |-> [sound |-> TRUE, issuers |-> {"x"}, authority |-> <<>>,
        actions |-> [pay |-> [Anything EXCEPT !.all = {"s"}, !.amrAny = {"otp", "key"}, !.approval = "ok"]]]])}
    \cup {IBMessage("SUBJECT_BINDING_ISSUE", [binding |-> "b",
            claims |-> [sound |-> TRUE, issuer |-> c[1], values |-> c[2], acr |-> None, amr |-> c[3]]]) :
            c \in {<<"x", {"s"}, {"otp"}>>, <<"y", {"s"}, {"otp"}>>, <<"x", {}, {"otp"}>>, <<"x", {"s"}, {}>>}}
    \cup {IBMessage("APPROVAL_GRANT", [action |-> a, call |-> c]) : a \in {"ok", "no"}, c \in {"c", "d"}}
    \cup {IBMessage("TOOL_CALL_REQUEST", [acts |-> "b", action |-> "pay", declares |-> d, call |-> c]) :
            d \in {None, {}}, c \in {"c", None}}

AMMessages ==
    {M(t, [pins |-> p]) : t \in {"CONTRACT_PROPOSE", "CONTEXT_AMEND"},
        p \in {None, {}, {<<"m", "i", 1>>}, {<<"m", "j", 1>>, <<"n", "i", 2>>}, {<<"m", "i", 1>>, <<"m", "j", 1>>}}}
    \cup {M("TOOL_CALL_REQUEST", [manifest |-> <<"m", i, v>>]) : i \in {"i", "j"}, v \in 1 .. 2}

TWMessages ==
    {M("CONTRACT_PROPOSE", [config |-> [strict |-> TRUE, nonrep |-> FALSE], hash |-> "p"])}
    \cup {M("WITNESS_SUBMIT", [hash |-> w[1], checkpoint |-> w[2], of |-> w[3], number |-> w[4], head |-> w[5], origin |-> None]) :
            w \in {<<"w", "c", "s", 1, "p">>, <<"x", "d", "s", 1, "w">>, <<"y", "d", "s", 1, "p">>,
                   <<"v", "c", "s", 2, "q">>, <<"u", "c", "z", 1, "p">>}}
    \cup {M("WITNESS_RECEIPT", [submit |-> w, checkpoint |-> c]) : w \in {"w", "x", "y"}, c \in {"c", "d"}}
    \cup {M("HEAD_EXCHANGE", [of |-> "s", head |-> "q"])}

RSMessages ==
    {M("RESUME_REQUEST", [resume |-> "x", of |-> "s", seen |-> "h"])}
    \cup {M("RESUME_RESPONSE", [resume |-> "x", of |-> "s", head |-> h, status |-> t]) :
            h \in {"h", "g"}, t \in {"OK", "NEEDS_RESYNC"}}

Projected(asOf, ref, status, conflicts, evidence) ==
    [session |-> "s", contract |-> "k", asOf |-> asOf, ref |-> ref, status |-> status,
     conflicts |-> conflicts, evidence |-> evidence]
Branch(v) == [branch |-> "b", version |-> v, hash |-> "h"]
SPMessages ==
    {M("CONTENT_MESSAGE", [id |-> i, hash |-> h]) : i \in {"i", "j"}, h \in {"h", "g"}}
    \cup {M("STATE_PROJECTION", [contract |-> "k", heads |-> heads, active |-> a, final |-> f,
            state |-> Projected("h", [branch |-> "b", version |-> v], t, c, e)]) :
            heads \in {{Branch(1)}, {Branch(1), [Branch(1) EXCEPT !.hash = "g"]}}, a \in {1, None},
            f \in {1, 2}, v \in 1 .. 2, t \in {"OPEN", "CLOSED"}, c \in {{}, {"x"}}, e \in {{}, {"i"}}}

MCProfileCrypto == [p |-> {"c"}, q |-> {}]
MCBindings == {"http", "old"}
MCAliases == [old |-> "http"]
CNResult(p, b) ==
    [neg |-> "n", parties |-> {"a", "b"},
     selected |-> [profile |-> p, crypto |-> {"c"}, binding |-> b, channel |-> <<>>, mode |-> None, extensions |-> None]]
CNMessages ==
    {M("CAPABILITIES_DECLARE", [party |-> d[1], supports |-> {d[2]}, requires |-> {}, crypto |-> {"c"}, bindings |-> {d[3]}, channel |-> <<>>]) :
        d \in {<<"a", "p", "http">>, <<"b", "p", "old">>, <<"b", "q", "http">>}}
    \cup {M("CAPABILITIES_PROPOSE", [result |-> CNResult(r[1], r[2])]) :
            r \in {<<"p", "http">>, <<"p", None>>, <<"q", "http">>}}
    \cup {M("CAPABILITIES_ACCEPT", [accepted |-> TRUE, result |-> None, resultHash |-> CNResult("p", "http")])}
    \cup {M("CAPABILITIES_REJECT", [neg |-> "n", reason |-> r]) : r \in {"REQUIRED_PROFILE_UNSUPPORTED", "OTHER"}}
    \cup {Propose([result |-> CNResult(p, "http"), selected |-> None]) : p \in {"p", "q"}}

CFResult(m) == [neg |-> "n", selected |-> [mode |-> m]]
CFMessages ==
    {M("CAPABILITIES_PROPOSE", [result |-> CFResult(m)]) : m \in {"o", "e", None}}
    \cup {M("CAPABILITIES_ACCEPT", [accepted |-> a, result |-> CFResult(m), resultHash |-> CFResult(m)]) :
            a \in BOOLEAN, m \in {"o", "e"}}
    \cup {Propose([confidential |-> c, mode |-> m, result |-> CFResult(r)]) :
            c \in BOOLEAN, m \in {"o", "e"}, r \in {"o", "e"}}

RDMessages ==
    {M("CONTENT_MESSAGE", [hash |-> "a"])}
    \cup {M("CONTENT_REDACTED", [hash |-> h, original |-> o]) : h \in {"a", "b", "c"}, o \in {"a", "b", "c", "d"}}
    \cup {M("CONTENT_REDACTED", [hash |-> None, original |-> "a"])}

PEMessages ==
    {M("POLICY_EVAL_REQUEST", [eval |-> e, input |-> i, llm |-> l]) : e \in {"e", "f"}, i \in {"i", "j"}, l \in BOOLEAN}
    \cup {M("POLICY_EVAL_RESULT", [eval |-> e, decision |-> d, evidence |-> v]) :
            e \in {"e", "f"}, d \in {"ALLOW", "INCONCLUSIVE"}, v \in {{}, {"POLICY_EVAL_REQUEST"}}}

CHMessages ==
    {M(t, [channel |-> c, parent |-> p, visibility |-> v]) : t \in {"CHANNEL_DECLARE", "CHANNEL_UPDATE"},
        c \in {"c", "d", None}, p \in {None, "c", "d"}, v \in {"public", "private"}}
    \cup {M("CHANNEL_DEPRECATE", [channel |-> c]) : c \in {"c", "d"}}
SBMessages ==
    {M("SUBSCRIBE", [subscription |-> s]) : s \in {"s", "t"}}
    \cup {M("UNSUBSCRIBE", [subscription |-> "s"])}
    \cup {M("SUBSCRIPTION_STATE", [subscription |-> c[1], cursor |-> c[2]]) :
            c \in {<<"s", 1>>, <<"s", 2>>, <<"s", None>>, <<"t", 1>>}}
PBMessages ==
    {M("PUBLICATION_PUBLISH", [publication |-> "p", version |-> v, prior |-> None, proof |-> None]) : v \in {1, 2, None}}
    \cup {M("PUBLICATION_UPDATE", [publication |-> "p", version |-> v, prior |-> w, proof |-> None]) :
            v \in 1 .. 3, w \in 1 .. 3}
    \cup {M("PUBLICATION_RETRACT", [publication |-> "p", version |-> None, prior |-> v, proof |-> None]) : v \in 1 .. 2}
INMessages ==
    {M("INBOX_ENQUEUE", [item |-> "i", inbox |-> b]) : b \in {"x", "y", None}}
    \cup {M("INBOX_LEASE_GRANT", [item |-> "i", inbox |-> b, lease |-> l, queueRef |-> None, admissionRef |-> None]) :
            b \in {"x", "y", None}, l \in {"l", "m", None}}
    \cup {M("INBOX_ROUTE", [item |-> "i"])} \cup {M("INBOX_ACK", [item |-> "i", lease |-> l]) : l \in {"l", "m", None}}

OBMessages ==
    {M("OBS_SIGNAL", [parts |-> p, targets |-> {}, call |-> None, needs |-> {}]) :
        p \in {{<<"tool_call_id", "c">>}, {<<"tool_call_id", "d">>}, {<<"message_hash", "h">>, None}, {<<"message_hash", "h">>}}}
    \cup {M("TOOL_CALL_REQUEST", [targets |-> {<<"tool_call_id", c>>}, call |-> c, needs |-> n, hash |-> "h"]) :
            c \in {"c", "d"}, n \in {{}, {"approval"}, {"iam", "approval"}}}
EBMessages ==
    {Propose([sound |-> TRUE, openapi |-> {"o"}, actions |-> {"x"}, correlated |-> c,
              odata |-> <<[id |-> "d", target |-> 1], [id |-> "d", target |-> 2]>>]) : c \in BOOLEAN}
    \cup {M("TOOL_CALL_REQUEST", [binding |-> b, target |-> t, iam |-> TRUE, action |-> "x", guarded |-> TRUE, call |-> c]) :
            b \in {"o", "d"}, t \in {1, 2, None}, c \in {"c", "e"}}
    \cup {M("APPROVAL_GRANT", [call |-> c]) : c \in {"c", "e"}}
    \cup {M("OBS_SIGNAL", [parts |-> {<<"tool_call_id", "c">>}])}
DSMessages ==
    {M("CHALLENGE_ASSERTION", [id |-> i, hash |-> h, challenged |-> c, evidence |-> {e}]) :
        i \in {"i", "j"}, h \in {"i", None}, c \in {None, "i"}, e \in {"i", "j", "k"}}
    \cup {M("CONTENT_MESSAGE", [id |-> "k"])}

(* A case, with what a case of its kind leaves out.                          *)
Case(id, op, fields) ==
    fields @@ [id |-> id, op |-> op, msgs |-> <<>>, ordered |-> FALSE, delivery |-> None, limit |-> 2,
               frames |-> <<>>, overload |-> FALSE, key |-> None, replayOf |-> None, scope |-> None,
               replayed |-> TRUE, reconnectOf |-> None, after |-> None, sessions |-> {}, sound |-> TRUE,
               anchors |-> None, attestation |-> None, trusted |-> FALSE, query |-> None, status |-> None,
               observed |-> 0, valid |-> FALSE]
Post(id, hash, signed) == [id |-> id, hash |-> hash, prev |-> None, sound |-> TRUE, signed |-> signed]
Frame(more, cursor) == [more |-> more, cursor |-> cursor, pairs |-> <<<<"m", 1>>>>]
TBCases ==
    {Case(c, "sendMessage", [msgs |-> <<Post("m", h, s)>>, key |-> "m", replayOf |-> r]) :
        c \in {"x", "y"}, h \in 1 .. 2, s \in BOOLEAN, r \in {None, "x"}}
    \cup {Case("x", "ssePullMessages", [msgs |-> <<Post("m", 1, TRUE)>>, frames |-> f]) :
            f \in {<<>>, <<Frame(FALSE, "p")>>, <<Frame(TRUE, "p"), Frame(FALSE, "q")>>, <<Frame(FALSE, "p"), Frame(FALSE, "q")>>}}
    \cup {Case("y", "ssePullMessages", [msgs |-> <<Post("m", 1, TRUE)>>, frames |-> <<Frame(FALSE, "q")>>,
            reconnectOf |-> "x", after |-> a]) : a \in {"p", "q"}}
    \cup {Case("z", "poll", [msgs |-> <<Post("m", 1, TRUE), Post("n", 1, TRUE), Post("m", h, TRUE)>>,
            delivery |-> "at_least_once"]) : h \in 1 .. 2}
Anchors(key) == [id |-> "l", from |-> 1, to |-> 3, anchors |-> <<[issuer |-> "i", signer |-> "i", kid |-> "k", key |-> key]>>]
Statement(from) == [issuer |-> "i", signer |-> "i", kid |-> "k", by |-> "P", list |-> "l", from |-> from, to |-> 3]
TRCases ==
    {Case("x", "attest", [anchors |-> Anchors(k), attestation |-> Statement(f), trusted |-> t]) :
        k \in {"P", "Q"}, f \in 0 .. 3, t \in BOOLEAN}
SRCases ==
    {Case("x", "status", [anchors |-> Anchors(k), valid |-> v, observed |-> o, query |-> [id |-> "q", target |-> "t", asOf |-> a],
            status |-> Statement(f) @@ [query |-> "q", target |-> "t", asOf |-> a, maxAge |-> 1, status |-> s, revokedAt |-> r]]) :
        k \in {"P", "Q"}, v \in BOOLEAN, o \in {2, 4}, a \in 1 .. 2, f \in 1 .. 2, s \in {"GOOD", "REVOKED", "UNKNOWN"},
        r \in {1, 2, None}}

MCAlphabet(s) ==
    CASE s = "CT" -> CTAlphabet
      [] s = "QL" -> QLMessages [] s = "ENF" -> ENFMessages [] s = "EX" -> EXMessages [] s = "ES" -> ESMessages
      [] s = "RP" -> RPMessages [] s = "PR" -> PRMessages [] s = "WF" -> WFMessages [] s = "DL" -> DLMessages
      [] s = "SIG" -> SIGMessages [] s = "AUTH" -> AUTHMessages [] s = "ID" -> IDMessages
      [] s = "DI" -> DIMessages [] s = "IB" -> IBMessages [] s = "AM" -> AMMessages
      [] s = "TW" -> TWMessages [] s = "RS" -> RSMessages [] s = "SP" -> SPMessages
      [] s = "HA" -> HAMessages [] s = "ET" -> ETMessages [] s = "CM" -> CMMessages [] s = "TG" -> TGMessages
      [] s = "PA" -> PAMessages [] s = "AD" -> ADMessages [] s = "MP" -> MPMessages [] s = "RC" -> RCMessages
      [] s = "CN" -> CNMessages [] s = "CF" -> CFMessages [] s = "RD" -> RDMessages [] s = "PE" -> PEMessages
      [] s = "CH" -> CHMessages [] s = "SB" -> SBMessages [] s = "PB" -> PBMessages [] s = "IN" -> INMessages
      [] s = "OB" -> OBMessages [] s = "EB" -> EBMessages [] s = "DS" -> DSMessages
      [] s = "TB" -> TBCases [] s = "TR" -> TRCases [] s = "SR" -> SRCases
MCMaxRows(s) ==
    CASE s \in {"AUTH", "SR"} -> 1 [] s \in {"SP", "TR"} -> 2
      [] s \in {"CT", "EX", "TB", "CH", "DS", "SIG", "DI"} -> 3
      [] s \in {"QL", "ES", "AD", "MP", "CN", "PA", "SB"} -> 5 [] s \in {"RS", "CM"} -> 6
      [] OTHER -> 4
MCExpectations(s) ==
    CASE s = "AUTH" -> AUTHExpectations [] s = "SIG" -> {{}, {"not_verified"}, {"object_hash_mismatch"}}
      [] OTHER -> {}
MCMaxTranscripts(s) == IF s = "AUTH" THEN 2 ELSE 1

(* A message of CT has its number for a hash, and names smaller ones.        *)
MCDepth(hash) == hash

(* The verifier matters only to the suites that look at signatures.          *)
Relevant == crypto \/ suite \in {"SIG", "AUTH"} \cup CaseSuites
=============================================================================
