--------------------------- MODULE IdentityChecks ---------------------------
(* Checks of who may say what: signatures and authenticated messages (SIG,   *)
(* AUTH), the life of keys (ID), subjects that agents act for (DI) and the   *)
(* claims of an identity provider (IB). A signature is modelled by the       *)
(* public key it verifies under and the hash it covers.                      *)
EXTENDS Transcript

CONSTANT BaselineKeys   \* the published keys, triples of agent, kid and public key

ASSUME KeysAssumption == \A k \in BaselineKeys : k = <<k[1], k[2], k[3]>>

(* A keyring is a set of such triples, one for each agent and kid.           *)
With(ring, agent, keys) ==
    {r \in ring : ~\E k \in keys : r[1] = agent /\ r[2] = k[1]}
        \cup {<<agent, k[1], k[2]>> : k \in keys}
PublicKey(ring, agent, kid) ==
    IF \E r \in ring : r[1] = agent /\ r[2] = kid
    THEN (CHOOSE r \in ring : r[1] = agent /\ r[2] = kid)[3] ELSE None

(* A rotation counts when the old key, as the ring has it, signed the new    *)
(* one and the new key signed the old kid.                                   *)
OldSigns(ring, m) ==
    /\ PublicKey(ring, m.sender, m.oldKid) # None
    /\ m.oldSig = PublicKey(ring, m.sender, m.oldKid)
NewSigns(m) == m.newKey # None /\ m.newSig = m.newKey
(* A mistake: the new key speaks for itself.                                 *)
RotatesItself(ring, m) == NewSigns(m) /\ m.newKid # None
Rotates(ring, m) == OldSigns(ring, m) /\ NewSigns(m) /\ m.newKid # None
KeyringAfter(ring, m, hashes) ==
    CASE m.type = "IDENTITY_ANNOUNCE" -> With(ring, m.agent, m.keys)
      [] m.type = "KEY_ROTATION" /\ Rotates(ring, m) /\ (hashes => m.hashesMatch) ->
            With(ring, m.sender, {<<m.newKid, m.newKey>>})
      [] OTHER -> ring

(* The keyring before and after each row. The signature checks do not ask    *)
(* what the signatures of a rotation cover; the identity checks do.          *)
Keyrings(T, hashes) ==
    LET ring[i \in 0 .. Len(T)] ==
        IF i = 0 THEN BaselineKeys ELSE KeyringAfter(ring[i - 1], T[i], hashes)
    IN ring

-----------------------------------------------------------------------------
(* The issues of the signatures of a message.                                *)
KeyIssue(ring, s) ==
    CASE ~\E r \in ring : r[1] = s.signer -> "missing_key"
      [] PublicKey(ring, s.signer, s.kid) = None -> "kid_mismatch"
      [] OTHER -> None
EntryIssues(m, s, ring, crypto) ==
    LET bound == s.type = "message" /\ s.over = m.hash
        key == IF crypto THEN KeyIssue(ring, s) ELSE None
    IN {c \in {"object_type_mismatch", "object_hash_mismatch", "missing_key", "kid_mismatch", "signature_invalid"} :
          \/ c = "object_type_mismatch" /\ s.type # "message"
          \/ c = "object_hash_mismatch" /\ s.over # m.hash
          \/ c = key
          \/ /\ c = "signature_invalid" /\ crypto /\ bound /\ key = None
             /\ s.by # PublicKey(ring, s.signer, s.kid)}
SignatureIssues(m, ring, crypto, required) ==
    IF required /\ m.sigs = {} THEN {"signatures_required"}
    ELSE (UNION {EntryIssues(m, s, ring, crypto) : s \in m.sigs})
            \cup {c \in {"sender_signature_required"} :
                    required /\ ~\E s \in m.sigs : s.signer = m.sender /\ EntryIssues(m, s, ring, crypto) = {}}

(* The signature checks of Core. Without a verifier only the hashes that the *)
(* signatures cover are compared.                                            *)
CoreTest(code) ==
    IF code \in {"missing_key", "kid_mismatch", "signature_invalid"} THEN "not_verified" ELSE code
SIGIssues(T, crypto) ==
    {c \in {"object_hash_mismatch"} : \E i \in DOMAIN T : \E s \in T[i].sigs : s.over \notin {None, T[i].hash}}
        \cup IF crypto
             THEN UNION {{CoreTest(c) : c \in SignatureIssues(T[i], Keyrings(T, FALSE)[i], TRUE, FALSE)} : i \in DOMAIN T}
             ELSE {}
(* The authentication checks know the published keys only.                   *)
AUTHIssues(T, crypto) ==
    {c \in {"hash_required"} : \E i \in DOMAIN T : T[i].hash = None}
        \cup UNION {SignatureIssues(T[i], BaselineKeys, crypto, TRUE) : i \in DOMAIN T}

AuthFailures ==
    {"hash_required", "signatures_required", "object_type_mismatch", "sender_signature_required",
     "kid_mismatch", "missing_key", "signature_invalid"}

(* Every message was signed, with a key its sender published, over itself.   *)
AUTHLegal(T) ==
    \A i \in DOMAIN T : \E s \in T[i].sigs :
        s.over = T[i].hash /\ T[i].hash # None /\ <<T[i].sender, s.kid, s.by>> \in BaselineKeys
(* Every key a signature verified under was published, was announced, or was *)
(* signed by another key of its agent that came before it.                   *)
Founded(T, i, k) ==
    \/ k \in BaselineKeys
    \/ \E j \in 1 .. i : T[j].type = "IDENTITY_ANNOUNCE" /\ T[j].agent = k[1] /\ <<k[2], k[3]>> \in T[j].keys
    \/ \E j \in 1 .. i :
          /\ T[j].type = "KEY_ROTATION" /\ T[j].sender = k[1]
          /\ T[j].newKid = k[2] /\ T[j].newKey = k[3] /\ T[j].newSig = k[3]
          /\ \/ \E b \in BaselineKeys : b[1] = k[1] /\ b[3] = T[j].oldSig
             \/ \E l \in 1 .. j - 1 :
                   \/ T[l].type = "IDENTITY_ANNOUNCE" /\ T[l].agent = k[1] /\ \E a \in T[l].keys : a[2] = T[j].oldSig
                   \/ T[l].type = "KEY_ROTATION" /\ T[l].sender = k[1] /\ T[l].newKey = T[j].oldSig
SIGLegal(T) ==
    \A i \in DOMAIN T : \A s \in T[i].sigs :
        s.over = T[i].hash /\ Founded(T, i, <<s.signer, s.kid, s.by>>)

-----------------------------------------------------------------------------
(* The life of keys. A kid is revoked for everybody, from its first          *)
(* revocation on; it stays in the keyring.                                   *)
ContractChanging == {"CONTRACT_PROPOSE", "CONTRACT_ACCEPT", "CONTEXT_AMEND", "RESOLVE_CONFLICT"}
ID_AID(T) == Unsound(T, {"IDENTITY_ANNOUNCE"})
ID_ROT(T) ==
    {i \in Rows(T, {"KEY_ROTATION"}) :
        ~(T[i].hashesMatch /\ OldSigns(Keyrings(T, TRUE)[i - 1], T[i]) /\ NewSigns(T[i]))}
ID_REVOKE(T) ==
    {i \in Rows(T, ContractChanging) :
        \E s \in T[i].sigs, j \in Earlier(Rows(T, {"KEY_REVOKE"}), i) : T[j].target = s.kid}
IDPasses(T) == ID_AID(T) \cup ID_ROT(T) \cup ID_REVOKE(T) = {}

(* In a transcript that passes, the keys of an agent form a tree that grows  *)
(* out of what was published or announced: each rotation was signed by the   *)
(* owner of the key it replaces, and no revoked kid changes a contract.      *)
IDLegal(T) ==
    /\ \A i \in Rows(T, {"KEY_ROTATION"}) :
          Founded(T, i - 1, <<T[i].sender, T[i].oldKid, T[i].oldSig>>)
    /\ \A i \in Rows(T, ContractChanging), j \in Rows(T, {"KEY_REVOKE"}) :
          j < i => \A s \in T[i].sigs : s.kid # T[j].target

-----------------------------------------------------------------------------
(* Subjects. A message may act under a binding that an issuer gave to an     *)
(* agent; the last issue of a binding read so far is the one that counts.    *)
Issues(T, b) == {i \in Rows(T, {"SUBJECT_BINDING_ISSUE"}) : T[i].binding = b /\ b # None}
UpTo(S, i) == {j \in S : j <= i}
Acting(T) == {i \in DOMAIN T : T[i].acts # None}
(* What a message acts under: the object of the issue, when there is one.    *)
Issued(T, i) == UpTo(Issues(T, T[i].acts), i)
Subject(T, i) == LET issue == T[Greatest(Issued(T, i))]
                 IN IF issue.ref = None THEN None ELSE issue.ref.object
Bound(T, i) == Issued(T, i) # {} /\ Subject(T, i) # None

DI_SIGNED(T) == {i \in Rows(T, {"SUBJECT_BINDING_ISSUE", "SUBJECT_BINDING_REVOKE"}) : ~T[i].signed}
Embedded(T) == {i \in Rows(T, {"SUBJECT_BINDING_ISSUE"}) : T[i].ref # None}
DI_OBJ(T) == {i \in Embedded(T) : T[i].ref.object = None \/ T[i].ref.hash # T[i].ref.object}
(* A hash or an issuer that is not there is not compared.                    *)
DI_ISSUE(T) ==
    {i \in Embedded(T) :
        \/ None \notin {T[i].binding, T[i].ref.hash} /\ T[i].binding # T[i].ref.hash
        \/ T[i].ref.object # None /\ T[i].ref.object.issuer \notin {None, T[i].sender}}
DI_ACT(T) == {i \in Acting(T) : ~Bound(T, i) \/ Subject(T, i).agent # T[i].sender}
DI_EXPIRY(T) ==
    {i \in Acting(T) : /\ Bound(T, i)
                       /\ \/ None \in {T[i].time, Subject(T, i).expires}
                          \/ T[i].time > Subject(T, i).expires}
DI_REVOKE(T) ==
    {i \in Acting(T) : /\ Bound(T, i)
                       /\ \E j \in UpTo(Rows(T, {"SUBJECT_BINDING_REVOKE"}), i) :
                             /\ T[j].binding = T[i].acts /\ None \notin {T[j].effective, T[i].time}
                             /\ T[j].effective <= T[i].time}
DIPasses(T) ==
    DI_SIGNED(T) \cup DI_OBJ(T) \cup DI_ISSUE(T) \cup DI_ACT(T) \cup DI_EXPIRY(T) \cup DI_REVOKE(T) = {}

(* An agent acts only under a binding that was issued before, in person when *)
(* it names its issuer, and under the very terms it names, while they last.  *)
DILegal(T) ==
    \A i \in Acting(T) :
        /\ \E j \in 1 .. i : T[j].type = "SUBJECT_BINDING_ISSUE" /\ T[i].acts.issuer \in {None, T[j].sender}
        /\ T[i].acts.agent = T[i].sender
        /\ T[i].time <= T[i].acts.expires
(* And, as the RFC has it, no revocation of the binding is effective by then.*)
ActsUnrevoked(T) ==
    \A i \in Acting(T), j \in Rows(T, {"SUBJECT_BINDING_REVOKE"}) :
        T[j].binding = T[i].acts /\ T[j].effective # None => T[i].time < T[j].effective

-----------------------------------------------------------------------------
(* Claims. The contract says what an action requires of the claims in the    *)
(* binding; the last issue of a binding in the whole transcript counts, and  *)
(* one after the message that uses it does not.                              *)
IBConfig(T) == FirstConfig(T, [sound |-> TRUE, issuers |-> {}, authority |-> <<>>, actions |-> <<>>])
Anything == [all |-> {}, any |-> {}, authority |-> {}, acr |-> None, amr |-> {}, amrAny |-> {}, approval |-> None]
Requirement(T, i) ==
    LET actions == IBConfig(T).actions
    IN IF T[i].action \in DOMAIN actions THEN actions[T[i].action] ELSE Anything
Protected(T) == {i \in DOMAIN T : T[i].acts # None /\ T[i].action # None}
Source(T, i) == Greatest(Issues(T, T[i].acts))
Linked(T, i) ==
    Issues(T, T[i].acts) # {} /\ Source(T, i) < i /\ T[Source(T, i)].claims # None
Claims(T, i) == T[Source(T, i)].claims
Meets(required, any, have) == required \subseteq have /\ (any # {} => any \cap have # {})
(* What a message declares itself replaces what the contract requires.       *)
RequiredOf(T, i) == IF T[i].declares = None THEN Requirement(T, i).all ELSE T[i].declares
Mapped(T, i) ==
    (UNION {IBConfig(T).authority[v] : v \in Claims(T, i).values \cap DOMAIN IBConfig(T).authority})
        \cup IF T[i].type = "DELEGATION_GRANT" THEN T[i].subset ELSE {}

IB_BINDING_LINK(T) ==
    {i \in Protected(T) : ~T[i].sound \/ ~Linked(T, i) \/ ~Claims(T, i).sound}
IB_ISSUER(T) ==
    {i \in Protected(T) : /\ Linked(T, i) /\ IBConfig(T).issuers # {}
                          /\ Claims(T, i).issuer \notin IBConfig(T).issuers}
        \cup {i \in {0} : ~IBConfig(T).sound}
(* Scopes, roles and groups, which are checked alike, and the authorities    *)
(* they map to.                                                              *)
IB_MAP(T) ==
    {i \in Protected(T) : /\ Linked(T, i)
                          /\ \/ ~Meets(RequiredOf(T, i), Requirement(T, i).any, Claims(T, i).values)
                             \/ ~Meets({}, Requirement(T, i).authority, Mapped(T, i))}
IB_STEPUP(T) ==
    {i \in Protected(T) :
        /\ Linked(T, i)
        /\ \/ Requirement(T, i).acr \notin {None, Claims(T, i).acr}
           \/ ~Meets(Requirement(T, i).amr, Requirement(T, i).amrAny, Claims(T, i).amr)}
Approves(T, a, i) ==
    /\ T[a].action = Requirement(T, i).approval
    /\ T[i].call # None => T[a].call = T[i].call
IB_APPROVAL_MAP(T) ==
    {i \in Protected(T) : /\ Linked(T, i) /\ Requirement(T, i).approval # None
                          /\ ~\E a \in Earlier(Rows(T, {"APPROVAL_GRANT"}), i) : Approves(T, a, i)}
IBPasses(T) ==
    IB_BINDING_LINK(T) \cup IB_ISSUER(T) \cup IB_MAP(T) \cup IB_STEPUP(T) \cup IB_APPROVAL_MAP(T) = {}

(* A protected action stands on claims that were issued before it, by an     *)
(* issuer the contract allows and of a subject who authenticated as it wants,*)
(* whatever was issued under the same binding afterwards, and on an approval *)
(* that was granted before it.                                               *)
IBLegal(T) ==
    \A i \in Protected(T) :
        /\ \A j \in Issues(T, T[i].acts) : j < i
        /\ \E j \in Issues(T, T[i].acts) :
              /\ IBConfig(T).issuers # {} => T[j].claims.issuer \in IBConfig(T).issuers
              /\ T[i].declares = None => Requirement(T, i).all \subseteq T[j].claims.values
              /\ Requirement(T, i).amrAny # {} => Requirement(T, i).amrAny \cap T[j].claims.amr # {}
        /\ Requirement(T, i).approval # None => \E a \in 1 .. i - 1 :
              T[a].type = "APPROVAL_GRANT" /\ T[a].action = Requirement(T, i).approval
=============================================================================
