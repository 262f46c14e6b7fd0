---------------------------- MODULE Checks_proofs ----------------------------
(* What the checks of each suite promise of a transcript, proved for every   *)
(* transcript of any length: when the checks that the code runs report       *)
(* nothing, what the suite is there for holds. TLC enumerates transcripts of *)
(* a few rows.                                                               *)
(*                                                                           *)
(* The promises are of three kinds. Some checks compare a row with what lies *)
(* before it, and the promise follows from what the lookup finds (the last   *)
(* row of a set, which exists as a set of rows is finite). Some compare a    *)
(* row with its neighbour under a key, and the promise is about rows that    *)
(* are any number of rows apart: a least counterexample has a neighbour that *)
(* is a smaller one. And some walk a recursive function over the rows, which *)
(* first has to be shown to exist.                                           *)
EXTENDS CheckRunner, SequenceTheorems, FiniteSetTheorems, WellFoundedInduction, TLAPS

-----------------------------------------------------------------------------
(* Rows                                                                      *)

(* A set of naturals that is not empty has a least element.                  *)
LEMMA Minimum ==
  ASSUME NEW S, S \subseteq Nat, S # {}
  PROVE  \E x \in S : \A y \in S : x <= y
<1> DEFINE Less == OpToRel(<, Nat)
<1>1. \A x, y \in Nat : y < x => <<y, x>> \in Less
  <2> TAKE x, y \in Nat
  <2>1. <<y, x>> \in Nat \X Nat /\ <<y, x>>[1] = y /\ <<y, x>>[2] = x
    OBVIOUS
  <2> QED BY <2>1 DEF OpToRel
<1>2. IsWellFoundedOn(Less, Nat)
  BY NatLessThanWellFounded
<1> HIDE DEF Less
<1>3. PICK x \in S : \A y \in S : ~(<<y, x>> \in Less)
  BY <1>2, WFMin
<1>4. ASSUME NEW y \in S
      PROVE  x <= y
  <2>1. x \in Nat /\ y \in Nat /\ ~(y < x)
    BY <1>1, <1>3
  <2> QED BY <2>1
<1> QED BY <1>4

(* The least of some naturals is one of them (the first contract, the first  *)
(* grant).                                                                   *)
LEMMA LeastIn ==
  ASSUME NEW S, S \subseteq Nat, S # {}
  PROVE  Least(S) \in S /\ \A j \in S : Least(S) <= j
BY Minimum DEF Least

(* The greatest of some places is one of them (a dictionary's last value).   *)
LEMMA GreatestIn ==
  ASSUME NEW n \in Nat, NEW S, S \subseteq 1 .. n, S # {}
  PROVE  Greatest(S) \in S /\ \A j \in S : j <= Greatest(S)
<1> DEFINE R == {n - i : i \in S}
<1>1. R \subseteq Nat
  <2> SUFFICES ASSUME NEW i \in S PROVE n - i \in Nat
    OBVIOUS
  <2> QED OBVIOUS
<1>2. R # {}
  OBVIOUS
<1> HIDE DEF R
<1>3. PICK x \in R : \A y \in R : x <= y
  BY <1>1, <1>2, Minimum
<1> USE DEF R
<1>4. PICK i \in S : x = n - i
  BY <1>3
<1>5. ASSUME NEW j \in S PROVE j <= i
  <2>1. n - j \in R
    OBVIOUS
  <2>2. n - i <= n - j
    BY <1>3, <1>4, <2>1
  <2>3. i \in Nat /\ j \in Nat
    OBVIOUS
  <2> QED BY <2>2, <2>3
<1> QED BY <1>4, <1>5 DEF Greatest

(* The rows of a transcript are natural numbers up to its length.            *)
LEMMA RowsFinite ==
  ASSUME NEW M, NEW T \in Seq(M)
  PROVE  /\ Len(T) \in Nat /\ DOMAIN T = 1 .. Len(T)
         /\ \A types : Rows(T, types) \subseteq 1 .. Len(T)
         /\ \A S : S \subseteq 1 .. Len(T) => IsFiniteSet(S)
<1>1. Len(T) \in Nat /\ DOMAIN T = 1 .. Len(T)
  OBVIOUS
<1>2. \A types : Rows(T, types) \subseteq 1 .. Len(T)
  BY <1>1 DEF Rows
<1>3. IsFiniteSet(1 .. Len(T))
  BY <1>1, FS_Interval
<1>4. \A S : S \subseteq 1 .. Len(T) => IsFiniteSet(S)
  BY <1>3, FS_Subset
<1> QED BY <1>1, <1>2, <1>4

(* The last of some rows is one of them, and so is the first.                *)
LEMMA LastRow ==
  ASSUME NEW M, NEW T \in Seq(M), NEW S, S \subseteq 1 .. Len(T), S # {}
  PROVE  /\ Greatest(S) \in S /\ \A j \in S : j <= Greatest(S)
         /\ Least(S) \in S /\ \A j \in S : Least(S) <= j
<1>1. Len(T) \in Nat /\ S \subseteq Nat
  OBVIOUS
<1> QED BY <1>1, GreatestIn, LeastIn

\* What comes before a row of S under its key, and what it agrees on with the
\* last of it: the value, or that the value does not sink.
Alike(S, k, v) ==
  \A i \in S : LET B == {j \in S : j < i /\ k[j] = k[i]}
               IN  B # {} => v[Greatest(B)] = v[i]

Rising(S, k, v) ==
  \A i \in S : LET B == {j \in S : j < i /\ k[j] = k[i]}
               IN  B # {} => v[Greatest(B)] <= v[i]

(* What each row says of the row before it under its key holds of all rows   *)
(* before it under that key.                                                 *)
LEMMA AllAlike ==
  ASSUME NEW n \in Nat, NEW S, S \subseteq 1 .. n, NEW k, NEW v, Alike(S, k, v)
  PROVE  \A i, j \in S : k[i] = k[j] => v[i] = v[j]
<1> DEFINE Bad == {i \in S : \E j \in S : j < i /\ k[j] = k[i] /\ v[j] # v[i]}
<1>1. Bad = {}
  <2> SUFFICES ASSUME Bad # {} PROVE FALSE
    OBVIOUS
  <2>1. PICK i \in Bad : \A x \in Bad : i <= x
    <3>1. Bad \subseteq S
      OBVIOUS
    <3>2. 1 .. n \subseteq Nat
      OBVIOUS
    <3> HIDE DEF Bad
    <3> QED BY <3>1, <3>2, Minimum
  <2>2. PICK j \in S : j < i /\ k[j] = k[i] /\ v[j] # v[i]
    BY <2>1
  <2> DEFINE B == {x \in S : x < i /\ k[x] = k[i]}
  <2>3. B \subseteq 1 .. n /\ j \in B /\ i \in S
    BY <2>1, <2>2
  <2>4. v[Greatest(B)] = v[i]
    BY <2>3 DEF Alike
  <2>5. Greatest(B) \in B /\ j <= Greatest(B)
    <3> HIDE DEF B
    <3> QED BY <2>3, GreatestIn
  <2> DEFINE g == Greatest(B)
  <2>6. g \in S /\ g < i /\ k[g] = k[i]
    BY <2>5
  <2> HIDE DEF g, B
  <2>7. g \notin Bad
    <3>1. ~(i <= g)
      BY <2>3, <2>6
    <3> QED BY <2>1, <3>1
  <2>8. j < g \/ j = g
    <3>1. g \in 1 .. n /\ j \in 1 .. n /\ j <= g
      BY <2>3, <2>5 DEF g
    <3> QED BY <3>1
  <2> QED BY <2>2, <2>4, <2>6, <2>7, <2>8 DEF g
<1>2. ASSUME NEW i \in S, NEW j \in S, k[i] = k[j]
      PROVE  v[i] = v[j]
  <2>1. i < j \/ j < i \/ i = j
    OBVIOUS
  <2> QED BY <1>1, <1>2, <2>1
<1> QED BY <1>2

(* What does not sink from a row to the next under its key does not sink     *)
(* between any two rows under that key.                                      *)
LEMMA AllRising ==
  ASSUME NEW n \in Nat, NEW S, S \subseteq 1 .. n, NEW k, NEW v,
         \A i \in S : v[i] \in Int, Rising(S, k, v)
  PROVE  \A i, j \in S : j < i /\ k[j] = k[i] => v[j] <= v[i]
<1> DEFINE Bad == {i \in S : \E j \in S : j < i /\ k[j] = k[i] /\ ~(v[j] <= v[i])}
<1>1. Bad = {}
  <2> SUFFICES ASSUME Bad # {} PROVE FALSE
    OBVIOUS
  <2>1. PICK i \in Bad : \A x \in Bad : i <= x
    <3>1. Bad \subseteq S
      OBVIOUS
    <3>2. 1 .. n \subseteq Nat
      OBVIOUS
    <3> HIDE DEF Bad
    <3> QED BY <3>1, <3>2, Minimum
  <2>2. PICK j \in S : j < i /\ k[j] = k[i] /\ ~(v[j] <= v[i])
    BY <2>1
  <2> DEFINE B == {x \in S : x < i /\ k[x] = k[i]}
  <2>3. B \subseteq 1 .. n /\ j \in B /\ i \in S
    BY <2>1, <2>2
  <2>4. v[Greatest(B)] <= v[i]
    BY <2>3 DEF Rising
  <2>5. Greatest(B) \in B /\ j <= Greatest(B)
    <3> HIDE DEF B
    <3> QED BY <2>3, GreatestIn
  <2> DEFINE g == Greatest(B)
  <2>6. g \in S /\ g < i /\ k[g] = k[i]
    BY <2>5
  <2> HIDE DEF g, B
  <2>7. g \notin Bad
    <3>1. ~(i <= g)
      BY <2>3, <2>6
    <3> QED BY <2>1, <3>1
  <2>8. j < g \/ j = g
    <3>1. g \in 1 .. n /\ j \in 1 .. n /\ j <= g
      BY <2>3, <2>5 DEF g
    <3> QED BY <3>1
  <2>9. v[j] <= v[g]
    <3>1. CASE j < g
      BY <2>2, <2>6, <2>7, <3>1
    <3>2. CASE j = g
      BY <2>6, <3>2
    <3> QED BY <2>8, <3>1, <3>2
  <2>10. v[g] <= v[i] /\ v[g] \in Int /\ v[j] \in Int /\ v[i] \in Int
    BY <2>2, <2>3, <2>4, <2>6 DEF g
  <2> QED BY <2>2, <2>9, <2>10
<1> QED BY <1>1

\* The rows of a transcript of a suite are as they were parsed.
ParsedRows(s, T) == \A i \in DOMAIN T : Parsed(s, T[i])

\* The hashes in a transcript of a suite stand for what was hashed.
HashedRows(s, T) == \A i, j \in DOMAIN T : HashStandsFor(s, T[i], T[j])

-----------------------------------------------------------------------------
(* Rights: a right is used only by whom, for what and while it was granted.  *)

(* A use of a lease comes after its grant and before its release, and a      *)
(* lease that was granted once never had more uses than its grant allows.    *)
LEMMA QLPromise ==
  ASSUME NEW M, NEW T \in Seq(M), QLPasses(T)
  PROVE  QLLegal(T)
<1> SUFFICES ASSUME NEW i \in Rows(T, Use)
             PROVE  /\ QLConfig(T).required =>
                          \E g \in Grants(T, T[i].lease) :
                             g < i /\ \A r \in Releases(T, T[i].lease) : i < r
                    /\ \A g \in Grants(T, T[i].lease) : Grants(T, T[i].lease) = {g} =>
                          /\ Cardinality({j \in UsesOf(T, T[i].lease, Use) : j <= i}) <= T[g].msgs
                          /\ Cardinality({j \in UsesOf(T, T[i].lease, {"TOOL_CALL_REQUEST"}) : j <= i}) <= T[g].calls
  BY DEF QLLegal
<1> DEFINE l == T[i].lease
<1>0. /\ i \in 1 .. Len(T) /\ Len(T) \in Nat
      /\ Grants(T, l) \subseteq 1 .. Len(T) /\ Releases(T, l) \subseteq 1 .. Len(T)
  BY RowsFinite DEF Grants, Releases
<1>1. QL_LEASE(T) = {} /\ QL_BOUND(T) = {} /\ QL_OVERRUN(T) = {}
  BY DEF QLPasses
<1>2. ASSUME QLConfig(T).required
      PROVE  \E g \in Grants(T, l) : g < i /\ \A r \in Releases(T, l) : i < r
  <2>1. Known(T, i) /\ Earlier(Releases(T, l), i) = {}
    BY <1>1, <1>2 DEF QL_BOUND
  <2>2. PICK g \in Grants(T, l) : g < i
    BY <2>1 DEF Known, Earlier
  <2>3. ASSUME NEW r \in Releases(T, l)
        PROVE  i < r
    <3>1. ~(r < i)
      BY <2>1 DEF Earlier
    <3>2. r # i
      BY DEF Releases, Rows, Use
    <3> QED BY <1>0, <3>1, <3>2
  <2> QED BY <2>2, <2>3
<1>3. ASSUME NEW g \in Grants(T, l), Grants(T, l) = {g}
      PROVE  /\ Cardinality({j \in UsesOf(T, l, Use) : j <= i}) <= T[g].msgs
             /\ Cardinality({j \in UsesOf(T, l, {"TOOL_CALL_REQUEST"}) : j <= i}) <= T[g].calls
  <2>1. g \in Rows(T, {"QUEUE_LEASE_GRANT"}) /\ T[g].lease = l /\ l # None
    BY DEF Grants
  <2>2. Greatest(Grants(T, l)) = g
    BY <1>0, <1>3, LastRow
  <2>3. ~Exceeds(T, l, UsesOf(T, l, Use), UsesOf(T, l, {"TOOL_CALL_REQUEST"}))
    <3>1. l \in {T[k].lease : k \in Rows(T, {"QUEUE_LEASE_GRANT"})} \ {None}
      BY <2>1
    <3> QED BY <1>1, <3>1 DEF QL_OVERRUN
  <2>4. /\ ~(Cardinality(UsesOf(T, l, Use)) > T[g].msgs)
        /\ ~(Cardinality(UsesOf(T, l, {"TOOL_CALL_REQUEST"})) > T[g].calls)
    BY <2>2, <2>3 DEF Exceeds
  <2>5. ASSUME NEW types, NEW n \in Int, ~(Cardinality(UsesOf(T, l, types)) > n)
        PROVE  Cardinality({j \in UsesOf(T, l, types) : j <= i}) <= n
    <3> DEFINE U == UsesOf(T, l, types)
               V == {j \in U : j <= i}
    <3>1. IsFiniteSet(U)
      BY RowsFinite DEF UsesOf
    <3>2. V \in SUBSET U
      OBVIOUS
    <3> HIDE DEF U, V
    <3>3. /\ Cardinality(U) \in Nat /\ Cardinality(V) \in Nat
          /\ Cardinality(V) <= Cardinality(U)
      BY <3>1, <3>2, FS_Subset, FS_CardinalityType
    <3> QED BY <2>5, <3>3 DEF U, V
  <2>6. T[g].msgs \in Int /\ T[g].calls \in Int
    BY <1>1, <2>1 DEF QL_LEASE
  <2> QED BY <2>4, <2>5, <2>6
<1> QED BY <1>2, <1>3

(* Under a blocking contract what is delivered is the very message that an   *)
(* enforcer allowed; when it has a hash and no two verdicts are about one    *)
(* message, no verdict denies it.                                            *)
LEMMA ENFPromise ==
  ASSUME NEW M, NEW T \in Seq(M), ENFPasses(T)
  PROVE  ENFLegal(T)
<1> SUFFICES ASSUME ENFConfig(T).blocking, NEW i \in Rows(T, {"CONTENT_DELIVER"})
             PROVE  \E v \in Verdicts(T) :
                      /\ T[v].decision = "ALLOW" /\ T[v].target = T[i].embedded.hash
                      /\ ENFConfig(T).enforcers # {} => T[v].sender \in ENFConfig(T).enforcers
                      /\ T[v].target # None /\ ENF_VERDICT_STORM(T) = {} => \A w \in Verdicts(T) :
                            T[w].target = T[v].target => T[w].decision = "ALLOW"
  BY DEF ENFLegal
<1>0. Verdicts(T) \subseteq 1 .. Len(T)
  BY RowsFinite DEF Verdicts
<1>1. ENF_AUTH(T) = {} /\ ENF_GATE(T) = {}
  BY DEF ENFPasses
<1> DEFINE v == Greatest(Named(T, i))
<1>2. Named(T, i) # {} /\ Vouches(T, v, i)
  BY <1>1 DEF ENF_GATE
<1>3. v \in Verdicts(T)
  BY <1>0, <1>2, LastRow DEF Named
<1>4. T[v].decision = "ALLOW" /\ T[v].target = T[i].embedded.hash
  BY <1>2 DEF Vouches
<1>5. ENFConfig(T).enforcers # {} => T[v].sender \in ENFConfig(T).enforcers
  BY <1>1, <1>3 DEF ENF_AUTH
<1>6. ASSUME T[v].target # None, ENF_VERDICT_STORM(T) = {}, NEW w \in Verdicts(T), T[w].target = T[v].target
      PROVE  T[w].decision = "ALLOW"
  <2>1. w \in Nat /\ v \in Nat /\ T[w].target # None
    BY <1>0, <1>3, <1>6
  <2>2. ~(v < w) /\ ~(w < v)
    BY <1>3, <1>6, <2>1 DEF ENF_VERDICT_STORM, Earlier
  <2> QED BY <1>4, <2>1, <2>2
<1> HIDE DEF v
<1> QED BY <1>3, <1>4, <1>5, <1>6

\* Times are numbers or missing, and a guarded call has a set of names.
HATimes(T) ==
  /\ \A i \in Rows(T, {"APPROVAL_CHALLENGE", "APPROVAL_GRANT", "APPROVAL_DENY"}) :
        T[i].expires \in Int \cup {None}
  /\ \A i \in Decisions(T) \cup Guarded(T) : T[i].time \in Int \cup {None}
  /\ \A i \in Guarded(T) : T[i].target # None

(* What the parsing gives is what the approvals need.                        *)
LEMMA HAParsed ==
  ASSUME NEW T, ParsedRows("HA", T)
  PROVE  HATimes(T)
<1>1. /\ \A i \in Rows(T, {"APPROVAL_CHALLENGE", "APPROVAL_GRANT", "APPROVAL_DENY"}) :
            T[i].expires \in Int \cup {None}
      /\ \A i \in Rows(T, {"APPROVAL_GRANT", "APPROVAL_DENY", "TOOL_CALL_REQUEST"}) :
            T[i].time \in Int \cup {None}
      /\ \A i \in Rows(T, {"TOOL_CALL_REQUEST"}) : T[i].target # None
  BY DEF ParsedRows, Parsed, Number, Rows
<1>2. Decisions(T) \cup Guarded(T) \subseteq Rows(T, {"APPROVAL_GRANT", "APPROVAL_DENY", "TOOL_CALL_REQUEST"})
  BY DEF Decisions, Guarded, Rows
<1>3. Guarded(T) \subseteq Rows(T, {"TOOL_CALL_REQUEST"})
  BY DEF Guarded, Rows
<1> QED BY <1>1, <1>2, <1>3 DEF HATimes

(* A guarded call was granted before it, for that very call, by the person   *)
(* who was asked, and all of them while the challenge lasted.                *)
LEMMA HAPromise ==
  ASSUME NEW M, NEW T \in Seq(M), HATimes(T), HAPasses(T), None \notin Int
  PROVE  HALegal(T)
<1> SUFFICES ASSUME NEW i \in Guarded(T)
             PROVE  \E g \in 1 .. i - 1, c \in 1 .. i - 1 :
                      /\ c < g /\ T[c].type = "APPROVAL_CHALLENGE" /\ T[g].type = "APPROVAL_GRANT"
                      /\ T[g].challenge = T[c].hash /\ T[c].target = T[i].target
                      /\ T[g].sender = T[c].approver /\ T[g].time <= T[c].expires
                      /\ T[i].time # None => T[i].time <= T[c].expires
  BY DEF HALegal
<1>1. HA_SIGNER(T) = {} /\ HA_TARGET_REUSE(T) = {} /\ HA_EXPIRY(T) = {} /\ HA_ENFORCER_BIND(T) = {}
  BY DEF HAPasses
<1>2. GrantsFor(T, i) # {}
  BY <1>1 DEF HA_ENFORCER_BIND
<1>3. PICK g \in GrantsFor(T, i) : T[i].time # None => ~Late(T[i].time, T[g].expires)
  <2>1. T[i].time # None => ~\A g \in GrantsFor(T, i) : Late(T[i].time, T[g].expires)
    BY <1>1, <1>2 DEF HA_EXPIRY
  <2> QED BY <1>2, <2>1
<1>4. /\ g \in Answered(T) /\ g \in Rows(T, {"APPROVAL_GRANT"}) /\ g < i
      /\ ChallengeOf(T, g).target = T[i].target
  BY DEF GrantsFor, Earlier
<1> DEFINE c == Greatest(Challenged(T, g))
<1>5. c \in Rows(T, {"APPROVAL_CHALLENGE"}) /\ c < g /\ T[c].hash = T[g].challenge
  <2>1. Challenged(T, g) # {} /\ Challenged(T, g) \subseteq 1 .. Len(T)
    BY <1>4, RowsFinite DEF Answered, Challenged, Under, Earlier
  <2>2. c \in Challenged(T, g)
    BY <2>1, LastRow
  <2> QED BY <2>2 DEF Challenged, Under, Earlier
<1>6. ChallengeOf(T, g) = T[c]
  BY DEF ChallengeOf
<1> HIDE DEF c
<1>7. /\ T[c].type = "APPROVAL_CHALLENGE" /\ T[g].type = "APPROVAL_GRANT"
      /\ g \in 1 .. i - 1 /\ c \in 1 .. i - 1
  <2>1. g \in 1 .. Len(T) /\ c \in 1 .. Len(T) /\ i \in 1 .. Len(T) /\ Len(T) \in Nat
    BY <1>4, <1>5, RowsFinite DEF Guarded
  <2> QED BY <1>4, <1>5, <2>1 DEF Rows
<1>8. T[g].sender = T[c].approver
  <2>1. {T[g].sender, T[g].approver} = {T[c].approver}
    BY <1>1, <1>4, <1>6 DEF HA_SIGNER
  <2> QED BY <2>1
<1>9. ~Late(T[g].time, T[c].expires)
  BY <1>1, <1>4, <1>6 DEF HA_EXPIRY
<1>10. /\ T[g].time \in Int /\ T[c].expires \in Int /\ T[g].time <= T[c].expires
  <2>1. T[g].time \in Int \cup {None} /\ T[c].expires \in Int \cup {None}
    BY <1>4, <1>5 DEF HATimes, Answered, Rows
  <2> QED BY <1>9, <2>1 DEF Late
<1>11. T[g].expires = T[c].expires
  <2>1. T[c].target # None
    BY <1>4, <1>6 DEF HATimes
  <2>2. T[c].expires # None
    BY <1>9 DEF Late
  <2> QED BY <1>1, <1>4, <1>6, <2>1, <2>2 DEF HA_TARGET_REUSE
<1>12. T[i].time # None => T[i].time <= T[c].expires
  <2>1. T[i].time \in Int \cup {None}
    BY DEF HATimes
  <2> QED BY <1>3, <1>10, <1>11, <2>1 DEF Late
<1> QED BY <1>4, <1>5, <1>6, <1>7, <1>8, <1>10, <1>12

\* What is referred to by its hash is one message.
Identified(T, types) ==
  \A i, j \in Rows(T, types) : T[i].hash = T[j].hash /\ T[i].hash # None => T[i] = T[j]

(* When hashes stand for what was hashed, the suites of external             *)
(* transactions can look a declaration up by its hash.                       *)
LEMMA ETHashed ==
  ASSUME NEW T, NEW s \in {"ET", "CM"}, HashedRows(s, T)
  PROVE  Identified(T, {"EXTERNAL_TX_DECLARE"}) /\ Identified(T, {"POLICY_EVAL_RESULT"})
BY DEF HashedRows, HashStandsFor, Identified, Rows

(* External transactions, by the checks that both suites have in common.     *)
LEMMA ReportedWhen ==
  ASSUME NEW M, NEW T \in Seq(M),
         Identified(T, {"EXTERNAL_TX_DECLARE"}), Identified(T, {"POLICY_EVAL_RESULT"}),
         \A i \in Results(T) :
            /\ Declared(T, i) # {} /\ ~Mismatched(T, i)
            /\ DeclaresThat(T, i, "needsApproval") /\ T[i].irreversible => Approvals(T, i) # {}
            /\ T[i].policyRef # None => Evaluations(T, i) # {} /\ Evaluation(T, i) # "DENY"
  PROVE  Reported(T)
<1> SUFFICES ASSUME NEW i \in Results(T), NEW d \in Rows(T, {"EXTERNAL_TX_DECLARE"}),
                    d < i, T[d].hash = T[i].declared
             PROVE  /\ T[d].tx = T[i].tx
                    /\ T[d].needsApproval = TRUE /\ T[i].irreversible =>
                         \E a \in 1 .. i - 1 : T[a].type = "APPROVAL_GRANT" /\ T[a].hash = T[i].approvalRef
                    /\ \A e \in 1 .. i - 1 :
                         /\ T[e].type = "POLICY_EVAL_RESULT" /\ T[e].hash = T[i].policyRef
                         /\ T[i].policyRef # None
                         => T[e].decision # "DENY"
  BY DEF Reported
<1>0. i \in 1 .. Len(T) /\ Len(T) \in Nat /\ DOMAIN T = 1 .. Len(T)
  BY RowsFinite DEF Results
<1>1. ASSUME NEW types, NEW hash, Under(T, types, i, hash) # {}
      PROVE  LET j == Greatest(Under(T, types, i, hash))
             IN  j \in Rows(T, types) /\ j \in 1 .. i - 1 /\ T[j].hash = hash /\ hash # None
  <2>1. Under(T, types, i, hash) \subseteq 1 .. Len(T)
    BY RowsFinite DEF Under, Earlier
  <2>2. Greatest(Under(T, types, i, hash)) \in Under(T, types, i, hash)
    BY <1>1, <2>1, LastRow
  <2> QED BY <1>0, <2>1, <2>2 DEF Under, Earlier
<1>2. T[d] = Declaration(T, i)
  <2>1. Declared(T, i) # {}
    OBVIOUS
  <2> QED BY <1>1, <2>1 DEF Declared, Declaration, Identified
<1>3. T[d].tx = T[i].tx
  BY <1>2 DEF Mismatched
<1>4. ASSUME T[d].needsApproval = TRUE, T[i].irreversible
      PROVE  \E a \in 1 .. i - 1 : T[a].type = "APPROVAL_GRANT" /\ T[a].hash = T[i].approvalRef
  <2>1. DeclaresThat(T, i, "needsApproval")
    BY <1>2, <1>4 DEF DeclaresThat
  <2>2. Approvals(T, i) # {}
    BY <1>4, <2>1
  <2>3. PICK a \in 1 .. i - 1 : a \in Rows(T, {"APPROVAL_GRANT"}) /\ T[a].hash = T[i].approvalRef
    BY <1>1, <2>2 DEF Approvals
  <2> QED BY <2>3 DEF Rows
<1>5. ASSUME NEW e \in 1 .. i - 1, T[e].type = "POLICY_EVAL_RESULT",
             T[e].hash = T[i].policyRef, T[i].policyRef # None
      PROVE  T[e].decision # "DENY"
  <2>1. Evaluations(T, i) # {} /\ Evaluation(T, i) # "DENY"
    BY <1>5
  <2>2. e \in Rows(T, {"POLICY_EVAL_RESULT"})
    BY <1>0, <1>5 DEF Rows
  <2>3. T[e] = T[Greatest(Evaluations(T, i))]
    BY <1>1, <1>5, <2>1, <2>2 DEF Evaluations, Identified
  <2> QED BY <2>1, <2>3 DEF Evaluation
<1> QED BY <1>3, <1>4, <1>5

(* Of a declared transaction nothing irreversible that needs an approval is  *)
(* reported without one granted before, and nothing that a policy denied:    *)
(* for the suite of transactions and for that of the commerce profile.       *)
LEMMA ETPromise ==
  ASSUME NEW M, NEW T \in Seq(M),
         Identified(T, {"EXTERNAL_TX_DECLARE"}), Identified(T, {"POLICY_EVAL_RESULT"}),
         ETPasses(T) \/ CMPasses(T)
  PROVE  Reported(T)
<1>1. CASE ETPasses(T)
  <2>1. /\ ET_DECLARE_LINK(T) = {} /\ ET_RESULT_LINK(T) = {}
        /\ ET_IRREVERSIBLE_APPROVAL(T) = {} /\ ET_POLICY_LINK(T) = {}
    BY <1>1 DEF ETPasses
  <2>2. ASSUME NEW i \in Results(T)
        PROVE  /\ Declared(T, i) # {} /\ ~Mismatched(T, i)
               /\ DeclaresThat(T, i, "needsApproval") /\ T[i].irreversible => Approvals(T, i) # {}
               /\ T[i].policyRef # None => Evaluations(T, i) # {} /\ Evaluation(T, i) # "DENY"
    BY <2>1 DEF ET_DECLARE_LINK, ET_RESULT_LINK, ET_IRREVERSIBLE_APPROVAL, ET_POLICY_LINK, NeedsApproval
  <2> QED BY <2>2, ReportedWhen
<1>2. CASE CMPasses(T)
  <2>1. CM_EXT_TX_ANCHOR(T) = {} /\ CM_APPROVAL_REQUIRED(T) = {} /\ CM_POLICY_GATE(T) = {}
    BY <1>2 DEF CMPasses
  <2>2. ASSUME NEW i \in Results(T)
        PROVE  /\ Declared(T, i) # {} /\ ~Mismatched(T, i)
               /\ DeclaresThat(T, i, "needsApproval") /\ T[i].irreversible => Approvals(T, i) # {}
               /\ T[i].policyRef # None => Evaluations(T, i) # {} /\ Evaluation(T, i) # "DENY"
    BY <2>1 DEF CM_EXT_TX_ANCHOR, CM_APPROVAL_REQUIRED, CM_POLICY_GATE
  <2> QED BY <2>2, ReportedWhen
<1> QED BY <1>1, <1>2

(* The verdict or the attestation that a result stands on is about the       *)
(* request that the result answers, and from an acceptor.                    *)
LEMMA TGPromise ==
  ASSUME NEW M, NEW T \in Seq(M), TGPasses(T)
  PROVE  TGLegal(T)
<1> DEFINE Stands(i, j, r) ==
             /\ r < i /\ r < j /\ T[r].hash = T[i].target /\ T[j].target = T[r].hash
             /\ TGConfig(T).acceptors # {} => T[j].sender \in TGConfig(T).acceptors
             /\ TGConfig(T).mode = "audit" => i < j /\ T[j].type = "TOOL_CALL_ATTEST"
<1> SUFFICES ASSUME NEW i \in ToolResults(T), TGConfig(T).mode \in {"blocking", "audit"}
             PROVE  \E j \in Rows(T, {"TOOL_CALL_VERDICT", "TOOL_CALL_ATTEST"}),
                       r \in Rows(T, {"TOOL_CALL_REQUEST"}) : Stands(i, j, r)
  BY DEF TGLegal
<1>0. DOMAIN T = 1 .. Len(T) /\ Len(T) \in Nat
  OBVIOUS
<1>1. TG_AUTH(T) = {} /\ TG_BIND(T) = {} /\ TG_MODE(T) = {}
  BY DEF TGPasses
<1>2. ASSUME NEW k \in Rows(T, {"TOOL_CALL_VERDICT", "TOOL_CALL_RESULT", "TOOL_CALL_ATTEST"})
      PROVE  \E r \in Rows(T, {"TOOL_CALL_REQUEST"}) : r < k /\ T[r].hash = T[k].target
  <2>1. Under(T, {"TOOL_CALL_REQUEST"}, k, T[k].target) # {}
    BY <1>1 DEF TG_BIND
  <2> QED BY <2>1 DEF Under, Earlier
<1>3. \E j \in Rows(T, {"TOOL_CALL_VERDICT", "TOOL_CALL_ATTEST"}) :
         /\ T[j].target = T[i].target
         /\ TGConfig(T).mode = "audit" => i < j /\ T[j].type = "TOOL_CALL_ATTEST"
  <2>1. CASE TGConfig(T).mode = "blocking"
    <3>1. TG_BLOCKING(T) = {}
      BY <1>1, <2>1 DEF TG_MODE
    <3> DEFINE V == ToolVerdicts(T, T[i].verdict)
    <3>2. V # {} /\ Allows(T[Greatest(V)], T[i])
      BY <3>1 DEF TG_BLOCKING
    <3>3. Greatest(V) \in Rows(T, {"TOOL_CALL_VERDICT"})
      <4>1. V \subseteq 1 .. Len(T) /\ V \subseteq Rows(T, {"TOOL_CALL_VERDICT"})
        BY RowsFinite DEF ToolVerdicts
      <4> HIDE DEF V
      <4> QED BY <3>2, <4>1, LastRow
    <3> QED BY <2>1, <3>2, <3>3 DEF Allows, Rows
  <2>2. CASE TGConfig(T).mode = "audit"
    <3>1. TG_AUDIT(T) = {}
      BY <1>1, <2>2 DEF TG_MODE
    <3> QED BY <3>1 DEF TG_AUDIT, Witnesses, Rows
  <2> QED BY <2>1, <2>2
<1>4. PICK j \in Rows(T, {"TOOL_CALL_VERDICT", "TOOL_CALL_ATTEST"}) :
         /\ T[j].target = T[i].target
         /\ TGConfig(T).mode = "audit" => i < j /\ T[j].type = "TOOL_CALL_ATTEST"
  BY <1>3
<1>5. TGConfig(T).acceptors # {} => T[j].sender \in TGConfig(T).acceptors
  BY <1>1 DEF TG_AUTH
<1>6. i \in Nat /\ j \in Nat /\ Rows(T, {"TOOL_CALL_REQUEST"}) \subseteq Nat
  BY <1>0 DEF Rows, ToolResults
<1>7. PICK r \in Rows(T, {"TOOL_CALL_REQUEST"}) : r < i /\ T[r].hash = T[i].target
  BY <1>2 DEF ToolResults, Rows
<1>8. PICK q \in Rows(T, {"TOOL_CALL_REQUEST"}) : q < j /\ T[q].hash = T[j].target
  BY <1>2 DEF Rows
<1>9. CASE r < j
  BY <1>4, <1>5, <1>7, <1>9
<1>10. CASE ~(r < j)
  <2>1. q < i
    BY <1>6, <1>7, <1>8, <1>10
  <2> QED BY <1>4, <1>5, <1>8, <2>1
<1> QED BY <1>9, <1>10

-----------------------------------------------------------------------------
(* Lives: what has a life goes through it in order.                          *)

\* No row binds again what was bound before under its key; and all rows under
\* one key are bound to the same.
Steady(T, key, value) == \A i \in Binds(T) : ~Rebinds(T, i, key, value)

BoundAlike(T, key, value) ==
  \A i, j \in Binds(T) : T[i][key] = T[j][key] => T[i][value] = T[j][value]

(* Runs and threads that are bound by rows stay bound as they were first:    *)
(* each row agrees with the row before it under its key, and so with all.    *)
LEMMA BoundOnce ==
  ASSUME NEW M, NEW T \in Seq(M), NEW key, NEW value, Steady(T, key, value)
  PROVE  BoundAlike(T, key, value)
<1>0. Binds(T) \subseteq 1 .. Len(T) /\ Len(T) \in Nat
  BY RowsFinite DEF Binds
<1> DEFINE Odd == {j \in Binds(T) : \E i \in Binds(T) :
                     i < j /\ T[i][key] = T[j][key] /\ T[i][value] # T[j][value]}
<1>1. Odd = {}
  <2> SUFFICES ASSUME Odd # {}
               PROVE  FALSE
    OBVIOUS
  <2>1. Odd \subseteq 1 .. Len(T)
    BY <1>0
  <2> DEFINE j == Least(Odd)
  <2>2. j \in Odd /\ \A k \in Odd : j <= k
    <3> HIDE DEF Odd
    <3> QED BY <2>1, LastRow
  <2> HIDE DEF j
  <2>3. PICK i \in Binds(T) : i < j /\ T[i][key] = T[j][key] /\ T[i][value] # T[j][value]
    BY <2>2
  <2> DEFINE g == Greatest(BoundBefore(T, j, key))
  <2>4. g \in BoundBefore(T, j, key) /\ i <= g /\ BoundBefore(T, j, key) # {}
    <3>1. i \in BoundBefore(T, j, key) /\ BoundBefore(T, j, key) \subseteq 1 .. Len(T)
      BY <1>0, <2>3 DEF BoundBefore, Earlier
    <3> QED BY <3>1, LastRow
  <2>5. T[g][value] = T[j][value]
    BY <2>2, <2>4 DEF Rebinds, Steady
  <2> HIDE DEF g
  <2>6. g \in Binds(T) /\ g < j /\ T[g][key] = T[j][key]
    BY <2>4 DEF BoundBefore, Earlier
  <2>7. i < g
    <3>1. i # g
      BY <2>3, <2>5
    <3> QED BY <1>0, <2>4, <2>6, <3>1
  <2>8. g \in Odd
    BY <2>3, <2>5, <2>6, <2>7
  <2> QED BY <1>0, <2>2, <2>6, <2>8
<1>2. ASSUME NEW i \in Binds(T), NEW j \in Binds(T), T[i][key] = T[j][key]
      PROVE  T[i][value] = T[j][value]
  <2>1. CASE i < j
    BY <1>1, <1>2, <2>1
  <2>2. CASE j < i
    BY <1>1, <1>2, <2>2
  <2>3. CASE i = j
    BY <2>3
  <2> QED BY <1>0, <2>1, <2>2, <2>3
<1> QED BY <1>2 DEF BoundAlike

(* A run begins with its only creation and says no more after its end, a     *)
(* thread grows between its creation and its close, and runs and threads are *)
(* bound one to one.                                                         *)
LEMMA EXPromise ==
  ASSUME NEW M, NEW T \in Seq(M), EXPasses(T)
  PROVE  EXLegal(T)
<1>0. Len(T) \in Nat /\ \A types : Rows(T, types) \subseteq 1 .. Len(T)
  BY RowsFinite
<1>1. /\ EX_RUN_REF(T) = {} /\ EX_RUN_TERMINAL(T) = {} /\ EX_RUN_TRANSITION(T) = {}
      /\ EX_THREAD_REF(T) = {} /\ EX_THREAD_CLOSED(T) = {} /\ EX_CROSS_BIND(T) = {}
  BY DEF EXPasses
<1>2. OneLife(T)
  <2> SUFFICES ASSUME NEW i \in Rows(T, RunSteps)
               PROVE  /\ \E j \in RunRows(T, T[i].run) \cap Rows(T, {"RUN_CREATE"}) : j < i
                      /\ \A j \in RunRows(T, T[i].run) : j < i => T[j].type \notin RunEnds
    BY DEF OneLife
  <2> DEFINE R == RunRows(T, T[i].run)
             f == Least(R)
  <2>1. R \subseteq 1 .. Len(T) /\ \A j \in R : T[j].run = T[i].run /\ j \in Rows(T, RunSteps \cup {"RUN_CREATE"})
    BY <1>0 DEF RunRows
  <2>2. PICK e \in R : e < i
    BY <1>1 DEF EX_RUN_REF, Earlier
  <2>3. f \in R /\ \A j \in R : f <= j
    <3> HIDE DEF R
    <3> QED BY <2>1, <2>2, LastRow
  <2>4. f \in Rows(T, {"RUN_CREATE"})
    <3>1. CASE f \in Rows(T, RunSteps)
      <4>1. Earlier(RunRows(T, T[f].run), f) # {} /\ T[f].run = T[i].run
        BY <1>1, <2>1, <2>3, <3>1 DEF EX_RUN_REF
      <4>2. PICK k \in R : k < f
        BY <4>1 DEF Earlier
      <4>3. f \in Nat /\ k \in Nat
        BY <1>0, <2>1, <2>3
      <4> HIDE DEF f, R
      <4> QED BY <2>3, <4>2, <4>3
    <3>2. CASE f \notin Rows(T, RunSteps)
      BY <2>1, <2>3, <3>2 DEF Rows
    <3> QED BY <3>1, <3>2
  <2>5. f < i
    <3>1. f \in Nat /\ e \in Nat /\ i \in Nat
      BY <1>0, <2>1, <2>3
    <3> HIDE DEF f, R
    <3> QED BY <2>2, <2>3, <3>1
  <2>6. ASSUME NEW j \in R, j < i
        PROVE  T[j].type \notin RunEnds
    BY <1>1, <2>6 DEF EX_RUN_TERMINAL, Ended, Earlier, RunRows, Rows
  <2> HIDE DEF f
  <2> QED BY <2>3, <2>4, <2>5, <2>6
<1>3. OneCreation(T)
  <2> SUFFICES ASSUME NEW i \in Rows(T, {"RUN_CREATE"}), NEW j \in Rows(T, {"RUN_CREATE"}),
                      T[i].run = T[j].run, T[i].run # None
               PROVE  i = j
    BY DEF OneCreation
  <2>1. i \in RunRows(T, T[j].run) /\ j \in RunRows(T, T[i].run)
    BY DEF RunRows, Rows
  <2>2. ~(i < j) /\ ~(j < i)
    BY <1>1, <2>1 DEF EX_RUN_TRANSITION, Earlier
  <2> QED BY <1>0, <2>2
<1>4. OpenThread(T)
  <2> SUFFICES ASSUME NEW i \in Rows(T, ThreadSteps)
               PROVE  /\ \E j \in ThreadRows(T, T[i].thread, "THREAD_CREATE") : j < i
                      /\ \A j \in ThreadRows(T, T[i].thread, "THREAD_CLOSE") : i <= j
    BY DEF OpenThread
  <2>1. \E j \in ThreadRows(T, T[i].thread, "THREAD_CREATE") : j < i
    BY <1>1 DEF EX_THREAD_REF, Earlier
  <2>2. ASSUME NEW j \in ThreadRows(T, T[i].thread, "THREAD_CLOSE")
        PROVE  i <= j
    <3>1. ~(j < i)
      BY <1>1 DEF EX_THREAD_CLOSED, Earlier
    <3>2. i \in Nat /\ j \in Nat
      BY <1>0 DEF ThreadRows
    <3> QED BY <3>1, <3>2
  <2> QED BY <2>1, <2>2
<1>5. OneToOne(T)
  <2>1. Steady(T, "run", "thread") /\ Steady(T, "thread", "run")
    BY <1>1 DEF EX_CROSS_BIND, Steady
  <2>2. BoundAlike(T, "run", "thread") /\ BoundAlike(T, "thread", "run")
    BY <2>1, BoundOnce
  <2> QED BY <2>2 DEF BoundAlike, OneToOne
<1> QED BY <1>2, <1>3, <1>4, <1>5 DEF EXLegal

(* What is committed under an id is what the id was prepared with, and was   *)
(* approved in between.                                                      *)
LEMMA ESPromise ==
  ASSUME NEW M, NEW T \in Seq(M), ESPasses(T)
  PROVE  ESLegal(T)
<1> SUFFICES ASSUME NEW i \in Rows(T, {"ACTION_COMMIT"}), NEW p \in Rows(T, {"ACTION_PREPARE"}),
                    T[i].escrow # None, T[p].escrow = T[i].escrow
             PROVE  /\ T[i].call = T[p].call /\ T[i].policy = T[p].policy
                    /\ \E a \in Escrow(T, T[i].escrow, "ACTION_APPROVE") :
                          p < a /\ a < i /\ T[a].approval = T[i].approval
  BY DEF ESLegal
<1> DEFINE e == T[i].escrow
<1>0. Len(T) \in Nat /\ \A types : Rows(T, types) \subseteq 1 .. Len(T)
  BY RowsFinite
<1>1. ES_FLOW(T) = {} /\ ES_BIND(T) = {}
  BY DEF ESPasses
<1>2. ASSUME NEW q \in Escrow(T, e, "ACTION_PREPARE")
      PROVE  q = p
  <2>1. q \in EscrowBefore(T, p, "ACTION_PREPARE") \/ p \in EscrowBefore(T, q, "ACTION_PREPARE") \/ q = p
    BY <1>0 DEF EscrowBefore, Escrow, Earlier
  <2>2. q \in Rows(T, {"ACTION_PREPARE"})
    BY DEF Escrow
  <2> QED BY <1>1, <2>1, <2>2 DEF ES_FLOW
<1>3. ASSUME NEW k, NEW type, k \in Rows(T, {"ACTION_APPROVE", "ACTION_COMMIT"}), EscrowBefore(T, k, type) # {}, T[k].escrow = e
      PROVE  LET g == Greatest(EscrowBefore(T, k, type))
             IN  g \in Escrow(T, e, type) /\ g < k
  <2>1. EscrowBefore(T, k, type) \subseteq 1 .. Len(T)
    BY <1>0 DEF EscrowBefore, Escrow, Earlier
  <2>2. Greatest(EscrowBefore(T, k, type)) \in EscrowBefore(T, k, type)
    BY <1>3, <2>1, LastRow
  <2> QED BY <1>3, <2>2 DEF EscrowBefore, Earlier
<1>4. /\ EscrowBefore(T, i, "ACTION_PREPARE") # {} /\ EscrowBefore(T, i, "ACTION_APPROVE") # {}
      /\ i \in Rows(T, {"ACTION_APPROVE", "ACTION_COMMIT"})
  <2>1. i \in Rows(T, {"ACTION_APPROVE", "ACTION_COMMIT"})
    BY DEF Rows
  <2> QED BY <1>1, <2>1 DEF ES_FLOW
<1>5. T[i].call = T[p].call /\ T[i].policy = T[p].policy
  <2>1. Greatest(EscrowBefore(T, i, "ACTION_PREPARE")) = p
    BY <1>2, <1>3, <1>4
  <2>2. ~Differs(T, i, "ACTION_PREPARE", "call") /\ ~Differs(T, i, "ACTION_PREPARE", "policy")
    BY <1>1 DEF ES_BIND
  <2> QED BY <1>4, <2>1, <2>2 DEF Differs
<1> DEFINE a == Greatest(EscrowBefore(T, i, "ACTION_APPROVE"))
<1>6. a \in Escrow(T, e, "ACTION_APPROVE") /\ a < i
  BY <1>3, <1>4
<1>7. T[a].approval = T[i].approval
  <2>1. ~Differs(T, i, "ACTION_APPROVE", "approval")
    BY <1>1 DEF ES_BIND
  <2> QED BY <1>4, <2>1 DEF Differs
<1> HIDE DEF a
<1>8. p < a
  <2>1. /\ a \in Rows(T, {"ACTION_APPROVE"}) /\ T[a].escrow = e /\ e # None
        /\ a \in Rows(T, {"ACTION_APPROVE", "ACTION_COMMIT"})
    BY <1>6 DEF Escrow, Rows
  <2>2. EscrowBefore(T, a, "ACTION_PREPARE") # {}
    BY <1>1, <2>1 DEF ES_FLOW
  <2> QED BY <1>2, <1>3, <2>1, <2>2
<1> QED BY <1>5, <1>6, <1>7, <1>8

(* Every transfer came to an outcome after its first assignment, and only    *)
(* the party that it was last assigned to has accepted it.                   *)
LEMMA RPPromise ==
  ASSUME NEW M, NEW T \in Seq(M), RPPasses(T)
  PROVE  RPLegal(T)
<1>1. RS_ASSIGN(T) = {} /\ RS_ACCEPT(T) = {} /\ RS_LIFECYCLE(T) = {}
  BY DEF RPPasses
<1>2. ASSUME NEW i \in Rows(T, Outcomes)
      PROVE  AssignedBefore(T, i) # {}
  BY <1>1 DEF RS_ACCEPT
<1>3. ASSUME NEW a \in Rows(T, {"RESPONSIBILITY_ASSIGN"})
      PROVE  \E i \in Rows(T, Outcomes) :
               /\ T[i].transfer = T[a].transfer
               /\ \E b \in Assigned(T, T[a].transfer) : b < i
  <2>1. T[a].transfer # None
    BY <1>1 DEF RS_ASSIGN
  <2>2. PICK i \in Rows(T, Outcomes) : T[i].transfer = T[a].transfer
    BY <1>1, <2>1 DEF RS_LIFECYCLE
  <2> QED BY <1>2, <2>2 DEF AssignedBefore, Earlier
<1>4. ASSUME NEW i \in Rows(T, {"RESPONSIBILITY_ACCEPT"})
      PROVE  \E a \in AssignedBefore(T, i) :
               T[a].to = T[i].by /\ \A b \in AssignedBefore(T, i) : b <= a
  <2>1. i \in Rows(T, Outcomes)
    BY DEF Rows, Outcomes
  <2>2. AssignedBefore(T, i) \subseteq 1 .. Len(T)
    BY RowsFinite DEF AssignedBefore, Assigned, Earlier
  <2>3. T[Greatest(AssignedBefore(T, i))].to = T[i].by
    BY <1>1, <1>2, <2>1 DEF RS_ACCEPT
  <2>4. /\ Greatest(AssignedBefore(T, i)) \in AssignedBefore(T, i)
        /\ \A b \in AssignedBefore(T, i) : b <= Greatest(AssignedBefore(T, i))
    BY <1>2, <2>1, <2>2, LastRow
  <2> QED BY <2>3, <2>4
<1> QED BY <1>3, <1>4 DEF RPLegal

(* Who joins speaks only after an acceptor accepted it and before it leaves, *)
(* and speaks under one contract.                                            *)
LEMMA PAPromise ==
  ASSUME NEW M, NEW T \in Seq(M), PAPasses(T)
  PROVE  PALegal(T)
<1>0. /\ Len(T) \in Nat /\ DOMAIN T = 1 .. Len(T) /\ \A types : Rows(T, types) \subseteq 1 .. Len(T)
      /\ Spoken(T) \subseteq 1 .. Len(T)
  BY RowsFinite DEF Spoken
<1>1. PA_JOIN(T) = {} /\ PA_AUTH(T) = {} /\ PA_MEM(T) = {} /\ PA_MODEL(T) = {}
  BY DEF PAPasses
(* Who joined before it speaks was accepted before it speaks.                *)
<1>2. ASSUME NEW j \in Rows(T, {"PARTICIPANT_JOIN"}), NEW i \in Spoken(T),
             j < i, T[i].sender = T[j].sender
      PROVE  /\ EventsBefore(T, "PARTICIPANT_ACCEPT", i, T[i].sender) # {}
             /\ EventsBefore(T, "PARTICIPANT_LEAVE", i, T[i].sender) = {}
  <2>1. T[j].participant = T[i].sender /\ T[i].sender # None
    BY <1>0, <1>1, <1>2 DEF PA_JOIN
  <2>2. EventsBefore(T, "PARTICIPANT_JOIN", i, T[i].sender) # {}
    BY <1>2, <2>1 DEF EventsBefore, Events, Earlier
  <2> QED BY <1>1, <2>2 DEF PA_MEM
<1> SUFFICES ASSUME NEW j \in Rows(T, {"PARTICIPANT_JOIN"}), NEW i \in Spoken(T),
                    j < i, T[i].sender = T[j].sender
             PROVE  /\ \E a \in Rows(T, {"PARTICIPANT_ACCEPT"}) :
                         /\ a < i /\ T[a].participant = T[i].sender
                         /\ PAConfig(T).acceptors # {} => T[a].sender \in PAConfig(T).acceptors
                    /\ \A l \in Rows(T, {"PARTICIPANT_LEAVE"}) : l < i => T[l].participant # T[i].sender
                    /\ PAConfig(T).perParticipant => \A k \in Spoken(T) :
                         j < k /\ T[k].sender = T[i].sender => T[k].contract = T[i].contract
  BY DEF PALegal
<1> DEFINE s == T[i].sender
           A == Events(T, "PARTICIPANT_ACCEPT", s)
           e == Least(A)
<1>3. s # None
  BY <1>1 DEF PA_JOIN
<1>4. \E a \in Rows(T, {"PARTICIPANT_ACCEPT"}) :
        /\ a < i /\ T[a].participant = s
        /\ PAConfig(T).acceptors # {} => T[a].sender \in PAConfig(T).acceptors
  <2>1. PICK a \in A : a < i
    BY <1>2 DEF EventsBefore, Earlier
  <2>2. a \in Rows(T, {"PARTICIPANT_ACCEPT"}) /\ T[a].participant = s
    BY DEF Events
  <2> QED BY <1>1, <2>1, <2>2 DEF PA_AUTH
<1>5. \A l \in Rows(T, {"PARTICIPANT_LEAVE"}) : l < i => T[l].participant # s
  BY <1>2, <1>3 DEF EventsBefore, Events, Earlier
<1>6. A \subseteq 1 .. Len(T)
  BY <1>0 DEF Events
<1>7. ASSUME NEW k \in Spoken(T), j < k, T[k].sender = s
      PROVE  Entry(T, k) = e /\ e \in A /\ \A x \in A : e <= x
  <2>1. PICK a \in A : a < k
    BY <1>2, <1>7 DEF EventsBefore, Earlier
  <2>2. e \in A /\ \A x \in A : e <= x
    <3> HIDE DEF A
    <3> QED BY <1>6, <2>1, LastRow
  <2> HIDE DEF e
  <2>3. /\ e \in EventsBefore(T, "PARTICIPANT_ACCEPT", k, s)
        /\ \A x \in EventsBefore(T, "PARTICIPANT_ACCEPT", k, s) : e <= x
        /\ EventsBefore(T, "PARTICIPANT_ACCEPT", k, s) \subseteq 1 .. Len(T)
    <3>1. e < k
      BY <1>0, <1>6, <2>1, <2>2
    <3> QED BY <1>6, <2>2, <3>1 DEF EventsBefore, Earlier
  <2> DEFINE B == EventsBefore(T, "PARTICIPANT_ACCEPT", k, s)
  <2>4. Least(B) = e
    <3> HIDE DEF B
    <3>1. Least(B) \in B /\ Least(B) <= e
      BY <2>3, LastRow DEF B
    <3>2. e <= Least(B) /\ e \in 1 .. Len(T) /\ Least(B) \in 1 .. Len(T)
      BY <2>3, <3>1 DEF B
    <3> QED BY <1>0, <3>1, <3>2
  <2> QED BY <1>7, <2>2, <2>4 DEF Entry
<1>8. ASSUME PAConfig(T).perParticipant, NEW k \in Spoken(T), j < k, T[k].sender = s
      PROVE  T[e].ref = T[k].contract
  <2>1. e \in A /\ \A x \in A : e <= x
    BY <1>7, <1>8
  <2>2. Entry(T, k) = e
    BY <1>7, <1>8
  <2> HIDE DEF e
  <2>3. EventsBefore(T, "PARTICIPANT_ACCEPT", e, s) = {}
    BY <1>6, <2>1 DEF EventsBefore, Earlier
  <2>4. T[e].participant = s /\ e \in Rows(T, {"PARTICIPANT_ACCEPT"})
    BY <2>1 DEF Events
  <2>5. T[e].ref # None
    BY <1>1, <1>3, <1>8, <2>3, <2>4 DEF PA_MODEL
  <2>6. EventsBefore(T, "PARTICIPANT_ACCEPT", k, T[k].sender) # {}
    BY <1>2, <1>8
  <2>7. T[e].ref \in {None, T[k].contract}
    BY <1>1, <1>8, <2>2, <2>6 DEF PA_MODEL
  <2> QED BY <2>5, <2>7
<1> HIDE DEF e
<1> QED BY <1>4, <1>5, <1>8

(* An admission was offered before it was accepted, and asked for before it  *)
(* was offered, with no more than was asked; so was what a renewal renews,   *)
(* and every request was concluded.                                          *)
LEMMA ADPromise ==
  ASSUME NEW M, NEW T \in Seq(M), ADPasses(T)
  PROVE  ADLegal(T)
<1>0. Len(T) \in Nat /\ \A types : Rows(T, types) \subseteq 1 .. Len(T)
  BY RowsFinite
<1>1. AD_REQUEST(T) = {} /\ AD_OFFER(T) = {} /\ AD_RENEW(T) = {} /\ AD_NO_SILENT_DROP(T) = {}
  BY DEF ADPasses
<1>2. ASSUME NEW o \in Rows(T, {"ADMISSION_OFFER"})
      PROVE  \E q \in Opens(T, T[o].request) :
               q < o /\ (T[q].type = "ADMISSION_REQUEST" => Within(T[o].grants, T[q].asks))
  <2> DEFINE K == Earlier(Registers(T, T[o].request), o)
  <2>1. K # {} /\ Within(T[o].grants, T[Greatest(K)].asks)
    BY <1>1 DEF AD_OFFER
  <2>2. K \subseteq 1 .. Len(T) /\ \A q \in K : q \in Opens(T, T[o].request) /\ q < o
    BY <1>0 DEF Earlier, Registers, Opens
  <2> HIDE DEF K
  <2>3. Greatest(K) \in K
    BY <2>1, <2>2, LastRow
  <2> QED BY <2>1, <2>2, <2>3
<1>3. ASSUME NEW a \in Rows(T, {"ADMISSION_ACCEPT"}), NEW i \in Nat, a <= i
      PROVE  Admitted(T, T[a].request, i)
  <2>1. Earlier(Offers(T, T[a].request), a) # {}
    BY <1>1 DEF AD_OFFER
  <2>2. PICK o \in Offers(T, T[a].request) : o < a
    BY <2>1 DEF Earlier
  <2>3. o \in Rows(T, {"ADMISSION_OFFER"}) /\ T[o].request = T[a].request /\ T[a].request # None
    BY DEF Offers
  <2>4. PICK q \in Opens(T, T[a].request) :
          q < o /\ (T[q].type = "ADMISSION_REQUEST" => Within(T[o].grants, T[q].asks))
    BY <1>2, <2>3
  <2>5. q \in 1 .. Len(T) /\ o \in 1 .. Len(T) /\ a \in 1 .. Len(T)
    BY <1>0, <2>3 DEF Opens
  <2>6. q \in 1 .. i /\ o \in 1 .. i /\ a \in 1 .. i
    BY <1>0, <1>3, <2>2, <2>4, <2>5
  <2>7. a \in Admits(T, T[a].request)
    BY <2>3 DEF Admits
  <2> QED BY <2>2, <2>4, <2>6, <2>7 DEF Admitted
<1>4. ASSUME NEW i \in Rows(T, {"ADMISSION_RENEW"})
      PROVE  Admitted(T, T[i].prior, i - 1)
  <2>1. PICK a \in Admits(T, T[i].prior) : a < i
    BY <1>1 DEF AD_RENEW, Earlier
  <2>2. a \in Rows(T, {"ADMISSION_ACCEPT"}) /\ T[a].request = T[i].prior
    BY DEF Admits
  <2>3. i - 1 \in Nat /\ a <= i - 1
    BY <1>0, <2>1, <2>2
  <2> QED BY <1>3, <2>2, <2>3
<1>5. ASSUME NEW i \in Rows(T, {"ADMISSION_REQUEST"})
      PROVE  \E j \in Rows(T, Conclusions) : T[j].request = T[i].request
  <2>1. T[i].request # None /\ i \in Rows(T, {"ADMISSION_REQUEST", "ADMISSION_RENEW"})
    BY <1>1 DEF AD_REQUEST, Rows
  <2> QED BY <1>1, <2>1 DEF AD_NO_SILENT_DROP
<1>6. ASSUME NEW i \in Rows(T, {"ADMISSION_ACCEPT"})
      PROVE  Admitted(T, T[i].request, i)
  BY <1>0, <1>3
<1> QED BY <1>4, <1>5, <1>6 DEF ADLegal

(* What is accepted was awarded, what was awarded had been bid, what was bid *)
(* had been posted, all of one request for work; and no required routing     *)
(* attestation precedes every issue of its award.                            *)
LEMMA MPPromise ==
  ASSUME NEW M, NEW T \in Seq(M), MPPasses(T)
  PROVE  MPLegal(T)
<1>0. Len(T) \in Nat /\ DOMAIN T = 1 .. Len(T) /\ \A types : Rows(T, types) \subseteq 1 .. Len(T)
  BY RowsFinite
<1>1. MP_BID(T) = {} /\ MP_AWARD(T) = {} /\ MP_ROUTING_ATTEST(T) = {}
  BY DEF MPPasses
(* What a row that agrees with the opening of its id refers to.              *)
<1>2. ASSUME NEW i, NEW types, NEW key, ~Disagrees(T, i, types, key)
      PROVE  LET g == Greatest(Opened(T, i, types, key))
             IN  g \in Rows(T, types) /\ g < i /\ T[g][key] = T[i][key] /\ T[g].rfw \in {None, T[i].rfw}
  <2>1. Opened(T, i, types, key) # {} /\ Opened(T, i, types, key) \subseteq 1 .. Len(T)
    BY <1>0, <1>2 DEF Disagrees, Opened, Earlier
  <2>2. Greatest(Opened(T, i, types, key)) \in Opened(T, i, types, key)
    BY <2>1, LastRow
  <2> QED BY <1>2, <2>2 DEF Disagrees, Opened, Earlier
<1>3. ASSUME NEW i \in Rows(T, BidTypes \cup {"AWARD_ISSUE"} \cup AwardAnswers)
      PROVE  T[i].rfw # None /\ \E p \in Rows(T, {"RFW_POST"}) : p < i /\ T[p].rfw = T[i].rfw
  <2>1. i \in Rows(T, BidTypes) \/ i \in Rows(T, {"AWARD_ISSUE"} \cup AwardAnswers)
    BY DEF Rows
  <2>2. Opened(T, i, {"RFW_POST"}, "rfw") # {}
    BY <1>1, <2>1 DEF MP_BID, MP_AWARD, Unposted
  <2>3. PICK p \in Earlier(Rows(T, {"RFW_POST"}), i) : T[p].rfw = T[i].rfw /\ T[i].rfw # None
    BY <2>2 DEF Opened
  <2> QED BY <2>3 DEF Earlier
<1>4. ASSUME NEW i \in Rows(T, AwardAnswers)
      PROVE  \E a, b, p \in 1 .. i - 1 :
               /\ p < b /\ b < a
               /\ T[p].type = "RFW_POST" /\ T[b].type \in BidTypes /\ T[a].type = "AWARD_ISSUE"
               /\ T[a].award = T[i].award /\ T[b].bid = T[a].bid
               /\ {T[p].rfw, T[b].rfw, T[a].rfw} = {T[i].rfw}
  <2>1. ~Disagrees(T, i, {"AWARD_ISSUE"}, "award")
    BY <1>1 DEF MP_AWARD
  <2>2. PICK a : a \in Rows(T, {"AWARD_ISSUE"}) /\ a < i /\ T[a]["award"] = T[i]["award"] /\ T[a].rfw \in {None, T[i].rfw}
    BY <1>2, <2>1
  <2>3. ~Disagrees(T, a, BidTypes, "bid")
    BY <1>1, <2>2 DEF MP_AWARD
  <2>4. PICK b : b \in Rows(T, BidTypes) /\ b < a /\ T[b]["bid"] = T[a]["bid"] /\ T[b].rfw \in {None, T[a].rfw}
    BY <1>2, <2>3
  <2>5. /\ a \in Rows(T, BidTypes \cup {"AWARD_ISSUE"} \cup AwardAnswers)
        /\ b \in Rows(T, BidTypes \cup {"AWARD_ISSUE"} \cup AwardAnswers)
    BY <2>2, <2>4 DEF Rows
  <2>6. T[a].rfw = T[i].rfw /\ T[b].rfw = T[i].rfw
    BY <1>3, <2>2, <2>4, <2>5
  <2>7. PICK p \in Rows(T, {"RFW_POST"}) : p < b /\ T[p].rfw = T[i].rfw
    BY <1>3, <2>5, <2>6
  <2>8. /\ i \in 1 .. Len(T) /\ a \in 1 .. Len(T) /\ b \in 1 .. Len(T) /\ p \in 1 .. Len(T)
    BY <1>0, <2>2, <2>4
  <2>9. a \in 1 .. i - 1 /\ b \in 1 .. i - 1 /\ p \in 1 .. i - 1
    BY <1>0, <2>2, <2>4, <2>7, <2>8
  <2>10. T[p].type = "RFW_POST" /\ T[b].type \in BidTypes /\ T[a].type = "AWARD_ISSUE"
    BY <2>2, <2>4 DEF Rows
  <2> QED BY <2>2, <2>4, <2>6, <2>7, <2>9, <2>10
<1>5. ASSUME MPConfig(T).routing, NEW i \in Rows(T, {"AWARD_ISSUE"})
      PROVE  \E a, j \in DOMAIN T :
               /\ a < j /\ T[a].type = "AWARD_ISSUE" /\ T[j].type = "ROUTING_DECISION_ATTEST"
               /\ T[a].award = T[i].award /\ T[j].award = T[i].award
  <2>1. T[i].award # None
    BY <1>1 DEF MP_AWARD
  <2>2. PICK j \in Rows(T, {"ROUTING_DECISION_ATTEST"}) : T[j].award = T[i].award
    BY <1>1, <1>5, <2>1 DEF MP_ROUTING_ATTEST
  <2>3. Opened(T, j, {"AWARD_ISSUE"}, "award") # {}
    BY <1>1 DEF MP_ROUTING_ATTEST
  <2>4. PICK a \in Rows(T, {"AWARD_ISSUE"}) : a < j /\ T[a].award = T[j].award
    BY <2>3 DEF Opened, Earlier
  <2> QED BY <2>2, <2>4 DEF Rows
<1> QED BY <1>4, <1>5 DEF MPLegal

-----------------------------------------------------------------------------
(* Lineage: what is derived has an origin, over any number of steps.         *)

(* with: what TLC enumerates up to a few rows is proved here for all.        *)
\* What is asked of the hash function: it always gives a value, and messages
\* with different ids get different ones.
HashesTell(T) ==
  /\ \A i \in DOMAIN T : T[i].computed # None
  /\ \A i, j \in DOMAIN T : T[i].computed = T[j].computed => T[i].id = T[j].id

\* And the first message does not name itself or a message after it.
Unforgeable(T) ==
  /\ HashesTell(T)
  /\ \A i \in DOMAIN T : T[1].prev # T[i].computed

(* In a transcript that passes no two rows have the same hash, and each row  *)
(* names the hash of the row before.                                         *)
LEMMA Chained ==
  ASSUME NEW M, NEW T \in Seq(M), HashesTell(T), CTPasses(T)
  PROVE  /\ \A i \in 1 .. Len(T) : T[i].hash = T[i].computed /\ T[i].hash # None
         /\ \A i, j \in 1 .. Len(T) : i # j => T[i].hash # T[j].hash
         /\ \A i \in 2 .. Len(T) : T[i].prev = T[i - 1].hash
<1>0. DOMAIN T = 1 .. Len(T) /\ Len(T) \in Nat
  OBVIOUS
<1>1. /\ CT_DUPLICATE(T) = {} /\ CT_PREV_REQUIRED(T) = {}
      /\ CT_CHAIN(T) = {} /\ CT_MESSAGE_HASH(T) = {}
  BY DEF CTPasses
<1>2. \A i \in 1 .. Len(T) : T[i].hash = T[i].computed /\ T[i].hash # None
  BY <1>0, <1>1 DEF CT_MESSAGE_HASH, HashesTell
<1>3. \A i, j \in 1 .. Len(T) : j < i => T[j].id # T[i].id
  BY <1>0, <1>1 DEF CT_DUPLICATE
<1>4. \A i, j \in 1 .. Len(T) : i # j => T[i].id # T[j].id
  <2> TAKE i, j \in 1 .. Len(T)
  <2>1. CASE i < j
    BY <1>3, <2>1
  <2>2. CASE j < i
    BY <1>3, <2>2
  <2> QED BY <1>0, <2>1, <2>2
<1>5. \A i, j \in 1 .. Len(T) : i # j => T[i].hash # T[j].hash
  BY <1>0, <1>2, <1>4 DEF HashesTell
<1>6. \A i \in 2 .. Len(T) : T[i].prev = T[i - 1].hash
  <2> TAKE i \in 2 .. Len(T)
  <2>1. i \in DOMAIN T \ {1} /\ i - 1 \in 1 .. Len(T)
    BY <1>0
  <2>2. T[i].prev # None
    BY <1>1, <2>1 DEF CT_PREV_REQUIRED
  <2> QED BY <1>1, <1>2, <2>1, <2>2 DEF CT_CHAIN
<1> QED BY <1>2, <1>5, <1>6

(* A row whose predecessor it does not name breaks the chain.                *)
LEMMA Broken ==
  ASSUME NEW M, NEW U \in Seq(M), NEW k \in 2 .. Len(U),
         U[k - 1].hash # None, U[k].prev # U[k - 1].hash
  PROVE  ~CTPasses(U)
<1>1. k \in DOMAIN U \ {1}
  OBVIOUS
<1>2. k \in CT_PREV_REQUIRED(U) \cup CT_CHAIN(U)
  BY <1>1 DEF CT_PREV_REQUIRED, CT_CHAIN
<1> QED BY <1>2 DEF CTPasses

(* Nobody can leave out an inner row of a transcript, change two neighbours, *)
(* or say a message again, without a core check that reports it.             *)
THEOREM Tampering ==
  ASSUME NEW M, NEW T \in Seq(M), Unforgeable(T), CTPasses(T)
  PROVE  CTLegal(T)
<1>0. DOMAIN T = 1 .. Len(T) /\ Len(T) \in Nat
  OBVIOUS
<1> USE DEF Unforgeable
<1>1. ASSUME NEW i \in 2 .. Len(T) - 1
      PROVE  ~CTPasses(Without(T, i))
  <2> DEFINE U == Without(T, i)
  <2>1. U \in Seq(M) /\ Len(U) = Len(T) - 1 /\ U[i - 1] = T[i - 1] /\ U[i] = T[i + 1]
    <3> DEFINE P == SubSeq(T, 1, i - 1)
               S == SubSeq(T, i + 1, Len(T))
    <3>1. P \in Seq(M) /\ Len(P) = i - 1 /\ P[i - 1] = T[i - 1]
      BY <1>0
    <3>2. S \in Seq(M) /\ Len(S) = Len(T) - i /\ S[1] = T[i + 1]
      BY <1>0
    <3>3. U = P \o S
      BY DEF Without
    <3> HIDE DEF P, S, U
    <3>4. U \in Seq(M) /\ Len(U) = Len(T) - 1
      <4>1. U \in Seq(M) /\ Len(U) = Len(P) + Len(S)
        BY <3>1, <3>2, <3>3, ConcatProperties
      <4> QED BY <1>0, <3>1, <3>2, <4>1
    <3>5. U[i - 1] = T[i - 1]
      BY <1>0, <3>1, <3>2, <3>3
    <3>6. U[i] = T[i + 1]
      <4>1. U[Len(P) + 1] = S[1]
        BY <1>0, <3>1, <3>2, <3>3
      <4> QED BY <1>0, <3>1, <3>2, <4>1
    <3> QED BY <3>4, <3>5, <3>6
  <2> HIDE DEF U
  <2>2. T[i + 1].prev = T[i].hash /\ T[i].hash # T[i - 1].hash /\ T[i - 1].hash # None
    <3>1. i + 1 \in 2 .. Len(T) /\ i \in 1 .. Len(T) /\ i - 1 \in 1 .. Len(T) /\ i # i - 1
      BY <1>0
    <3>2. T[i + 1].prev = T[(i + 1) - 1].hash
      BY <3>1, Chained
    <3> QED BY <1>0, <3>1, <3>2, Chained
  <2>3. i \in 2 .. Len(U)
    BY <1>0, <2>1
  <2> QED BY <2>1, <2>2, <2>3, Broken DEF U
<1>2. ASSUME NEW i \in 1 .. Len(T) - 1
      PROVE  ~CTPasses(Swapped(T, i))
  <2> DEFINE U == Swapped(T, i)
  <2>0. i \in 1 .. Len(T) /\ i + 1 \in 2 .. Len(T) /\ i + 1 \in 1 .. Len(T)
    BY <1>0
  <2>1. U \in Seq(M) /\ Len(U) = Len(T) /\ U[i] = T[i + 1] /\ U[i + 1] = T[i]
    BY <1>0, <2>0 DEF Swapped
  <2>2. T[i + 1].hash # None /\ T[i].prev # T[i + 1].hash
    <3>1. T[i + 1].hash = T[i + 1].computed /\ T[i + 1].hash # None
      BY <2>0, Chained
    <3>2. CASE i = 1
      BY <1>0, <2>0, <3>1, <3>2 DEF Unforgeable
    <3>3. CASE i # 1
      <4>1. i \in 2 .. Len(T) /\ i - 1 \in 1 .. Len(T) /\ i - 1 # i + 1
        BY <1>0, <2>0, <3>3
      <4>2. T[i].prev = T[i - 1].hash
        BY <4>1, Chained
      <4> QED BY <2>0, <3>1, <4>1, <4>2, Chained
    <3> QED BY <3>2, <3>3
  <2>3. i + 1 \in 2 .. Len(U) /\ (i + 1) - 1 = i
    BY <2>0, <2>1
  <2> QED BY <2>1, <2>2, <2>3, Broken
<1>3. ASSUME NEW i \in DOMAIN T
      PROVE  ~CTPasses(Append(T, T[i]))
  <2> DEFINE U == Append(T, T[i])
  <2>1. /\ U \in Seq(M) /\ DOMAIN U = 1 .. Len(T) + 1
        /\ U[Len(T) + 1] = T[i] /\ U[i] = T[i]
    BY <1>0
  <2>2. Len(T) + 1 \in CT_DUPLICATE(U)
    BY <1>0, <2>1 DEF CT_DUPLICATE
  <2> QED BY <2>2 DEF CTPasses
<1> QED BY <1>1, <1>2, <1>3 DEF CTLegal

\* Hashes are made over hashes that were made before.
HashesGrow(T) ==
  \A i \in DOMAIN T :
     /\ Depth(T[i].computed) \in Nat
     /\ T[i].prev # None => Depth(T[i].prev) \in Nat /\ Depth(T[i].prev) < Depth(T[i].computed)

(* What is assumed of the messages of the core suite is what the chain       *)
(* needs.                                                                    *)
LEMMA CTHashed ==
  ASSUME NEW T, HashedRows("CT", T)
  PROVE  HashesTell(T) /\ HashesGrow(T)
BY DEF HashedRows, HashStandsFor, HashesTell, HashesGrow

(* In a chain that passes the first message cannot name itself or what came  *)
(* after it: hashes are made over older hashes. So the core checks show that *)
(* a row was left out, moved or said again.                                  *)
LEMMA CTPromise ==
  ASSUME NEW M, NEW T \in Seq(M), HashesTell(T), HashesGrow(T), CTPasses(T)
  PROVE  CTLegal(T)
<1>0. Len(T) \in Nat /\ DOMAIN T = 1 .. Len(T)
  OBVIOUS
<1> DEFINE Bad == {i \in 1 .. Len(T) : ~(Depth(T[1].computed) <= Depth(T[i].computed))}
<1>1. Bad = {}
  <2> SUFFICES ASSUME Bad # {} PROVE FALSE
    OBVIOUS
  <2>1. PICK i \in Bad : \A x \in Bad : i <= x
    <3>1. Bad \subseteq 1 .. Len(T) /\ 1 .. Len(T) \subseteq Nat
      BY <1>0
    <3> HIDE DEF Bad
    <3> QED BY <3>1, Minimum
  <2>2. i \in 1 .. Len(T) /\ ~(Depth(T[1].computed) <= Depth(T[i].computed))
    BY <2>1
  <2>3. i \in 2 .. Len(T) /\ i - 1 \in 1 .. Len(T) /\ 1 \in 1 .. Len(T) /\ ~(i <= i - 1)
    <3>1. Depth(T[i].computed) \in Nat
      BY <1>0, <2>2 DEF HashesGrow
    <3>2. i # 1
      BY <2>2, <3>1
    <3> QED BY <1>0, <2>2, <3>2
  <2>4. T[i].prev = T[i - 1].computed /\ T[i].prev # None
    <3>1. T[i - 1].hash = T[i - 1].computed /\ T[i - 1].hash # None
      BY <2>3, Chained
    <3>2. T[i].prev = T[i - 1].hash
      BY <2>3, Chained
    <3> QED BY <3>1, <3>2
  <2>5. i - 1 \notin Bad
    <3> HIDE DEF Bad
    <3> QED BY <2>1, <2>3
  <2>6. Depth(T[1].computed) <= Depth(T[i - 1].computed)
    BY <2>3, <2>5
  <2>7. Depth(T[i - 1].computed) < Depth(T[i].computed)
    BY <1>0, <2>2, <2>4 DEF HashesGrow
  <2>8. /\ Depth(T[1].computed) \in Nat /\ Depth(T[i - 1].computed) \in Nat
        /\ Depth(T[i].computed) \in Nat
    BY <1>0, <2>3 DEF HashesGrow
  <2> QED BY <2>2, <2>6, <2>7, <2>8
<1>2. ASSUME NEW i \in DOMAIN T
      PROVE  T[1].prev # T[i].computed
  <2>1. CASE T[1].prev = None
    BY <2>1 DEF HashesTell
  <2>2. CASE T[1].prev # None
    <3>1. 1 \in DOMAIN T
      BY <1>0
    <3>2. /\ Depth(T[1].prev) \in Nat /\ Depth(T[1].prev) < Depth(T[1].computed)
          /\ Depth(T[1].computed) \in Nat /\ Depth(T[i].computed) \in Nat
      BY <2>2, <3>1 DEF HashesGrow
    <3>3. Depth(T[1].computed) <= Depth(T[i].computed)
      BY <1>0, <1>1
    <3> QED BY <3>2, <3>3
  <2> QED BY <2>1, <2>2
<1> QED BY <1>2, Tampering DEF Unforgeable

(* No workflow steps back, and its versions grow between two declarations,   *)
(* however many rows lie between.                                            *)
LEMMA WFPromise ==
  ASSUME NEW M, NEW T \in Seq(M), ParsedRows("WF", T), WFPasses(T)
  PROVE  WFLegal(T)
<1>0. /\ Len(T) \in Nat /\ DOMAIN T = 1 .. Len(T)
      /\ \A types : Rows(T, types) \subseteq 1 .. Len(T)
  BY RowsFinite
<1>1. WORK_UPD(T) = {} /\ WORK_MONO(T) = {}
  BY DEF WFPasses
<1>2. /\ \A i \in Rows(T, {"WORKFLOW_STEP_ATTEST"}) : T[i].step \in Number
      /\ \A i \in Rows(T, {"WORKFLOW_DECLARE", "WORKFLOW_UPDATE"}) : T[i].version \in Number
  BY DEF ParsedRows, Parsed, Rows
<1>3. ASSUME NEW a \in Rows(T, {"WORKFLOW_STEP_ATTEST"}), NEW b \in Rows(T, {"WORKFLOW_STEP_ATTEST"}),
             a < b, T[a].workflow = T[b].workflow, T[a].step # None, T[b].step # None
      PROVE  T[a].step <= T[b].step
  <2> DEFINE S == {i \in Rows(T, {"WORKFLOW_STEP_ATTEST"}) : T[i].step # None}
             k == [i \in S |-> T[i].workflow]
             v == [i \in S |-> T[i].step]
  <2>1. S \subseteq 1 .. Len(T) /\ \A i \in S : v[i] \in Int
    BY <1>0, <1>2 DEF Number
  <2>2. ASSUME NEW i \in S, {j \in S : j < i /\ k[j] = k[i]} # {}
        PROVE  v[Greatest({j \in S : j < i /\ k[j] = k[i]})] <= v[i]
    <3> DEFINE B == Earlier(Steps(T, T[i].workflow), i)
    <3>1. {j \in S : j < i /\ k[j] = k[i]} = B
      BY DEF Steps, Earlier
    <3>2. B \subseteq S /\ B \subseteq 1 .. Len(T) /\ B # {}
      BY <2>1, <2>2, <3>1
    <3>3. Greatest(B) \in S
      <4> HIDE DEF B, S
      <4> QED BY <3>2, LastRow
    <3>4. ~(T[i].step < T[Greatest(B)].step)
      BY <1>1, <3>2 DEF WORK_MONO
    <3>5. T[i].step \in Int /\ T[Greatest(B)].step \in Int
      BY <2>1, <3>3
    <3>6. v[Greatest(B)] = T[Greatest(B)].step /\ v[i] = T[i].step
      <4> HIDE DEF B
      <4> QED BY <3>3
    <3>7. v[Greatest(B)] <= v[i]
      BY <3>4, <3>5, <3>6
    <3> HIDE DEF k, v, B, S
    <3> QED BY <3>1, <3>7
  <2>3. Rising(S, k, v)
    BY <2>2 DEF Rising
  <2>4. a \in S /\ b \in S /\ k[a] = k[b]
    BY <1>3
  <2>5. v[a] <= v[b]
    <3> HIDE DEF S, k, v
    <3> QED BY <1>0, <1>3, <2>1, <2>3, <2>4, AllRising
  <2> QED BY <2>4, <2>5
<1>4. ASSUME NEW j \in Rows(T, {"WORKFLOW_UPDATE", "WORKFLOW_DECLARE"})
      PROVE  \A i \in Rows(T, {"WORKFLOW_UPDATE"}) :
               /\ j < i /\ T[i].workflow = T[j].workflow
               /\ ~\E d \in Rows(T, {"WORKFLOW_DECLARE"}) : j < d /\ d < i /\ T[d].workflow = T[i].workflow
               => T[j].version \in Int /\ T[j].version < T[i].version
  <2> DEFINE Bad == {i \in Rows(T, {"WORKFLOW_UPDATE"}) :
                       /\ j < i /\ T[i].workflow = T[j].workflow
                       /\ ~\E d \in Rows(T, {"WORKFLOW_DECLARE"}) : j < d /\ d < i /\ T[d].workflow = T[i].workflow
                       /\ ~(T[j].version \in Int /\ T[j].version < T[i].version)}
  <2> SUFFICES ASSUME Bad # {} PROVE FALSE
    OBVIOUS
  <2>1. PICK i \in Bad : \A x \in Bad : i <= x
    <3>1. Bad \subseteq 1 .. Len(T)
      BY <1>0
    <3>2. 1 .. Len(T) \subseteq Nat
      OBVIOUS
    <3> HIDE DEF Bad
    <3> QED BY <3>1, <3>2, Minimum
  <2>2. /\ i \in Rows(T, {"WORKFLOW_UPDATE"}) /\ j < i /\ T[i].workflow = T[j].workflow
        /\ ~\E d \in Rows(T, {"WORKFLOW_DECLARE"}) : j < d /\ d < i /\ T[d].workflow = T[i].workflow
        /\ ~(T[j].version \in Int /\ T[j].version < T[i].version)
    BY <2>1
  <2> DEFINE B == HeadsBefore(T, i)
             g == Greatest(B)
  <2>3. B # {} /\ Advances(T[g], T[i])
    BY <1>1, <2>2 DEF WORK_UPD
  <2>4. T[i].workflow # None
    BY <2>3 DEF HeadsBefore, Heads, Earlier
  <2>5. j \in B /\ B \subseteq 1 .. Len(T)
    BY <1>0, <2>2, <2>4 DEF HeadsBefore, Heads, Earlier, Rows
  <2>6. g \in B /\ j <= g
    <3> HIDE DEF B
    <3> QED BY <2>5, LastRow
  <2> HIDE DEF g
  <2>7. /\ g \in Rows(T, {"WORKFLOW_DECLARE", "WORKFLOW_UPDATE"}) /\ g < i
        /\ T[g].workflow = T[i].workflow
    BY <2>6 DEF HeadsBefore, Heads, Earlier
  <2>8. T[g].version \in Int /\ T[i].version \in Int /\ T[g].version < T[i].version
    BY <1>2, <2>2, <2>3, <2>7 DEF Advances, Number, Rows
  <2>9. j < g /\ g \in Rows(T, {"WORKFLOW_UPDATE"})
    <3>1. j # g
      BY <2>2, <2>8
    <3>2. j \in 1 .. Len(T) /\ g \in 1 .. Len(T)
      BY <1>0, <2>7
    <3>3. j < g
      BY <1>0, <2>6, <3>1, <3>2
    <3>4. g \notin Rows(T, {"WORKFLOW_DECLARE"})
      BY <2>2, <2>7, <3>3
    <3> QED BY <2>7, <3>3, <3>4 DEF Rows
  <2>10. ~\E d \in Rows(T, {"WORKFLOW_DECLARE"}) : j < d /\ d < g /\ T[d].workflow = T[g].workflow
    <3>1. \A d \in Rows(T, {"WORKFLOW_DECLARE"}) : d < g => d < i
      BY <1>0, <2>2, <2>7, <2>9
    <3> QED BY <2>2, <2>7, <3>1
  <2>11. g \notin Bad
    <3>1. ~(i <= g)
      BY <1>0, <2>2, <2>7
    <3> QED BY <2>1, <3>1
  <2>12. T[j].version \in Int /\ T[j].version < T[g].version
    BY <2>2, <2>7, <2>9, <2>10, <2>11
  <2> QED BY <2>2, <2>8, <2>12
<1> QED BY <1>3, <1>4 DEF WFLegal

(* In a graph of provenance a node stands once, all its parents are nodes of *)
(* the graph, and no node is its own ancestor.                               *)
LEMMA PRPromise ==
  ASSUME NEW M, NEW T \in Seq(M), ParsedRows("PR", T), PRPasses(T)
  PROVE  PRLegal(T)
<1>0. /\ Len(T) \in Nat /\ DOMAIN T = 1 .. Len(T)
      /\ \A types : Rows(T, types) \subseteq 1 .. Len(T)
  BY RowsFinite
<1>1. PR_NODE(T) = {} /\ PR_LINK(T) = {} /\ PR_APPEND(T) = {}
  BY DEF PRPasses
<1> DEFINE P == Places(T)
<1>2. ASSUME NEW p \in P
      PROVE  /\ p[1] \in Rows(T, GraphTypes) /\ p[1] \in Nat /\ p[2] \in Nat
             /\ p = <<p[1], p[2]>>
  <2>1. PICK i \in Rows(T, GraphTypes) : p \in {i} \X DOMAIN T[i].nodes
    BY DEF Places
  <2>2. p = <<p[1], p[2]>> /\ p[1] = i /\ p[2] \in DOMAIN T[i].nodes
    BY <2>1
  <2>3. Parsed("PR", T[i]) /\ T[i].type \in GraphTypes /\ i \in Nat
    BY <1>0 DEF ParsedRows, Rows
  <2>4. DOMAIN T[i].nodes \subseteq Nat
    BY <2>3 DEF Parsed
  <2> QED BY <2>1, <2>2, <2>3, <2>4
(* What stands before a place in its graph is known there.                   *)
<1>3. ASSUME NEW p \in P, NEW q \in P, Before(p, q), T[p[1]].graph = T[q[1]].graph, T[p[1]].graph # None
      PROVE  NodeAt(T, p).node \in KnownNodes(T, q)
  <2>1. Kept(T, p[1])
    <3>1. CASE T[p[1]].type = "PROVENANCE_DECLARE"
      BY <1>3, <3>1 DEF Kept
    <3>2. CASE T[p[1]].type = "PROVENANCE_APPEND"
      <4>1. p[1] \in Rows(T, {"PROVENANCE_APPEND"})
        BY <1>2, <3>2 DEF Rows
      <4> QED BY <1>1, <1>3, <4>1 DEF Kept, PR_APPEND
    <3> QED BY <1>2, <3>1, <3>2 DEF Rows, GraphTypes
  <2>2. SameGraph(T, p, q)
    BY <1>3, <2>1 DEF SameGraph
  <2>3. NodeAt(T, p).node # None
    BY <1>1 DEF PR_NODE
  <2> QED BY <1>3, <2>2, <2>3 DEF KnownNodes
<1>4. ASSUME NEW p \in P, NEW q \in P, Before(p, q), T[p[1]].graph = T[q[1]].graph, T[p[1]].graph # None
      PROVE  NodeAt(T, p).node # NodeAt(T, q).node
  <2>1. NodeAt(T, p).node \in KnownNodes(T, q)
    BY <1>3, <1>4
  <2>2. NodeAt(T, q).node \notin KnownNodes(T, q)
    BY <1>1, <1>4 DEF PR_APPEND
  <2> QED BY <2>1, <2>2
<1> SUFFICES ASSUME NEW g, g # None
             PROVE  /\ \A p, q \in PlacesOf(T, g) : NodeAt(T, p).node = NodeAt(T, q).node => p = q
                    /\ \A p \in PlacesOf(T, g) :
                          NodeAt(T, p).parents \subseteq {NodeAt(T, q).node : q \in PlacesOf(T, g)}
                    /\ \A S \in (SUBSET PlacesOf(T, g)) \ {{}} : \E p \in S :
                          \A q \in S : NodeAt(T, q).node \notin NodeAt(T, p).parents
  BY DEF PRLegal
<1>5. ASSUME NEW p \in PlacesOf(T, g), NEW q \in PlacesOf(T, g), NodeAt(T, p).node = NodeAt(T, q).node
      PROVE  p = q
  <2>1. p \in P /\ q \in P /\ T[p[1]].graph = g /\ T[q[1]].graph = g
    BY DEF PlacesOf
  <2>2. ~Before(p, q) /\ ~Before(q, p)
    BY <1>4, <1>5, <2>1
  <2>3. p[1] = q[1] /\ p[2] = q[2]
    BY <1>2, <2>1, <2>2 DEF Before
  <2> QED BY <1>2, <2>1, <2>3
(* A parent of a node stands before it in its graph.                         *)
<1>6. ASSUME NEW p \in PlacesOf(T, g), NEW n \in NodeAt(T, p).parents
      PROVE  \E q \in PlacesOf(T, g) : Before(q, p) /\ NodeAt(T, q).node = n
  <2>1. p \in P /\ T[p[1]].graph = g
    BY DEF PlacesOf
  <2>2. n \in KnownNodes(T, p)
    BY <1>1, <2>1 DEF PR_LINK
  <2>3. PICK q \in P : Before(q, p) /\ SameGraph(T, q, p) /\ NodeAt(T, q).node = n
    BY <2>2 DEF KnownNodes
  <2>4. T[q[1]].graph = g
    BY <2>1, <2>3 DEF SameGraph
  <2> QED BY <2>3, <2>4 DEF PlacesOf
<1>7. ASSUME NEW S \in (SUBSET PlacesOf(T, g)) \ {{}}
      PROVE  \E p \in S : \A q \in S : ~Before(q, p)
  <2>0. \A p \in S : p[1] \in Nat /\ p[2] \in Nat
    BY <1>2 DEF PlacesOf
  <2> DEFINE A == {p[1] : p \in S}
  <2>1. PICK a \in A : \A x \in A : a <= x
    <3>1. A \subseteq Nat /\ A # {}
      BY <2>0
    <3> HIDE DEF A
    <3> QED BY <3>1, Minimum
  <2> DEFINE B == {p[2] : p \in {q \in S : q[1] = a}}
  <2>2. PICK b \in B : \A x \in B : b <= x
    <3>1. B \subseteq Nat /\ B # {}
      BY <2>0, <2>1
    <3> HIDE DEF B
    <3> QED BY <3>1, Minimum
  <2>3. PICK p \in S : p[1] = a /\ p[2] = b
    BY <2>2
  <2>4. ASSUME NEW q \in S, Before(q, p)
        PROVE  FALSE
    <3>1. a <= q[1] /\ (q[1] = a => b <= q[2])
      BY <2>1, <2>2
    <3>2. q[1] \in Nat /\ q[2] \in Nat /\ a \in Nat /\ b \in Nat
      BY <2>0, <2>3
    <3> QED BY <2>3, <2>4, <3>1, <3>2 DEF Before
  <2> QED BY <2>3, <2>4
<1>8. ASSUME NEW S \in (SUBSET PlacesOf(T, g)) \ {{}}
      PROVE  \E p \in S : \A q \in S : NodeAt(T, q).node \notin NodeAt(T, p).parents
  <2>1. PICK p \in S : \A q \in S : ~Before(q, p)
    BY <1>7
  <2>2. ASSUME NEW q \in S, NodeAt(T, q).node \in NodeAt(T, p).parents
        PROVE  FALSE
    <3>1. PICK r \in PlacesOf(T, g) : Before(r, p) /\ NodeAt(T, r).node = NodeAt(T, q).node
      BY <1>6, <2>2
    <3>2. r = q
      BY <1>5, <3>1
    <3> QED BY <2>1, <3>1, <3>2
  <2> QED BY <2>1, <2>2
<1>9. \A p \in PlacesOf(T, g) : NodeAt(T, p).parents \subseteq {NodeAt(T, q).node : q \in PlacesOf(T, g)}
  BY <1>6
<1> QED BY <1>5, <1>8, <1>9

\* What stands above a grant, from what stands above the grants before it.
AboveFrom(T, f, i) ==
  IF i \in Derived(T) /\ ~Orphan(T, i)
  THEN LET p == GrantOf(T, T[i].parent)
       IN {<<p, 1>>} \cup {<<a[1], a[2] + 1>> : a \in f[p]}
  ELSE {}

(* The first grant under the id that a derived grant names.                  *)
LEMMA Parent ==
  ASSUME NEW M, NEW T \in Seq(M), NEW i \in Derived(T), ~Orphan(T, i)
  PROVE  LET p == GrantOf(T, T[i].parent)
         IN p \in FirstGrants(T) /\ p \in 1 .. Len(T) /\ i \in 1 .. Len(T) /\ p < i
<1>0. /\ Len(T) \in Nat /\ DOMAIN T = 1 .. Len(T)
      /\ \A types : Rows(T, types) \subseteq 1 .. Len(T)
  BY RowsFinite
<1> DEFINE G == GrantsOf(T, T[i].parent)
           p == GrantOf(T, T[i].parent)
<1>1. G # {} /\ G \subseteq 1 .. Len(T) /\ ~(p >= i)
  BY <1>0 DEF Orphan, GrantsOf
<1>2. p \in G /\ \A j \in G : p <= j
  BY <1>1, LastRow DEF GrantOf
<1>3. i \in 1 .. Len(T) /\ p \in 1 .. Len(T)
  BY <1>0, <1>1, <1>2 DEF Derived, FirstGrants
<1>4. T[p].delegation = T[i].parent /\ T[i].parent # None /\ p \in Rows(T, {"DELEGATION_GRANT"})
  BY <1>2 DEF GrantsOf
<1>5. Earlier(GrantsOf(T, T[p].delegation), p) = {}
  <2> HIDE DEF p
  <2>1. \A j \in G : ~(j < p)
    BY <1>1, <1>2, <1>3
  <2> QED BY <1>4, <2>1 DEF Earlier
<1>6. p \in FirstGrants(T)
  BY <1>4, <1>5 DEF FirstGrants
<1>7. p < i
  <2> HIDE DEF p
  <2> QED BY <1>1, <1>3
<1> QED BY <1>3, <1>6, <1>7

(* The recursion is well founded: a grant has its parent before it. For any  *)
(* number of rows there is a function as its equation asks.                  *)
LEMMA AboveExists ==
  ASSUME NEW M, NEW T \in Seq(M), NEW n \in 0 .. Len(T)
  PROVE  \E f : f = [i \in 1 .. n |-> AboveFrom(T, f, i)]
<1>0. Len(T) \in Nat
  OBVIOUS
<1> DEFINE Has(k) == \E f : f = [i \in 1 .. k |-> AboveFrom(T, f, i)]
           Bad == {k \in 0 .. Len(T) : ~Has(k)}
<1> SUFFICES ASSUME Bad # {} PROVE FALSE
  BY Zenon
<1>1. PICK k \in Bad : \A x \in Bad : k <= x
  <2>1. Bad \subseteq Nat
    BY <1>0
  <2> HIDE DEF Bad
  <2> QED BY <2>1, Minimum
<1>2. ~Has(k) /\ k \in 0 .. Len(T)
  BY <1>1
<1>3. Has(0)
  <2>1. [i \in {} |-> AboveFrom(T, <<>>, i)] = [i \in 1 .. 0 |-> AboveFrom(T, [j \in {} |-> AboveFrom(T, <<>>, j)], i)]
    <3>1. 1 .. 0 = {}
      OBVIOUS
    <3> QED BY <3>1
  <2>2. 1 .. 0 = {}
    OBVIOUS
  <2> DEFINE f == [i \in {} |-> AboveFrom(T, <<>>, i)]
  <2>3. f = [i \in 1 .. 0 |-> AboveFrom(T, f, i)]
    BY <2>1
  <2> HIDE DEF f
  <2> QED BY <2>3
<1>4. k # 0
  <2> HIDE DEF Has
  <2> QED BY <1>2, <1>3
<1>5. k - 1 \in 0 .. Len(T) /\ k - 1 \notin Bad /\ k \in 1 .. Len(T)
  <2>1. k - 1 \in 0 .. Len(T) /\ ~(k <= k - 1) /\ k \in 1 .. Len(T)
    BY <1>0, <1>2, <1>4
  <2> HIDE DEF Bad
  <2> QED BY <1>1, <2>1
<1>6. Has(k - 1)
  <2> HIDE DEF Has
  <2> QED BY <1>5
<1>7. PICK f : f = [i \in 1 .. k - 1 |-> AboveFrom(T, f, i)]
  BY <1>6
<1> DEFINE h == [i \in 1 .. k |-> IF i = k THEN AboveFrom(T, f, k) ELSE f[i]]
<1>8. ASSUME NEW i \in 1 .. k
      PROVE  h[i] = AboveFrom(T, h, i)
  <2>1. AboveFrom(T, h, i) = AboveFrom(T, f, i)
    <3>1. CASE i \in Derived(T) /\ ~Orphan(T, i)
      <4> DEFINE p == GrantOf(T, T[i].parent)
      <4>1. p \in 1 .. Len(T) /\ p < i
        BY <3>1, Parent
      <4> HIDE DEF p
      <4>2. p \in 1 .. k /\ p # k
        BY <1>5, <4>1
      <4>3. h[p] = f[p]
        BY <4>2
      <4> HIDE DEF h
      <4> QED BY <3>1, <4>3 DEF AboveFrom, p
    <3>2. CASE ~(i \in Derived(T) /\ ~Orphan(T, i))
      BY <3>2 DEF AboveFrom
    <3> QED BY <3>1, <3>2
  <2>2. CASE i = k
    BY <2>1, <2>2
  <2>3. CASE i # k
    <3>1. i \in 1 .. k - 1
      BY <1>5, <2>3
    <3>2. f[i] = AboveFrom(T, f, i)
      BY <1>7, <3>1
    <3> QED BY <2>1, <2>3, <3>2
  <2> QED BY <2>2, <2>3
<1>9. h = [i \in 1 .. k |-> AboveFrom(T, h, i)]
  <2> DEFINE g == [i \in 1 .. k |-> AboveFrom(T, h, i)]
  <2>1. DOMAIN h = 1 .. k /\ DOMAIN g = 1 .. k
    OBVIOUS
  <2>2. \A i \in 1 .. k : h[i] = g[i]
    <3> HIDE DEF h
    <3> QED BY <1>8
  <2>3. h = [i \in 1 .. k |-> h[i]]
    OBVIOUS
  <2> HIDE DEF h
  <2> QED BY <1>8, <2>3
<1> HIDE DEF h
<1> QED BY <1>2, <1>9

(* So the function that the promise of the delegations is stated with is the *)
(* one that its equation describes.                                          *)
LEMMA AboveUnfolds ==
  ASSUME NEW M, NEW T \in Seq(M)
  PROVE  Above(T) = [i \in 1 .. Len(T) |-> AboveFrom(T, Above(T), i)]
<1>1. DOMAIN T = 1 .. Len(T) /\ Len(T) \in 0 .. Len(T)
  OBVIOUS
<1>2. \E f : f = [i \in 1 .. Len(T) |-> AboveFrom(T, f, i)]
  BY <1>1, AboveExists
<1>3. Above(T) = CHOOSE f : f = [i \in 1 .. Len(T) |-> AboveFrom(T, f, i)]
  BY <1>1 DEF Above, AboveFrom
<1> QED BY <1>2, <1>3

(* Authority only shrinks along a chain of delegations of any length: a      *)
(* grant that fits the grant above it fits all that stand above that.        *)
LEMMA DLPromise ==
  ASSUME NEW M, NEW T \in Seq(M), ParsedRows("DL", T), DLPasses(T)
  PROVE  DLLegal(T)
<1>0. /\ Len(T) \in Nat /\ DOMAIN T = 1 .. Len(T)
      /\ FirstGrants(T) \subseteq 1 .. Len(T)
  BY RowsFinite DEF FirstGrants
<1>1. DL_DEPTH(T) = {} /\ DL_SCOPE(T) = {}
  BY DEF DLPasses
<1>2. \A i \in FirstGrants(T) : T[i].depth \in Int
  BY DEF FirstGrants, ParsedRows, Parsed, Rows
<1> DEFINE Fits(i, a) == /\ a[1] \in FirstGrants(T) /\ a[2] \in Nat
                         /\ T[i].scope \subseteq T[a[1]].scope
                         /\ T[i].depth + a[2] <= T[a[1]].depth
           Bad == {i \in FirstGrants(T) : \E a \in Above(T)[i] : ~Fits(i, a)}
<1>3. Bad = {}
  <2> SUFFICES ASSUME Bad # {} PROVE FALSE
    OBVIOUS
  <2>1. PICK i \in Bad : \A x \in Bad : i <= x
    <3>1. Bad \subseteq 1 .. Len(T)
      BY <1>0
    <3>2. 1 .. Len(T) \subseteq Nat
      OBVIOUS
    <3> HIDE DEF Bad
    <3> QED BY <3>1, <3>2, Minimum
  <2>2. PICK a \in Above(T)[i] : ~Fits(i, a)
    BY <2>1
  <2>3. i \in FirstGrants(T) /\ i \in 1 .. Len(T)
    BY <1>0, <2>1
  <2>4. Above(T)[i] = AboveFrom(T, Above(T), i)
    BY <2>3, AboveUnfolds
  <2>5. i \in Derived(T) /\ ~Orphan(T, i)
    BY <2>2, <2>4 DEF AboveFrom
  <2> DEFINE p == GrantOf(T, T[i].parent)
  <2>6. p \in FirstGrants(T) /\ p \in 1 .. Len(T) /\ p < i
    BY <2>5, Parent
  <2>7. ~(T[i].depth > T[p].depth - 1)
    BY <1>1, <2>5 DEF DL_DEPTH
  <2>8. T[i].scope \subseteq T[p].scope
    BY <1>1, <2>5 DEF DL_SCOPE
  <2>9. a = <<p, 1>> \/ \E b \in Above(T)[p] : a = <<b[1], b[2] + 1>>
    BY <2>2, <2>4, <2>5 DEF AboveFrom
  <2> HIDE DEF p
  <2>10. T[i].depth \in Int /\ T[p].depth \in Int
    BY <1>2, <2>3, <2>6
  <2>11. CASE a = <<p, 1>>
    <3>1. a[1] = p /\ a[2] = 1
      BY <2>11
    <3> QED BY <2>2, <2>6, <2>7, <2>8, <2>10, <3>1
  <2>12. ASSUME NEW b \in Above(T)[p], a = <<b[1], b[2] + 1>>
         PROVE  FALSE
    <3>1. a[1] = b[1] /\ a[2] = b[2] + 1
      BY <2>12
    <3>2. p \notin Bad
      <4>1. ~(i <= p)
        BY <1>0, <2>3, <2>6
      <4> QED BY <2>1, <4>1
    <3>3. Fits(p, b)
      BY <2>6, <3>2
    <3>4. T[b[1]].depth \in Int
      BY <1>2, <3>3
    <3>5. a[1] \in FirstGrants(T) /\ a[2] \in Nat /\ T[i].scope \subseteq T[a[1]].scope
      BY <2>8, <3>1, <3>3
    <3>6. T[i].depth + a[2] <= T[a[1]].depth
      <4> DEFINE x == T[i].depth  y == T[p].depth  z == T[b[1]].depth  n == b[2]
      <4>1. x \in Int /\ y \in Int /\ z \in Int /\ n \in Nat
        BY <2>10, <3>3, <3>4
      <4>2. ~(x > y - 1) /\ y + n <= z
        BY <2>7, <3>3
      <4>3. T[a[1]].depth = z /\ a[2] = n + 1
        BY <3>1
      <4> HIDE DEF x, y, z, n
      <4>4. x + (n + 1) <= z
        BY <4>1, <4>2
      <4>5. T[i].depth = x
        BY DEF x
      <4> QED BY <4>3, <4>4, <4>5
    <3> QED BY <2>2, <3>5, <3>6
  <2> QED BY <2>9, <2>11, <2>12
<1> QED BY <1>3 DEF DLLegal

(* Under strict consensus no two checkpoints of a session give two heads to  *)
(* one number, also when others lie between them; a receipt is for a         *)
(* checkpoint of this session, and a head of this transcript.                *)
LEMMA TWPromise ==
  ASSUME NEW M, NEW T \in Seq(M), TWPasses(T)
  PROVE  TWLegal(T)
<1>0. /\ Len(T) \in Nat /\ DOMAIN T = 1 .. Len(T)
      /\ Submits(T) \subseteq 1 .. Len(T) /\ Comparable(T) \subseteq 1 .. Len(T)
      /\ Comparable(T) \subseteq Submits(T)
  BY RowsFinite DEF Submits, Comparable
<1>1. TW_CHECKPOINT(T) = {} /\ TW_EQUIVOCATION(T) = {} /\ TW_RECEIPT(T) = {}
  BY DEF TWPasses
<1>2. \A i \in Submits(T) : T[i].checkpoint # None /\ T[i].of = T[i].session /\ T[i].head \in Hashes(T)
  BY <1>1 DEF TW_CHECKPOINT
<1>3. ASSUME TWConfig(T).strict, NEW a \in Comparable(T), NEW b \in Comparable(T),
             T[a].number = T[b].number, T[a].session = T[b].session
      PROVE  T[a].head = T[b].head
  <2> DEFINE k == [i \in Comparable(T) |-> <<T[i].of, T[i].number>>]
             v == [i \in Comparable(T) |-> T[i].head]
  <2>1. ASSUME NEW i \in Comparable(T), {j \in Comparable(T) : j < i /\ k[j] = k[i]} # {}
        PROVE  v[Greatest({j \in Comparable(T) : j < i /\ k[j] = k[i]})] = v[i]
    <3>1. {j \in Comparable(T) : j < i /\ k[j] = k[i]} = SamePlace(T, i)
      BY DEF SamePlace, Earlier
    <3>2. SamePlace(T, i) \subseteq Comparable(T) /\ SamePlace(T, i) \subseteq 1 .. Len(T) /\ SamePlace(T, i) # {}
      BY <1>0, <2>1, <3>1
    <3>3. Greatest(SamePlace(T, i)) \in Comparable(T)
      BY <3>2, LastRow
    <3>4. T[Greatest(SamePlace(T, i))].head = T[i].head
      BY <1>1, <1>3, <3>2 DEF TW_EQUIVOCATION
    <3> QED BY <3>1, <3>3, <3>4
  <2>2. Alike(Comparable(T), k, v)
    BY <2>1 DEF Alike
  <2>3. k[a] = k[b]
    BY <1>0, <1>2, <1>3
  <2>4. v[a] = v[b]
    <3> HIDE DEF k, v
    <3> QED BY <1>0, <2>2, <2>3, AllAlike
  <2> QED BY <2>4
<1>4. ASSUME NEW i \in Rows(T, {"WITNESS_RECEIPT"})
      PROVE  \E j \in Earlier(Submits(T), i) :
               /\ T[j].hash = T[i].submit /\ T[j].checkpoint = T[i].checkpoint
               /\ T[j].of = T[j].session /\ \E k \in DOMAIN T : T[k].hash = T[j].head
  <2>1. Submitting(T, i) # {} /\ T[Greatest(Submitting(T, i))].checkpoint \in {None, T[i].checkpoint}
    BY <1>1 DEF TW_RECEIPT
  <2>2. Submitting(T, i) \subseteq 1 .. Len(T)
    BY <1>0 DEF Submitting, Earlier
  <2> DEFINE j == Greatest(Submitting(T, i))
  <2>3. j \in Earlier(Submits(T), i) /\ T[j].hash = T[i].submit /\ j \in Submits(T)
    <3>1. j \in Submitting(T, i)
      BY <2>1, <2>2, LastRow
    <3> QED BY <3>1 DEF Submitting, Earlier
  <2>4. T[j].checkpoint = T[i].checkpoint
    BY <1>2, <2>1, <2>3
  <2> HIDE DEF j
  <2>5. T[j].of = T[j].session /\ \E k \in DOMAIN T : T[k].hash = T[j].head
    BY <1>2, <2>3 DEF Hashes
  <2> QED BY <2>3, <2>4, <2>5
<1> QED BY <1>3, <1>4 DEF TWLegal

(* Redactions of redactions, in a chain of any length, end at a message that *)
(* is not one.                                                               *)
LEMMA RDPromise ==
  ASSUME NEW M, NEW T \in Seq(M), RDPasses(T)
  PROVE  RDLegal(T)
<1> SUFFICES ASSUME NEW S \in (SUBSET Redactions(T)) \ {{}}
             PROVE  \E i \in S : \E j \in DOMAIN T \ S : j < i /\ T[j].hash = T[i].original
  BY DEF RDLegal
<1>0. /\ Len(T) \in Nat /\ DOMAIN T = 1 .. Len(T) /\ S \subseteq 1 .. Len(T)
  BY RowsFinite DEF Redactions
<1>1. Least(S) \in S /\ \A j \in S : Least(S) <= j
  BY <1>0, LastRow
<1> DEFINE i == Least(S)
<1>2. T[i].original \in HashesBefore(T, i)
  BY <1>1 DEF RDPasses, RD_ORIGINAL_BIND
<1>3. i \in S /\ i \in 1 .. Len(T) /\ \A j \in S : i <= j
  BY <1>0, <1>1
<1> HIDE DEF i
<1>4. PICK j \in 1 .. i - 1 : T[j].hash = T[i].original
  BY <1>2 DEF HashesBefore
<1>5. j \in DOMAIN T \ S /\ j < i
  BY <1>0, <1>3
<1> QED BY <1>3, <1>4, <1>5

(* Accusations rest on something else in the end: the first of some          *)
(* accusations has evidence before it, which is none of them.                *)
LEMMA DSPromise ==
  ASSUME NEW M, NEW T \in Seq(M), DSPasses(T)
  PROVE  DSLegal(T)
<1> SUFFICES ASSUME NEW S \in (SUBSET Evidenced(T)) \ {{}}
             PROVE  \E i \in S, j \in DOMAIN T \ S :
                      j < i /\ {T[j].id, T[j].hash} \cap T[i].evidence # {}
  BY DEF DSLegal
<1>0. /\ Len(T) \in Nat /\ DOMAIN T = 1 .. Len(T) /\ S \subseteq 1 .. Len(T)
  BY RowsFinite DEF Evidenced, Challenges
<1>1. Least(S) \in S /\ \A j \in S : Least(S) <= j
  BY <1>0, LastRow
<1> DEFINE i == Least(S)
<1>2. T[i].evidence \cap (IdsBefore(T, i) \cup HashesBefore(T, i)) # {}
  BY <1>1 DEF DSPasses, DS_EVIDENCE_RESOLVE
<1>3. i \in S /\ i \in 1 .. Len(T) /\ \A j \in S : i <= j
  BY <1>0, <1>1
<1> HIDE DEF i
<1>4. PICK j \in 1 .. i - 1 : {T[j].id, T[j].hash} \cap T[i].evidence # {}
  BY <1>2 DEF IdsBefore, HashesBefore
<1>5. j \in DOMAIN T \ S /\ j < i
  BY <1>0, <1>3
<1> QED BY <1>3, <1>4, <1>5

-----------------------------------------------------------------------------
(* Identities: who speaks is who it says it is, and may speak for whom it    *)
(* says.                                                                     *)

(* The public key that a keyring gives for an agent and a kid is in the      *)
(* keyring.                                                                  *)
LEMMA KeyOfRing ==
  ASSUME NEW ring, \A k \in ring : k = <<k[1], k[2], k[3]>>,
         NEW agent, NEW kid, PublicKey(ring, agent, kid) # None
  PROVE  <<agent, kid, PublicKey(ring, agent, kid)>> \in ring
<1>1. \E r \in ring : r[1] = agent /\ r[2] = kid
  BY DEF PublicKey
<1> DEFINE r == CHOOSE r \in ring : r[1] = agent /\ r[2] = kid
<1>2. r \in ring /\ r[1] = agent /\ r[2] = kid /\ PublicKey(ring, agent, kid) = r[3]
  BY <1>1 DEF PublicKey
<1> HIDE DEF r
<1>3. r = <<r[1], r[2], r[3]>>
  BY <1>2
<1> QED BY <1>2, <1>3

(* A signature that has no issue covers the message, and verifies under a    *)
(* key that the keyring has for its signer.                                  *)
LEMMA EntryVerifies ==
  ASSUME NEW m, NEW s, NEW ring, \A k \in ring : k = <<k[1], k[2], k[3]>>,
         EntryIssues(m, s, ring, TRUE) = {}
  PROVE  s.over = m.hash /\ <<s.signer, s.kid, s.by>> \in ring
<1>1. s.type = "message" /\ s.over = m.hash
  BY DEF EntryIssues
<1>2. KeyIssue(ring, s) \notin {"missing_key", "kid_mismatch"}
  BY DEF EntryIssues
<1>3. PublicKey(ring, s.signer, s.kid) # None /\ KeyIssue(ring, s) = None
  BY <1>2 DEF KeyIssue
<1>4. s.by = PublicKey(ring, s.signer, s.kid)
  BY <1>1, <1>3 DEF EntryIssues
<1> QED BY <1>1, <1>3, <1>4, KeyOfRing

(* An authenticated message was signed over itself with a key that its       *)
(* sender published.                                                         *)
LEMMA AUTHPromise ==
  ASSUME NEW T, AUTHIssues(T, TRUE) = {}
  PROVE  AUTHLegal(T)
<1> SUFFICES ASSUME NEW i \in DOMAIN T
             PROVE  \E s \in T[i].sigs : /\ s.over = T[i].hash /\ T[i].hash # None
                                         /\ <<T[i].sender, s.kid, s.by>> \in BaselineKeys
  BY DEF AUTHLegal
<1>1. T[i].hash # None
  BY DEF AUTHIssues
<1>2. SignatureIssues(T[i], BaselineKeys, TRUE, TRUE) = {}
  BY DEF AUTHIssues
<1>3. T[i].sigs # {}
  BY <1>2 DEF SignatureIssues
<1>4. PICK s \in T[i].sigs : s.signer = T[i].sender /\ EntryIssues(T[i], s, BaselineKeys, TRUE) = {}
  BY <1>2, <1>3 DEF SignatureIssues
<1>5. s.over = T[i].hash /\ <<s.signer, s.kid, s.by>> \in BaselineKeys
  BY <1>4, EntryVerifies, KeysAssumption
<1> QED BY <1>1, <1>4, <1>5

\* The keyring after row i, from the keyrings before it.
RingFrom(T, hashes, f, i) ==
  IF i = 0 THEN BaselineKeys ELSE KeyringAfter(f[i - 1], T[i], hashes)

(* The keyrings after each row, which the code keeps as it reads, exist for  *)
(* any number of rows.                                                       *)
LEMMA RingsExist ==
  ASSUME NEW T, NEW hashes, NEW n \in Nat
  PROVE  \E f : f = [i \in 0 .. n |-> RingFrom(T, hashes, f, i)]
<1> DEFINE Has(k) == \E f : f = [i \in 0 .. k |-> RingFrom(T, hashes, f, i)]
           Bad == {k \in Nat : ~Has(k)}
<1> SUFFICES ASSUME Bad # {} PROVE FALSE
  BY Zenon
<1>1. PICK k \in Bad : \A x \in Bad : k <= x
  <2>1. Bad \subseteq Nat
    OBVIOUS
  <2> HIDE DEF Bad
  <2> QED BY <2>1, Minimum
<1>2. ~Has(k) /\ k \in Nat
  BY <1>1
<1>3. Has(0)
  <2> DEFINE f == [i \in 0 .. 0 |-> BaselineKeys]
  <2>1. \A i \in 0 .. 0 : i = 0
    OBVIOUS
  <2>2. f = [i \in 0 .. 0 |-> RingFrom(T, hashes, f, i)]
    BY <2>1 DEF RingFrom
  <2> HIDE DEF f
  <2> QED BY <2>2
<1>4. k # 0
  <2> HIDE DEF Has
  <2> QED BY <1>2, <1>3
<1>5. k - 1 \in Nat /\ k - 1 \notin Bad
  <2>1. k - 1 \in Nat /\ ~(k <= k - 1)
    BY <1>2, <1>4
  <2> HIDE DEF Bad
  <2> QED BY <1>1, <2>1
<1>6. Has(k - 1)
  <2> HIDE DEF Has
  <2> QED BY <1>5
<1>7. PICK f : f = [i \in 0 .. k - 1 |-> RingFrom(T, hashes, f, i)]
  BY <1>6
<1> DEFINE h == [i \in 0 .. k |-> IF i = k THEN RingFrom(T, hashes, f, k) ELSE f[i]]
<1>8. ASSUME NEW i \in 0 .. k
      PROVE  h[i] = RingFrom(T, hashes, h, i)
  <2>1. RingFrom(T, hashes, h, i) = RingFrom(T, hashes, f, i)
    <3>1. CASE i = 0
      BY <3>1 DEF RingFrom
    <3>2. CASE i # 0
      <4>1. i - 1 \in 0 .. k /\ i - 1 # k
        BY <1>2, <3>2
      <4>2. h[i - 1] = f[i - 1]
        BY <4>1
      <4> HIDE DEF h
      <4> QED BY <3>2, <4>2 DEF RingFrom
    <3> QED BY <3>1, <3>2
  <2>2. CASE i = k
    BY <2>1, <2>2
  <2>3. CASE i # k
    <3>1. i \in 0 .. k - 1
      BY <1>2, <2>3
    <3>2. f[i] = RingFrom(T, hashes, f, i)
      BY <1>7, <3>1
    <3> QED BY <2>1, <2>3, <3>2
  <2> QED BY <2>2, <2>3
<1>9. h = [i \in 0 .. k |-> RingFrom(T, hashes, h, i)]
  <2>1. h = [i \in 0 .. k |-> h[i]]
    OBVIOUS
  <2> HIDE DEF h
  <2> QED BY <1>8, <2>1
<1> HIDE DEF h
<1> QED BY <1>2, <1>9

(* So the keyring after a row is what the row makes of the keyring before    *)
(* it.                                                                       *)
LEMMA RingsUnfold ==
  ASSUME NEW T, NEW hashes, Len(T) \in Nat
  PROVE  Keyrings(T, hashes) = [i \in 0 .. Len(T) |-> RingFrom(T, hashes, Keyrings(T, hashes), i)]
<1>1. \E f : f = [i \in 0 .. Len(T) |-> RingFrom(T, hashes, f, i)]
  BY RingsExist
<1>2. Keyrings(T, hashes) = CHOOSE f : f = [i \in 0 .. Len(T) |-> RingFrom(T, hashes, f, i)]
  BY DEF Keyrings, RingFrom
<1> QED BY <1>1, <1>2

(* What founds a key at a row founds it at the next.                         *)
LEMMA FoundedLater ==
  ASSUME NEW T, NEW i \in Nat, NEW k, Founded(T, i, k)
  PROVE  Founded(T, i + 1, k)
<1>1. \A j \in 1 .. i : j \in 1 .. i + 1
  OBVIOUS
<1> QED BY <1>1 DEF Founded

\* The keys of an announcement are pairs of a kid and a public key.
Announced(T) ==
  \A i \in DOMAIN T : T[i].type = "IDENTITY_ANNOUNCE" => \A k \in T[i].keys : k = <<k[1], k[2]>>

(* What the parsing gives of an announcement is pairs of a kid and a key.    *)
LEMMA AnnouncedParsed ==
  ASSUME NEW T, NEW s \in {"SIG", "ID"}, ParsedRows(s, T)
  PROVE  Announced(T)
BY DEF ParsedRows, Parsed, Announced

(* Every key of every keyring was published, was announced, or was signed by *)
(* a key of its agent that came before it: no row brings in a key from       *)
(* nowhere.                                                                  *)
LEMMA RingsFounded ==
  ASSUME NEW M, NEW T \in Seq(M), Announced(T), NEW hashes
  PROVE  \A i \in 0 .. Len(T) : \A k \in Keyrings(T, hashes)[i] :
           k = <<k[1], k[2], k[3]>> /\ Founded(T, i, k)
<1>0. Len(T) \in Nat /\ DOMAIN T = 1 .. Len(T)
  OBVIOUS
<1> DEFINE ring == Keyrings(T, hashes)
           Fine(i, k) == k = <<k[1], k[2], k[3]>> /\ Founded(T, i, k)
           Bad == {i \in 0 .. Len(T) : \E k \in ring[i] : ~Fine(i, k)}
<1> SUFFICES ASSUME Bad # {} PROVE FALSE
  OBVIOUS
<1>1. PICK i \in Bad : \A x \in Bad : i <= x
  <2>1. Bad \subseteq 0 .. Len(T) /\ 0 .. Len(T) \subseteq Nat
    BY <1>0
  <2> HIDE DEF Bad
  <2> QED BY <2>1, Minimum
<1>2. PICK k \in ring[i] : ~Fine(i, k)
  BY <1>1
<1>3. i \in 0 .. Len(T) /\ ring[i] = RingFrom(T, hashes, ring, i)
  BY <1>0, <1>1, RingsUnfold
<1>4. CASE i = 0
  <2>1. k \in BaselineKeys
    BY <1>2, <1>3, <1>4 DEF RingFrom
  <2> QED BY <1>2, <2>1, KeysAssumption DEF Founded
<1>5. CASE i # 0
  <2> DEFINE p == i - 1
  <2>1. p \in Nat /\ p \in 0 .. Len(T) /\ ~(i <= p) /\ i = p + 1 /\ i \in 1 .. i /\ i \in DOMAIN T
    BY <1>0, <1>3, <1>5
  <2>2. p \notin Bad
    <3> HIDE DEF Bad, p
    <3> QED BY <1>1, <2>1
  <2>3. \A x \in ring[p] : Fine(p, x)
    BY <2>1, <2>2
  <2>4. ring[i] = KeyringAfter(ring[p], T[i], hashes)
    BY <1>3, <1>5 DEF RingFrom
  <2> HIDE DEF p, ring, Bad
  <2>5. k \notin ring[p]
    <3>1. ASSUME k \in ring[p] PROVE Fine(i, k)
      BY <2>1, <2>3, <3>1, FoundedLater
    <3> QED BY <1>2, <3>1
  <2>6. CASE T[i].type = "IDENTITY_ANNOUNCE"
    <3>1. PICK a \in T[i].keys : k = <<T[i].agent, a[1], a[2]>>
      BY <1>2, <2>4, <2>5, <2>6 DEF KeyringAfter, With
    <3>2. a = <<a[1], a[2]>>
      BY <2>1, <2>6 DEF Announced
    <3>3. k[1] = T[i].agent /\ <<k[2], k[3]>> \in T[i].keys
      BY <3>1, <3>2
    <3>4. Founded(T, i, k)
      BY <2>1, <2>6, <3>3 DEF Founded
    <3> QED BY <1>2, <3>1, <3>4
  <2>7. CASE T[i].type # "IDENTITY_ANNOUNCE"
    <3>1. T[i].type = "KEY_ROTATION" /\ Rotates(ring[p], T[i])
      BY <1>2, <2>4, <2>5, <2>7 DEF KeyringAfter
    <3>2. ring[i] = With(ring[p], T[i].sender, {<<T[i].newKid, T[i].newKey>>})
      BY <1>2, <2>4, <2>5, <2>7 DEF KeyringAfter
    <3>3. k = <<T[i].sender, T[i].newKid, T[i].newKey>>
      BY <1>2, <2>5, <3>2 DEF With
    <3>4. OldSigns(ring[p], T[i]) /\ T[i].newSig = T[i].newKey
      BY <3>1 DEF Rotates, NewSigns
    <3>5. <<T[i].sender, T[i].oldKid, T[i].oldSig>> \in ring[p]
      BY <2>3, <3>4, KeyOfRing DEF OldSigns
    <3> DEFINE o == <<T[i].sender, T[i].oldKid, T[i].oldSig>>
    <3>6. Founded(T, p, o) /\ o[1] = T[i].sender /\ o[2] = T[i].oldKid /\ o[3] = T[i].oldSig
      BY <2>3, <3>5
    <3> HIDE DEF o
    <3>7. \/ \E b \in BaselineKeys : b[1] = T[i].sender /\ b[3] = T[i].oldSig
          \/ \E l \in 1 .. p :
               \/ T[l].type = "IDENTITY_ANNOUNCE" /\ T[l].agent = T[i].sender /\ \E a \in T[l].keys : a[2] = T[i].oldSig
               \/ T[l].type = "KEY_ROTATION" /\ T[l].sender = T[i].sender /\ T[l].newKey = T[i].oldSig
      <4>1. CASE o \in BaselineKeys
        BY <3>6, <4>1
      <4>2. CASE \E j \in 1 .. p : T[j].type = "IDENTITY_ANNOUNCE" /\ T[j].agent = o[1] /\ <<o[2], o[3]>> \in T[j].keys
        BY <3>6, <4>2
      <4>3. CASE \E j \in 1 .. p : T[j].type = "KEY_ROTATION" /\ T[j].sender = o[1] /\ T[j].newKey = o[3]
        BY <3>6, <4>3
      <4> QED BY <3>6, <4>1, <4>2, <4>3 DEF Founded
    <3>8. i - 1 = p
      BY DEF p
    <3>9. k[1] = T[i].sender /\ k[2] = T[i].newKid /\ k[3] = T[i].newKey /\ k = <<k[1], k[2], k[3]>>
      BY <3>3
    <3>10. Founded(T, i, k)
      BY <2>1, <3>1, <3>4, <3>7, <3>8, <3>9 DEF Founded
    <3> QED BY <1>2, <3>9, <3>10
  <2> QED BY <2>6, <2>7
<1> QED BY <1>4, <1>5

(* Every signature covers its message, and verifies under a founded key.     *)
LEMMA SIGPromise ==
  ASSUME NEW M, NEW T \in Seq(M), ParsedRows("SIG", T), SIGIssues(T, TRUE) = {}
  PROVE  SIGLegal(T)
<1> SUFFICES ASSUME NEW i \in DOMAIN T, NEW s \in T[i].sigs
             PROVE  s.over = T[i].hash /\ Founded(T, i, <<s.signer, s.kid, s.by>>)
  BY DEF SIGLegal
<1> DEFINE ring == Keyrings(T, FALSE)[i]
<1>1. i \in 0 .. Len(T)
  OBVIOUS
<1>2. \A k \in ring : k = <<k[1], k[2], k[3]>> /\ Founded(T, i, k)
  BY <1>1, AnnouncedParsed, RingsFounded
<1>3. {CoreTest(c) : c \in SignatureIssues(T[i], ring, TRUE, FALSE)} = {}
  BY DEF SIGIssues
<1> HIDE DEF ring
<1>4. SignatureIssues(T[i], ring, TRUE, FALSE) = {}
  BY <1>3
<1>5. EntryIssues(T[i], s, ring, TRUE) = {}
  BY <1>4 DEF SignatureIssues
<1>6. s.over = T[i].hash /\ <<s.signer, s.kid, s.by>> \in ring
  BY <1>2, <1>5, EntryVerifies
<1> QED BY <1>2, <1>6

(* A rotation was signed with a founded key of its sender, and no contract   *)
(* is changed under a revoked kid.                                           *)
LEMMA IDPromise ==
  ASSUME NEW M, NEW T \in Seq(M), ParsedRows("ID", T), IDPasses(T)
  PROVE  IDLegal(T)
<1>0. Len(T) \in Nat /\ DOMAIN T = 1 .. Len(T)
  OBVIOUS
<1>1. ID_ROT(T) = {} /\ ID_REVOKE(T) = {}
  BY DEF IDPasses
<1>2. ASSUME NEW i \in Rows(T, {"KEY_ROTATION"})
      PROVE  Founded(T, i - 1, <<T[i].sender, T[i].oldKid, T[i].oldSig>>)
  <2> DEFINE ring == Keyrings(T, TRUE)[i - 1]
  <2>1. i - 1 \in 0 .. Len(T)
    BY <1>0 DEF Rows
  <2>2. \A k \in ring : k = <<k[1], k[2], k[3]>> /\ Founded(T, i - 1, k)
    BY <2>1, AnnouncedParsed, RingsFounded
  <2>3. OldSigns(ring, T[i])
    BY <1>1 DEF ID_ROT
  <2> HIDE DEF ring
  <2>4. <<T[i].sender, T[i].oldKid, T[i].oldSig>> \in ring
    BY <2>2, <2>3, KeyOfRing DEF OldSigns
  <2> QED BY <2>2, <2>4
<1>3. ASSUME NEW i \in Rows(T, ContractChanging), NEW j \in Rows(T, {"KEY_REVOKE"}), j < i,
             NEW s \in T[i].sigs
      PROVE  s.kid # T[j].target
  BY <1>1, <1>3 DEF ID_REVOKE, Earlier
<1> QED BY <1>2, <1>3 DEF IDLegal

(* An agent acts only under a binding that was issued before, in person when *)
(* it names its issuer, and under the very terms it names, while they last.  *)
LEMMA DIPromise ==
  ASSUME NEW M, NEW T \in Seq(M), None \notin Int, ParsedRows("DI", T), DIPasses(T)
  PROVE  DILegal(T)
<1> SUFFICES ASSUME NEW i \in Acting(T)
             PROVE  /\ \E j \in 1 .. i : T[j].type = "SUBJECT_BINDING_ISSUE" /\ T[i].acts.issuer \in {None, T[j].sender}
                    /\ T[i].acts.agent = T[i].sender
                    /\ T[i].time <= T[i].acts.expires
  BY DEF DILegal
<1>0. /\ Len(T) \in Nat /\ DOMAIN T = 1 .. Len(T) /\ \A types : Rows(T, types) \subseteq 1 .. Len(T)
      /\ i \in 1 .. Len(T) /\ T[i].acts # None
  BY RowsFinite DEF Acting
<1>1. DI_OBJ(T) = {} /\ DI_ISSUE(T) = {} /\ DI_ACT(T) = {} /\ DI_EXPIRY(T) = {}
  BY DEF DIPasses
<1>2. Bound(T, i) /\ Subject(T, i).agent = T[i].sender
  BY <1>1 DEF DI_ACT
<1> DEFINE S == Issued(T, i)
           g == Greatest(Issued(T, i))
<1>3. S # {} /\ S \subseteq 1 .. Len(T)
  BY <1>0, <1>2 DEF Bound, Issued, UpTo, Issues
<1>4. g \in S
  BY <1>3, LastRow
<1>5. /\ g \in Rows(T, {"SUBJECT_BINDING_ISSUE"}) /\ g <= i
      /\ T[g].binding = T[i].acts
  BY <1>4 DEF Issued, UpTo, Issues
<1>6. T[g].ref # None /\ Subject(T, i) = T[g].ref.object /\ Subject(T, i) # None
  BY <1>2 DEF Bound, Subject
<1> HIDE DEF g, S
<1>7. g \in Embedded(T)
  BY <1>5, <1>6 DEF Embedded
<1>8. /\ T[g].ref.hash = T[g].ref.object /\ T[g].binding = T[g].ref.hash
      /\ T[g].ref.object.issuer \in {None, T[g].sender}
  BY <1>0, <1>1, <1>5, <1>6, <1>7 DEF DI_OBJ, DI_ISSUE
<1>9. T[i].acts = Subject(T, i)
  BY <1>5, <1>6, <1>8
<1>10. T[i].acts.issuer \in {None, T[g].sender} /\ g \in 1 .. i /\ T[g].type = "SUBJECT_BINDING_ISSUE"
  BY <1>0, <1>5, <1>6, <1>8, <1>9 DEF Rows
<1>11. T[i].time \in Number /\ Subject(T, i).expires \in Number
  <2>1. Parsed("DI", T[i]) /\ Parsed("DI", T[g])
    BY <1>0, <1>10 DEF ParsedRows
  <2>2. T[i].time \in Number
    BY <1>0, <2>1 DEF Parsed
  <2>3. T[g].ref.object.expires \in Number
    BY <1>6, <1>10, <2>1 DEF Parsed
  <2> QED BY <1>6, <2>2, <2>3
<1>12. T[i].time \in Int /\ Subject(T, i).expires \in Int /\ ~(T[i].time > Subject(T, i).expires)
  BY <1>1, <1>2, <1>11 DEF DI_EXPIRY, Number
<1>13. T[i].time <= T[i].acts.expires
  BY <1>9, <1>12
<1> QED BY <1>2, <1>9, <1>10, <1>13

(* A protected action stands on claims issued before it, by an issuer the    *)
(* contract allows, with the authentication it wants, and on an approval     *)
(* before it.                                                                *)
LEMMA IBPromise ==
  ASSUME NEW M, NEW T \in Seq(M), IBPasses(T)
  PROVE  IBLegal(T)
<1> SUFFICES ASSUME NEW i \in Protected(T)
             PROVE  /\ \A j \in Issues(T, T[i].acts) : j < i
                    /\ \E j \in Issues(T, T[i].acts) :
                          /\ IBConfig(T).issuers # {} => T[j].claims.issuer \in IBConfig(T).issuers
                          /\ T[i].declares = None => Requirement(T, i).all \subseteq T[j].claims.values
                          /\ Requirement(T, i).amrAny # {} => Requirement(T, i).amrAny \cap T[j].claims.amr # {}
                    /\ Requirement(T, i).approval # None => \E a \in 1 .. i - 1 :
                          T[a].type = "APPROVAL_GRANT" /\ T[a].action = Requirement(T, i).approval
  BY DEF IBLegal
<1>0. /\ Len(T) \in Nat /\ DOMAIN T = 1 .. Len(T) /\ \A types : Rows(T, types) \subseteq 1 .. Len(T)
      /\ i \in 1 .. Len(T)
  BY RowsFinite DEF Protected
<1>1. IB_BINDING_LINK(T) = {} /\ IB_ISSUER(T) = {} /\ IB_MAP(T) = {} /\ IB_STEPUP(T) = {}
      /\ IB_APPROVAL_MAP(T) = {}
  BY DEF IBPasses
<1>2. Linked(T, i)
  BY <1>1 DEF IB_BINDING_LINK
<1> DEFINE S == Issues(T, T[i].acts)
           g == Source(T, i)
<1>3. S # {} /\ S \subseteq 1 .. Len(T) /\ g < i
  BY <1>0, <1>2 DEF Linked, Issues
<1>4. g \in S /\ \A j \in S : j <= g
  BY <1>3, LastRow DEF Source
<1>5. \A j \in S : j < i
  <2> HIDE DEF g, S
  <2> QED BY <1>0, <1>3, <1>4
<1>6. Claims(T, i) = T[g].claims
  BY DEF Claims
<1>7. IBConfig(T).issuers # {} => T[g].claims.issuer \in IBConfig(T).issuers
  BY <1>1, <1>2, <1>6 DEF IB_ISSUER
<1>8. T[i].declares = None => Requirement(T, i).all \subseteq T[g].claims.values
  <2>1. Meets(RequiredOf(T, i), Requirement(T, i).any, Claims(T, i).values)
    BY <1>1, <1>2 DEF IB_MAP
  <2> QED BY <1>6, <2>1 DEF Meets, RequiredOf
<1>9. Requirement(T, i).amrAny # {} => Requirement(T, i).amrAny \cap T[g].claims.amr # {}
  <2>1. Meets(Requirement(T, i).amr, Requirement(T, i).amrAny, Claims(T, i).amr)
    BY <1>1, <1>2 DEF IB_STEPUP
  <2> QED BY <1>6, <2>1 DEF Meets
<1>10. ASSUME Requirement(T, i).approval # None
      PROVE  \E a \in 1 .. i - 1 : T[a].type = "APPROVAL_GRANT" /\ T[a].action = Requirement(T, i).approval
  <2>1. PICK a \in Earlier(Rows(T, {"APPROVAL_GRANT"}), i) : Approves(T, a, i)
    BY <1>1, <1>2, <1>10 DEF IB_APPROVAL_MAP
  <2>2. a \in 1 .. i - 1 /\ T[a].type = "APPROVAL_GRANT"
    <3>1. a \in 1 .. Len(T) /\ a < i /\ T[a].type = "APPROVAL_GRANT"
      BY <1>0, <2>1 DEF Earlier, Rows
    <3> QED BY <1>0, <3>1
  <2> QED BY <2>1, <2>2 DEF Approves
<1> QED BY <1>4, <1>5, <1>7, <1>8, <1>9, <1>10

(* A call uses what was pinned before it and not unpinned since, and between *)
(* two pinnings no manifest is used from two issuers.                        *)
LEMMA AMPromise ==
  ASSUME NEW M, NEW T \in Seq(M), ParsedRows("AM", T), AMPasses(T)
  PROVE  AMLegal(T)
<1>0. /\ Len(T) \in Nat /\ DOMAIN T = 1 .. Len(T) /\ \A types : Rows(T, types) \subseteq 1 .. Len(T)
  BY RowsFinite
<1>1. AM_PIN(T) = {} /\ AM_SHADOW(T) = {}
  BY DEF AMPasses
<1> DEFINE Setting(i) == PinningBefore(T, i) \cup Amends(T, i)
           g(i) == Greatest(Setting(i))
<1>2. /\ Pinning(T) \subseteq 1 .. Len(T) /\ \A i : PinningBefore(T, i) \subseteq 1 .. Len(T)
      /\ \A i : Setting(i) \subseteq 1 .. Len(T)
      /\ PinnedCalls(T) \subseteq 1 .. Len(T)
  BY <1>0 DEF Pinning, PinningBefore, Amends, Earlier, Contracts, PinnedCalls
<1>3. ASSUME NEW i \in PinnedCalls(T)
      PROVE  /\ T[i].manifest # None /\ T[i].manifest \in ActivePins(T, i)
             /\ Setting(i) # {} /\ ActivePins(T, i) = T[g(i)].pins
             /\ g(i) \in Setting(i) /\ \A j \in Setting(i) : j <= g(i)
             /\ i \in 1 .. Len(T)
  <2>1. T[i].manifest # None /\ T[i].manifest \in ActivePins(T, i)
    BY <1>1 DEF AM_PIN
  <2>2. Setting(i) # {} /\ ActivePins(T, i) = T[g(i)].pins
    BY <2>1 DEF ActivePins
  <2>3. Setting(i) \subseteq 1 .. Len(T) /\ i \in 1 .. Len(T)
    BY <1>2
  <2>4. g(i) \in Setting(i) /\ \A j \in Setting(i) : j <= g(i)
    <3> HIDE DEF Setting
    <3> QED BY <2>2, <2>3, LastRow
  <2> QED BY <2>1, <2>2, <2>3, <2>4
<1>4. ASSUME NEW i \in PinnedCalls(T)
      PROVE  \E j \in 1 .. i - 1 :
              /\ T[j].type \in {"CONTRACT_PROPOSE", "CONTEXT_AMEND"} /\ T[j].pins # None
              /\ \A k \in j .. i - 1 : T[k].type = "CONTEXT_AMEND" /\ T[k].pins \notin {None, {}}
                                          => T[i].manifest \in T[k].pins
              /\ T[i].manifest \in T[j].pins
  <2> DEFINE s == g(i)
  <2>1. s \in Setting(i) /\ T[i].manifest \in T[s].pins /\ \A j \in Setting(i) : j <= s
    BY <1>3
  <2> HIDE DEF s
  <2>2. /\ s \in 1 .. Len(T) /\ s < i /\ T[s].pins # None
        /\ T[s].type \in {"CONTRACT_PROPOSE", "CONTEXT_AMEND"}
    BY <1>2, <2>1 DEF PinningBefore, Amends, Earlier, Pinning, Contracts, Rows
  <2>3. i \in 1 .. Len(T) /\ s \in 1 .. i - 1
    <3>1. i \in 1 .. Len(T)
      BY <1>2
    <3> QED BY <1>0, <2>2, <3>1
  <2>4. ASSUME NEW k \in s .. i - 1, T[k].type = "CONTEXT_AMEND", T[k].pins \notin {None, {}}
        PROVE  T[i].manifest \in T[k].pins
    <3> SUFFICES ASSUME k # s PROVE FALSE
      BY <2>1
    <3>1. k \in 1 .. Len(T) /\ k < i /\ s < k
      BY <1>0, <2>3
    <3>2. k \in Earlier(Rows(T, {"CONTEXT_AMEND"}), i)
      BY <1>0, <2>4, <3>1 DEF Earlier, Rows
    <3>3. PinningBefore(T, s) \subseteq PinningBefore(T, k) /\ PinningBefore(T, k) \subseteq PinningBefore(T, i)
      BY <1>2, <2>3, <3>1 DEF PinningBefore, Earlier
    <3>4. \A p \in PinningBefore(T, k) : p <= s
      BY <2>1, <3>3
    <3> DEFINE last == Greatest(PinningBefore(T, k))
    <3>5. PinningBefore(T, k) # {} /\ T[last].pins # {}
      <4>1. CASE s \in PinningBefore(T, i)
        <5>1. s \in PinningBefore(T, k)
          BY <3>1, <4>1 DEF PinningBefore, Earlier
        <5>2. last \in PinningBefore(T, k) /\ s <= last
          BY <1>2, <5>1, LastRow
        <5>3. last = s
          <6> HIDE DEF last
          <6>1. last <= s /\ last \in 1 .. Len(T)
            BY <1>2, <3>4, <5>2
          <6> QED BY <2>2, <5>2, <6>1
        <5> QED BY <2>1, <5>1, <5>3
      <4>2. CASE s \in Amends(T, i)
        <5>1. PinningBefore(T, s) # {} /\ T[Greatest(PinningBefore(T, s))].pins # {}
          BY <4>2 DEF Amends
        <5>2. T[s].type = "CONTEXT_AMEND"
          BY <4>2 DEF Amends, Earlier, Rows
        <5>3. PinningBefore(T, k) \subseteq PinningBefore(T, s)
          <6> SUFFICES ASSUME NEW p \in PinningBefore(T, k) PROVE p \in PinningBefore(T, s)
            OBVIOUS
          <6>1. p \in Pinning(T) /\ p <= s /\ p \in 1 .. Len(T)
            BY <1>2, <3>4 DEF PinningBefore, Earlier
          <6>2. p # s
            BY <5>2, <6>1 DEF Pinning, Contracts, Rows
          <6> QED BY <2>2, <6>1, <6>2 DEF PinningBefore, Earlier
        <5>4. PinningBefore(T, k) = PinningBefore(T, s)
          BY <3>3, <5>3
        <5> QED BY <5>1, <5>4
      <4> QED BY <2>1, <4>1, <4>2
    <3>6. k \in Amends(T, i)
      BY <2>4, <3>2, <3>5 DEF Amends
    <3>7. ~(k <= s)
      BY <2>2, <3>1
    <3> QED BY <2>1, <3>6, <3>7
  <2> QED BY <2>1, <2>2, <2>3, <2>4
<1>5. ASSUME NEW i \in PinnedCalls(T), NEW j \in PinnedCalls(T), i < j, T[j].manifest[1] = T[i].manifest[1],
             \A k \in i .. j : T[k].type \notin {"CONTRACT_PROPOSE", "CONTEXT_AMEND"}
      PROVE  T[j].manifest[2] = T[i].manifest[2]
  <2>0. i \in 1 .. Len(T) /\ j \in 1 .. Len(T)
    BY <1>2
  <2>1. \A x \in 1 .. Len(T) : T[x].type \in {"CONTRACT_PROPOSE", "CONTEXT_AMEND"} /\ x < j => x < i
    BY <1>0, <1>5, <2>0
  <2>2. PinningBefore(T, j) = PinningBefore(T, i)
    BY <1>0, <1>2, <1>5, <2>0, <2>1 DEF PinningBefore, Earlier, Pinning, Contracts, Rows
  <2>3. Earlier(Rows(T, {"CONTEXT_AMEND"}), j) = Earlier(Rows(T, {"CONTEXT_AMEND"}), i)
    BY <1>0, <1>5, <2>0, <2>1 DEF Earlier, Rows
  <2>4. ActivePins(T, j) = ActivePins(T, i)
    BY <2>2, <2>3 DEF ActivePins, Amends
  <2>5. i \in Referring(T)
    BY <1>3 DEF Referring
  <2>6. T[j].manifest \in ActivePins(T, i)
    BY <1>3, <2>4
  <2> QED BY <1>1, <1>5, <2>5, <2>6 DEF AM_SHADOW
<1> QED BY <1>4, <1>5 DEF AMLegal

-----------------------------------------------------------------------------
(* Agreements: what the parties agreed on is what is used afterwards.        *)

(* A contract that follows an acceptance binds the result that was accepted  *)
(* before it, to which every party's last word agrees.                       *)
LEMMA CNPromise ==
  ASSUME NEW M, NEW T \in Seq(M), CNPasses(T)
  PROVE  CNLegal(T)
<1> SUFFICES ASSUME NEW a \in Accepts(T), NEW i \in Contracts(T), a < i
             PROVE  \E q \in Proposals(T) :
                      /\ q < a /\ T[i].config.result = T[q].result
                      /\ T[a].result \in {None, T[q].result}
                      /\ \A p \in Asked(T, T[q].result) : LET d == DeclarationOf(T, p) IN
                            /\ T[q].result.selected.profile # None => Permits(d.supports, T[q].result.selected.profile)
                            /\ T[q].result.selected.binding # None =>
                                  \E b \in d.bindings : Canonical(b) = T[q].result.selected.binding
  BY DEF CNLegal
<1>0. /\ Proposals(T) \subseteq 1 .. Len(T) /\ Accepts(T) \subseteq 1 .. Len(T)
      /\ Contracts(T) \subseteq 1 .. Len(T) /\ Len(T) \in Nat
  BY RowsFinite DEF Proposals, Accepts, Contracts
<1>1. /\ CN_AICP_PROFILE_NEGOTIATION(T) = {} /\ CN_BINDINGS(T) = {}
      /\ CN_NEGRESULT_HASH(T) = {} /\ CN_CONTRACT_BIND(T) = {}
  BY DEF CNPasses
<1>2. Proposals(T) # {}
  BY <1>1 DEF CN_CONTRACT_BIND
<1> DEFINE q == Least(Proposals(T))
<1>3. q \in Proposals(T) /\ \A j \in Proposals(T) : q <= j
  BY <1>0, <1>2, LastRow
<1>4. Proposed(T) = T[q].result
  BY DEF Proposed
<1> HIDE DEF q
<1>5. i \in Later(T, Accepts(T))
  <2>1. Least(Accepts(T)) \in Accepts(T) /\ Least(Accepts(T)) <= a
    BY <1>0, LastRow
  <2> QED BY <1>0, <2>1 DEF Later
<1>6. T[i].config.result = T[q].result
  BY <1>1, <1>2, <1>4, <1>5 DEF CN_CONTRACT_BIND
<1>7. q < a /\ T[a].result \in {None, T[q].result}
  <2>1. ProposedBefore(T, a) # {} /\ T[a].result \in {None, Proposed(T)}
    BY <1>1 DEF CN_NEGRESULT_HASH
  <2>2. PICK j \in Proposals(T) : j < a
    BY <2>1 DEF ProposedBefore, Earlier
  <2> QED BY <1>0, <1>3, <1>4, <2>1, <2>2
<1>8. ASSUME NEW p \in Asked(T, T[q].result), T[q].result.selected.profile # None
      PROVE  Permits(DeclarationOf(T, p).supports, T[q].result.selected.profile)
  <2>1. q \in Profiled(T)
    BY <1>3, <1>8 DEF Profiled
  <2>2. ~Unsupported(T, T[q].result)
    BY <1>1, <2>1 DEF CN_AICP_PROFILE_NEGOTIATION
  <2> QED BY <2>2 DEF Unsupported
<1>9. ASSUME NEW p \in Asked(T, T[q].result), T[q].result.selected.binding # None
      PROVE  \E b \in DeclarationOf(T, p).bindings : Canonical(b) = T[q].result.selected.binding
  <2>1. T[q].result.selected.binding \in {Canonical(d) : d \in DeclarationOf(T, p).bindings}
    BY <1>1, <1>3, <1>9 DEF CN_BINDINGS
  <2> QED BY <2>1
<1> QED BY <1>3, <1>6, <1>7, <1>8, <1>9

(* All contracts after an acceptance bind the same mode and one result, the  *)
(* one that was accepted last.                                               *)
LEMMA CFPromise ==
  ASSUME NEW M, NEW T \in Seq(M), CFPasses(T)
  PROVE  CFLegal(T)
<1>0. /\ Agreed(T) \subseteq 1 .. Len(T) /\ Proposals(T) \subseteq 1 .. Len(T)
      /\ Contracts(T) \subseteq 1 .. Len(T) /\ Len(T) \in Nat
  BY RowsFinite DEF Agreed, Accepts, Proposals, Contracts
<1>1. /\ CF_CONTRACT_CONFIDENTIALITY(T) = {} /\ CF_CAPNEG_BIND(T) = {} /\ CF_NEGRESULT_HASH_BIND(T) = {}
  BY DEF CFPasses
<1>2. ASSUME NEW a \in Agreed(T), NEW i \in Contracts(T), a < i
      PROVE  /\ Modes(T) # {} => T[i].config.mode = AcceptedMode(T)
             /\ ExpectedHash(T) \in {None, T[i].config.result}
  <2>1. i \in Later(T, Agreed(T))
    <3>1. Least(Agreed(T)) \in Agreed(T) /\ Least(Agreed(T)) <= a
      BY <1>0, LastRow
    <3> QED BY <1>0, <1>2, <3>1 DEF Later
  <2>2. i \in Confidential(T)
    BY <1>1, <2>1 DEF CF_CONTRACT_CONFIDENTIALITY
  <2>3. ASSUME Modes(T) # {}
        PROVE  AcceptedMode(T) # None
    <3>1. Modes(T) \subseteq 1 .. Len(T)
      BY <1>0 DEF Modes
    <3>2. Greatest(Modes(T)) \in Modes(T)
      BY <2>3, <3>1, LastRow
    <3> QED BY <2>3, <3>2 DEF AcceptedMode, Modes
  <2> QED BY <1>1, <2>2, <2>3 DEF CF_CAPNEG_BIND, CF_NEGRESULT_HASH_BIND
<1>3. ASSUME NEW a \in Agreed(T), T[a].resultHash # None, \A b \in Agreed(T) : b <= a
      PROVE  ExpectedHash(T) = T[a].resultHash
  <2>1. a \in Hashed(T) /\ Hashed(T) \subseteq Agreed(T)
    BY <1>3 DEF Hashed
  <2>2. Greatest(Hashed(T)) = a
    <3>1. Greatest(Hashed(T)) \in Hashed(T) /\ a <= Greatest(Hashed(T))
      BY <1>0, <2>1, LastRow
    <3>2. Greatest(Hashed(T)) <= a
      BY <1>3, <2>1, <3>1
    <3> QED BY <1>0, <2>1, <3>1, <3>2
  <2> QED BY <1>3, <2>1, <2>2 DEF ExpectedHash, ResultAt
<1>4. ASSUME NEW a \in Agreed(T), NEW i \in Contracts(T), NEW j \in Contracts(T), a < i, a < j
      PROVE  /\ Modes(T) # {} => T[i].config.mode = T[j].config.mode
             /\ T[a].resultHash # None /\ (\A b \in Agreed(T) : b <= a) =>
                   T[i].config.result = T[a].resultHash
  BY <1>2, <1>3, <1>4
<1> QED BY <1>4 DEF CFLegal

(* Once a result is proposed, nobody accepts another than the contract has.  *)
LEMMA RCPromise ==
  ASSUME NEW T, RCPasses(T)
  PROVE  RCLegal(T)
<1>1. RC_CONTRACT(T) = {}
  BY DEF RCPasses
<1>2. RCConfig(T).result # None
  BY <1>1 DEF RC_CONTRACT
<1>3. Expected(T) # {} => RCConfig(T).result = ExpectedResult(T)
  BY <1>1 DEF RC_CONTRACT
<1>4. ASSUME Expected(T) # {}, NEW i \in Rows(T, {"CAPABILITIES_ACCEPT"}), T[i].accepted
      PROVE  /\ T[i].result \in {None, ExpectedResult(T)}
             /\ T[i].resultHash \in {None, ExpectedResult(T)}
  BY <1>1, <1>2, <1>4 DEF RC_CONTRACT
<1> QED BY <1>3, <1>4 DEF RCLegal

(* A policy decides alike whenever it is asked the same.                     *)
LEMMA PEPromise ==
  ASSUME NEW T, PEPasses(T)
  PROVE  PELegal(T)
<1> SUFFICES ASSUME NEW i \in Evaluated(T), NEW j \in Evaluated(T),
                    RequestFor(T, i).input = RequestFor(T, j).input
             PROVE  T[i].decision = T[j].decision
  BY DEF PELegal
<1>1. SameInput(T, i) = SameInput(T, j)
  BY DEF SameInput
<1>2. \A k \in Evaluated(T) : T[Least(SameInput(T, k))].decision = T[k].decision
  BY DEF PEPasses, PE_DETERMINISM
<1> QED BY <1>1, <1>2

(* Calls through one OData binding have one target; and when only one call   *)
(* needs an approval it was granted before.                                  *)
LEMMA EBPromise ==
  ASSUME NEW M, NEW T \in Seq(M), EBPasses(T)
  PROVE  EBLegal(T)
<1>1. EB_REFERENCE_INTEGRITY(T) = {} /\ EB_ODATA_BIND(T) = {} /\ EB_APPROVAL_LINK(T) = {}
  BY DEF EBPasses
<1>2. ASSUME NEW i \in BoundCalls(T), T[i].binding \notin EBConfig(T).openapi, T[i].target # None
      PROVE  T[i].target = BoundTarget(T, T[i].binding)
  BY <1>1, <1>2 DEF EB_REFERENCE_INTEGRITY, EB_ODATA_BIND
<1>3. ASSUME NEW i \in BoundCalls(T), NEW j \in BoundCalls(T),
             T[i].binding = T[j].binding, T[i].binding \notin EBConfig(T).openapi,
             None \notin {T[i].target, T[j].target}
      PROVE  T[i].target = T[j].target
  BY <1>2, <1>3
<1>4. ASSUME NEW i \in BoundCalls(T), T[i].guarded, \A j \in BoundCalls(T) : T[j].guarded => i = j
      PROVE  \E a \in 1 .. i - 1 : T[a].type = "APPROVAL_GRANT" /\ T[a].call = T[i].call
  <2>1. ApprovedCall(T, i)
    BY <1>1, <1>4 DEF EB_APPROVAL_LINK
  <2>2. PICK a \in Rows(T, {"APPROVAL_GRANT"}) : a < i /\ T[a].call = T[i].call
    BY <2>1 DEF ApprovedCall, Earlier
  <2>3. i \in 1 .. Len(T) /\ a \in 1 .. Len(T) /\ Len(T) \in Nat
    BY RowsFinite DEF BoundCalls
  <2> QED BY <2>2, <2>3 DEF Rows
<1> QED BY <1>3, <1>4 DEF EBLegal

\* The needs that the suite knows, and no target that is none.
OBKnown(T) ==
  \A i \in DOMAIN T : /\ T[i].call # None => T[i].needs \subseteq {"approval", "iam"}
                      /\ None \notin T[i].targets \cup {<<"message_hash", T[i].hash>>}

(* What the parsing gives is what the signals need.                          *)
LEMMA OBParsed ==
  ASSUME NEW T, ParsedRows("OB", T)
  PROVE  OBKnown(T)
<1>1. \A i \in DOMAIN T : T[i].needs \subseteq {"approval", "iam"}
  BY DEF ParsedRows, Parsed
<1>2. \A i \in DOMAIN T : None \notin T[i].targets \cup {<<"message_hash", T[i].hash>>}
  BY DEF ParsedRows, Parsed
<1> QED BY <1>1, <1>2 DEF OBKnown

(* A transcript with a call that needs an approval or a step-up has a signal *)
(* about a call of that kind, and no signal is about anything outside.       *)
LEMMA OBPromise ==
  ASSUME NEW T, OBKnown(T), OBPasses(T)
  PROVE  OBLegal(T)
<1>1. OB_CORRELATION(T) = {} /\ OB_NEEDS(T) = {}
  BY DEF OBPasses
<1>2. ASSUME NEW i \in DOMAIN T, T[i].call # None, NEW need \in T[i].needs
      PROVE  \E j \in Signals(T), k \in DOMAIN T :
               T[k].call # None /\ need \in T[k].needs /\ <<"tool_call_id", T[k].call>> \in T[j].parts
  <2>1. need \in {"approval", "iam"} /\ CallsThat(T, need) # {}
    BY <1>2 DEF OBKnown, CallsThat
  <2>2. Correlated(T, need)
    BY <1>1, <2>1 DEF OB_NEEDS
  <2>3. PICK j \in Signals(T), c \in CallsThat(T, need) : <<"tool_call_id", c>> \in T[j].parts
    BY <2>2 DEF Correlated
  <2>4. PICK k \in DOMAIN T : T[k].call # None /\ need \in T[k].needs /\ c = T[k].call
    BY DEF CallsThat
  <2> QED BY <2>3, <2>4
<1>3. None \notin Targets(T)
  BY DEF OBKnown, Targets, Hashes
<1>4. \A i \in Signals(T) : None \notin T[i].parts
  BY <1>1, <1>3 DEF OB_CORRELATION
<1> QED BY <1>2, <1>4 DEF OBLegal

-----------------------------------------------------------------------------
(* Deliveries: what is delivered over time does not go back, and is not      *)
(* lost.                                                                     *)

(* A deprecated channel is never updated again, and with one declaration for *)
(* each channel no chain of parents loops.                                   *)
LEMMA CHPromise ==
  ASSUME NEW M, NEW T \in Seq(M), CHPasses(T)
  PROVE  CHLegal(T)
<1>0. /\ Len(T) \in Nat /\ DOMAIN T = 1 .. Len(T) /\ \A types : Rows(T, types) \subseteq 1 .. Len(T)
      /\ Declarations(T) \subseteq 1 .. Len(T)
  BY RowsFinite DEF Declarations
<1>1. CH_HIER(T) = {} /\ CH_LIFECYCLE(T) = {}
  BY DEF CHPasses
<1>2. ASSUME NEW i \in Rows(T, {"CHANNEL_UPDATE"}), NEW j \in Rows(T, {"CHANNEL_DEPRECATE"}), j < i
      PROVE  T[j].channel # T[i].channel
  <2>1. Channels(T, T[i].channel, i) # {} /\ KeyedBefore(T, {"CHANNEL_DEPRECATE"}, "channel", i) = {}
    BY <1>1 DEF CH_LIFECYCLE, Rows
  <2>2. T[i].channel # None
    BY <2>1 DEF Channels, Keyed, Earlier
  <2> QED BY <1>2, <2>1, <2>2 DEF KeyedBefore, Keyed, Earlier
<1>3. ASSUME \A i, j \in Declarations(T) : T[i].channel = T[j].channel => i = j,
             NEW S \in (SUBSET Declarations(T)) \ {{}}
      PROVE  \E i \in S : \A j \in S : T[i].parent # T[j].channel
  <2> DEFINE i == Least(S)
  <2>1. S \subseteq 1 .. Len(T) /\ S # {}
    BY <1>0
  <2>2. i \in S /\ \A j \in S : i <= j
    BY <2>1, LastRow
  <2> HIDE DEF i
  <2>3. ASSUME NEW j \in S, T[i].parent = T[j].channel
        PROVE  FALSE
    <3>1. j \in Declarations(T) /\ i \in Declarations(T) /\ T[j].channel # None
      BY <2>2 DEF Declarations
    <3>2. Channels(T, T[i].parent, i) # {}
      BY <1>1, <2>3, <3>1 DEF CH_HIER
    <3>3. PICK p \in Channels(T, T[i].parent, i) : TRUE
      BY <3>2
    <3>4. p \in Declarations(T) /\ p < i /\ T[p].channel = T[j].channel
      BY <2>3, <3>1, <3>3 DEF Channels, Keyed, Earlier, Declarations
    <3>5. p = j /\ i <= j
      BY <1>3, <2>2, <3>1, <3>4
    <3>6. i \in 1 .. Len(T) /\ j \in 1 .. Len(T)
      BY <1>0, <3>1
    <3> QED BY <3>4, <3>5, <3>6
  <2> QED BY <2>2, <2>3
<1> QED BY <1>2, <1>3 DEF CHLegal

(* The cursors of a subscription never regress, and two ends have a          *)
(* beginning between them.                                                   *)
LEMMA SBPromise ==
  ASSUME NEW M, NEW T \in Seq(M), None \notin Int, ParsedRows("SB", T), SBPasses(T)
  PROVE  SBLegal(T)
<1>0. /\ Len(T) \in Nat /\ DOMAIN T = 1 .. Len(T) /\ \A types : Rows(T, types) \subseteq 1 .. Len(T)
  BY RowsFinite
<1>1. SB_STATE(T) = {} /\ SB_CURSOR(T) = {}
  BY DEF SBPasses
<1> DEFINE S == {i \in Rows(T, {"SUBSCRIPTION_STATE"}) : T[i].cursor # None}
           key == [i \in S |-> T[i].subscription]
           cursor == [i \in S |-> T[i].cursor]
<1>2. \A i \in S : cursor[i] \in Int
  <2>1. \A i \in S : Parsed("SB", T[i]) /\ T[i].type = "SUBSCRIPTION_STATE"
    BY <1>0 DEF ParsedRows, Rows
  <2> QED BY <2>1 DEF Parsed, Number
<1>3. \A i \in S : T[i].subscription # None
  BY <1>1 DEF SB_STATE, Subscribed, KeyedBefore, Keyed, Earlier, Rows
<1>4. Rising(S, key, cursor)
  <2> SUFFICES ASSUME NEW i \in S
               PROVE  LET B == {j \in S : j < i /\ key[j] = key[i]}
                      IN  B # {} => cursor[Greatest(B)] <= cursor[i]
    BY DEF Rising
  <2> DEFINE B == {j \in S : j < i /\ key[j] = key[i]}
  <2> SUFFICES ASSUME B # {} PROVE cursor[Greatest(B)] <= cursor[i]
    OBVIOUS
  <2>1. B = Cursors(T, i)
    BY <1>3 DEF Cursors, KeyedBefore, Keyed, Earlier
  <2>2. Greatest(B) \in S
    <3>1. B \subseteq S /\ S \subseteq 1 .. Len(T)
      BY <1>0
    <3>2. B \subseteq 1 .. Len(T)
      BY <3>1
    <3> HIDE DEF B
    <3> QED BY <3>1, <3>2, LastRow
  <2>3. ~(T[i].cursor < T[Greatest(Cursors(T, i))].cursor)
    BY <1>1, <2>1 DEF SB_CURSOR
  <2>4. cursor[i] = T[i].cursor /\ cursor[Greatest(B)] = T[Greatest(Cursors(T, i))].cursor
    BY <2>1, <2>2
  <2>5. cursor[i] \in Int /\ cursor[Greatest(B)] \in Int
    BY <1>2, <2>2
  <2> DEFINE x == cursor[Greatest(B)]  y == cursor[i]
  <2>6. x \in Int /\ y \in Int /\ ~(y < x)
    BY <2>3, <2>4, <2>5
  <2> HIDE DEF x, y
  <2>7. x <= y
    BY <2>6
  <2> QED BY <2>7 DEF x, y
<1>5. \A i, j \in S : j < i /\ key[j] = key[i] => cursor[j] <= cursor[i]
  <2>1. S \subseteq 1 .. Len(T)
    BY <1>0
  <2> HIDE DEF S, key, cursor
  <2> QED BY <1>0, <1>2, <1>4, <2>1, AllRising
<1>6. \A i, j \in Rows(T, {"SUBSCRIPTION_STATE"}) :
          i < j /\ T[i].subscription = T[j].subscription /\ None \notin {T[i].cursor, T[j].cursor}
          => T[i].cursor <= T[j].cursor
  BY <1>5
<1>7. ASSUME NEW i \in Rows(T, {"UNSUBSCRIBE"}), NEW j \in Rows(T, {"UNSUBSCRIBE"}), i < j,
             T[i].subscription = T[j].subscription
      PROVE  \E s \in Rows(T, {"SUBSCRIBE"}) : i < s /\ s < j /\ T[s].subscription = T[i].subscription
  <2>1. Subscribed(T, j)
    BY <1>1 DEF SB_STATE, Rows
  <2>2. PICK s \in KeyedBefore(T, {"SUBSCRIBE"}, "subscription", j) :
          \A u \in KeyedBefore(T, {"UNSUBSCRIBE"}, "subscription", j) : u < s
    BY <2>1 DEF Subscribed
  <2>3. /\ s \in Rows(T, {"SUBSCRIBE"}) /\ s < j /\ T[s].subscription = T[j].subscription
        /\ T[j].subscription # None
    BY <2>2 DEF KeyedBefore, Keyed, Earlier
  <2>4. i \in KeyedBefore(T, {"UNSUBSCRIBE"}, "subscription", j)
    BY <1>7, <2>3 DEF KeyedBefore, Keyed, Earlier
  <2> QED BY <1>7, <2>2, <2>3, <2>4
<1> QED BY <1>6, <1>7 DEF SBLegal

(* No update is lost: two updates of one version have between them the row   *)
(* that brought that version back.                                           *)
LEMMA PBPromise ==
  ASSUME NEW M, NEW T \in Seq(M), PBPasses(T)
  PROVE  PBLegal(T)
<1> SUFFICES ASSUME NEW i \in Rows(T, {"PUBLICATION_UPDATE"}), NEW j \in Rows(T, {"PUBLICATION_UPDATE"}),
                    i < j, T[i].publication = T[j].publication, T[i].prior = T[j].prior, T[i].version # None
             PROVE  \E k \in Rows(T, {"PUBLICATION_PUBLISH", "PUBLICATION_UPDATE"}) :
                      i < k /\ k < j /\ T[k].publication = T[i].publication /\ T[k].version = T[j].prior
  BY DEF PBLegal
<1>0. /\ Len(T) \in Nat /\ DOMAIN T = 1 .. Len(T) /\ \A types : Rows(T, types) \subseteq 1 .. Len(T)
  BY RowsFinite
<1>1. /\ i \in Rows(T, {"PUBLICATION_UPDATE", "PUBLICATION_RETRACT"})
      /\ j \in Rows(T, {"PUBLICATION_UPDATE", "PUBLICATION_RETRACT"})
      /\ i \in Rows(T, {"PUBLICATION_PUBLISH", "PUBLICATION_UPDATE"})
  BY DEF Rows
<1>2. /\ Versions(T, j) # {} /\ T[Greatest(Versions(T, j))].version = T[j].prior
      /\ Versions(T, i) # {} /\ T[i].version # T[i].prior
  BY <1>1 DEF PBPasses, PB_LIFECYCLE
<1> DEFINE V == Versions(T, j)
           k == Greatest(V)
<1>3. V \subseteq 1 .. Len(T) /\ T[j].publication # None
  BY <1>0, <1>2 DEF Versions, KeyedBefore, Keyed, Earlier
<1>4. k \in V /\ \A x \in V : x <= k
  BY <1>2, <1>3, LastRow
<1>5. i \in V
  BY <1>1, <1>3 DEF Versions, KeyedBefore, Keyed, Earlier
<1>6. k \in Rows(T, {"PUBLICATION_PUBLISH", "PUBLICATION_UPDATE"}) /\ k < j /\ T[k].publication = T[j].publication
  BY <1>4 DEF Versions, KeyedBefore, Keyed, Earlier
<1>7. T[k].version = T[j].prior
  BY <1>2
<1> HIDE DEF k, V
<1>8. i < k
  <2>1. i <= k /\ i # k /\ i \in 1 .. Len(T) /\ k \in 1 .. Len(T)
    BY <1>0, <1>2, <1>4, <1>5, <1>6, <1>7
  <2> QED BY <2>1
<1> QED BY <1>6, <1>7, <1>8

(* An item is acknowledged not without a lease once it was leased; each      *)
(* lease is in the inbox that holds its item.                                *)
LEMMA INPromise ==
  ASSUME NEW M, NEW T \in Seq(M), INPasses(T)
  PROVE  INLegal(T)
<1> SUFFICES ASSUME NEW i \in Rows(T, {"INBOX_ACK"}), NEW g \in Rows(T, {"INBOX_LEASE_GRANT"}),
                    g < i, T[g].item = T[i].item, T[g].lease # None
             PROVE  /\ \E h \in Rows(T, {"INBOX_LEASE_GRANT"}) : h < i /\ T[h].lease = T[i].lease
                    /\ \E q \in 1 .. g : /\ T[q].type = "INBOX_ENQUEUE" /\ T[q].item = T[g].item
                                         /\ T[g].inbox \in {None, T[q].inbox}
  BY DEF INLegal
<1>0. /\ Len(T) \in Nat /\ DOMAIN T = 1 .. Len(T) /\ \A types : Rows(T, types) \subseteq 1 .. Len(T)
  BY RowsFinite
<1>1. IN_LINK(T) = {} /\ i \in Rows(T, {"INBOX_ROUTE", "INBOX_ACK"})
  BY DEF INPasses, Rows
<1>2. T[i].item # None
  BY <1>1 DEF IN_LINK, Items, KeyedBefore, Keyed, Earlier
<1>3. \E h \in Rows(T, {"INBOX_LEASE_GRANT"}) : h < i /\ T[h].lease = T[i].lease
  <2>1. g \in {j \in KeyedBefore(T, {"INBOX_LEASE_GRANT"}, "item", i) : T[j].lease # None}
    BY <1>2 DEF KeyedBefore, Keyed, Earlier
  <2>2. T[i].lease # None /\ KeyedBefore(T, {"INBOX_LEASE_GRANT"}, "lease", i) # {}
    BY <1>1, <2>1 DEF IN_LINK
  <2> QED BY <2>2 DEF KeyedBefore, Keyed, Earlier
<1>4. Items(T, g) # {} /\ T[g].inbox \in {None, T[Greatest(Items(T, g))].inbox}
  BY <1>1, <1>2 DEF IN_LINK
<1> DEFINE q == Greatest(Items(T, g))
<1>5. Items(T, g) \subseteq 1 .. Len(T)
  BY <1>0 DEF Items, KeyedBefore, Keyed, Earlier
<1>6. q \in Items(T, g)
  BY <1>4, <1>5, LastRow
<1>7. T[g].inbox \in {None, T[q].inbox}
  BY <1>4
<1> HIDE DEF q
<1>8. T[q].type = "INBOX_ENQUEUE" /\ T[q].item = T[g].item /\ q < g /\ q \in 1 .. Len(T) /\ g \in 1 .. Len(T)
  BY <1>0, <1>6 DEF Items, KeyedBefore, Keyed, Earlier, Rows
<1>9. q \in 1 .. g
  BY <1>0, <1>8
<1> QED BY <1>3, <1>7, <1>8, <1>9

\* The streak after row i, from the streaks before it.
StreakFrom(T, f, i) ==
  IF i >= 2 /\ Paired(T, i - 1) THEN Streak(T, f[i - 2], i - 1) ELSE NoStreak

(* The streaks after each row, which the loop check keeps as it reads, exist *)
(* for any number of rows.                                                   *)
LEMMA StreaksExist ==
  ASSUME NEW T, NEW n \in Nat
  PROVE  \E f : f = [i \in 0 .. n |-> StreakFrom(T, f, i)]
<1> DEFINE Has(k) == \E f : f = [i \in 0 .. k |-> StreakFrom(T, f, i)]
           Bad == {k \in Nat : ~Has(k)}
<1> SUFFICES ASSUME Bad # {} PROVE FALSE
  BY Zenon
<1>1. PICK k \in Bad : \A x \in Bad : k <= x
  <2>1. Bad \subseteq Nat
    OBVIOUS
  <2> HIDE DEF Bad
  <2> QED BY <2>1, Minimum
<1>2. ~Has(k) /\ k \in Nat
  BY <1>1
<1>3. Has(0)
  <2> DEFINE f == [i \in 0 .. 0 |-> NoStreak]
  <2>1. \A i \in 0 .. 0 : ~(i >= 2)
    OBVIOUS
  <2>2. f = [i \in 0 .. 0 |-> StreakFrom(T, f, i)]
    BY <2>1 DEF StreakFrom
  <2> HIDE DEF f
  <2> QED BY <2>2
<1>4. k # 0
  <2> HIDE DEF Has
  <2> QED BY <1>2, <1>3
<1>5. k - 1 \in Nat /\ k - 1 \notin Bad
  <2>1. k - 1 \in Nat /\ ~(k <= k - 1)
    BY <1>2, <1>4
  <2> HIDE DEF Bad
  <2> QED BY <1>1, <2>1
<1>6. Has(k - 1)
  <2> HIDE DEF Has
  <2> QED BY <1>5
<1>7. PICK f : f = [i \in 0 .. k - 1 |-> StreakFrom(T, f, i)]
  BY <1>6
<1> DEFINE h == [i \in 0 .. k |-> IF i = k THEN StreakFrom(T, f, k) ELSE f[i]]
<1>8. ASSUME NEW i \in 0 .. k
      PROVE  h[i] = StreakFrom(T, h, i)
  <2>1. StreakFrom(T, h, i) = StreakFrom(T, f, i)
    <3>1. CASE ~(i >= 2)
      BY <3>1 DEF StreakFrom
    <3>2. CASE i >= 2
      <4>1. i - 2 \in 0 .. k /\ i - 2 # k
        BY <1>2, <3>2
      <4>2. h[i - 2] = f[i - 2]
        BY <4>1
      <4> HIDE DEF h
      <4> QED BY <3>2, <4>2 DEF StreakFrom
    <3> QED BY <3>1, <3>2
  <2>2. CASE i = k
    BY <2>1, <2>2
  <2>3. CASE i # k
    <3>1. i \in 0 .. k - 1
      BY <1>2, <2>3
    <3>2. f[i] = StreakFrom(T, f, i)
      BY <1>7, <3>1
    <3> QED BY <2>1, <2>3, <3>2
  <2> QED BY <2>2, <2>3
<1>9. h = [i \in 0 .. k |-> StreakFrom(T, h, i)]
  <2>1. h = [i \in 0 .. k |-> h[i]]
    OBVIOUS
  <2> HIDE DEF h
  <2> QED BY <1>8, <2>1
<1> HIDE DEF h
<1> QED BY <1>2, <1>9

(* So the streak after a row is what its exchange makes of the streak two    *)
(* rows before.                                                              *)
LEMMA StreaksUnfold ==
  ASSUME NEW T, Len(T) \in Nat
  PROVE  Streaks(T) = [i \in 0 .. Len(T) |-> StreakFrom(T, Streaks(T), i)]
<1>1. \E f : f = [i \in 0 .. Len(T) |-> StreakFrom(T, f, i)]
  BY StreaksExist
<1>2. Streaks(T) = CHOOSE f : f = [i \in 0 .. Len(T) |-> StreakFrom(T, f, i)]
  BY DEF Streaks, StreakFrom
<1> QED BY <1>1, <1>2

(* A streak is a number.                                                     *)
LEMMA StreaksCount ==
  ASSUME NEW M, NEW T \in Seq(M)
  PROVE  \A i \in 0 .. Len(T) : Streaks(T)[i].streak \in Nat
<1>0. Len(T) \in Nat
  OBVIOUS
<1> DEFINE after == Streaks(T)
           Bad == {i \in 0 .. Len(T) : after[i].streak \notin Nat}
<1> SUFFICES ASSUME Bad # {} PROVE FALSE
  OBVIOUS
<1>1. PICK i \in Bad : \A x \in Bad : i <= x
  <2>1. Bad \subseteq 0 .. Len(T) /\ 0 .. Len(T) \subseteq Nat
    BY <1>0
  <2> HIDE DEF Bad
  <2> QED BY <2>1, Minimum
<1>2. i \in 0 .. Len(T) /\ after[i].streak \notin Nat
  BY <1>1
<1>3. after[i] = StreakFrom(T, after, i)
  BY <1>0, <1>2, StreaksUnfold
<1> HIDE DEF after
<1>4. NoStreak.streak \in Nat
  BY DEF NoStreak
<1>5. i >= 2 /\ after[i] = Streak(T, after[i - 2], i - 1)
  BY <1>2, <1>3, <1>4 DEF StreakFrom
<1>6. after[i - 2].streak \in Nat
  <2>1. i - 2 \in 0 .. Len(T) /\ ~(i <= i - 2)
    BY <1>0, <1>2, <1>5
  <2> QED BY <1>1, <2>1
<1>7. Stuck(T, i - 1)
  BY <1>2, <1>4, <1>5 DEF Streak
<1>8. after[i].streak = IF after[i - 2].anchor = Cycle(T, i - 1) THEN after[i - 2].streak + 1 ELSE 1
  BY <1>5, <1>7 DEF Streak
<1> QED BY <1>2, <1>6, <1>8

(* Nowhere do three exchanges in a row ask for the same resynchronisation,   *)
(* and each request has an answer that agrees with it.                       *)
LEMMA RSPromise ==
  ASSUME NEW M, NEW T \in Seq(M), RSPasses(T)
  PROVE  RSLegal(T)
<1>0. /\ Len(T) \in Nat /\ DOMAIN T = 1 .. Len(T) /\ \A types : Rows(T, types) \subseteq 1 .. Len(T)
  BY RowsFinite
<1>1. RS_RESUME_MATCH(T) = {} /\ RS_LOOP(T) = {}
  BY DEF RSPasses
<1>2. ASSUME NEW i \in Requests(T)
      PROVE  \E j \in Answers(T, i) : T[j].status = "OK" => T[j].head = T[i].seen
  <2>1. Answers(T, i) # {} /\ ~Contradicts(T, i, T[Answer(T, i)])
    BY <1>1 DEF RS_RESUME_MATCH
  <2> DEFINE later == {j \in Answers(T, i) : i < j}
             S == IF later # {} THEN later ELSE Answers(T, i)
  <2>2. S \subseteq Answers(T, i) /\ S # {} /\ S \subseteq 1 .. Len(T)
    BY <1>0, <2>1 DEF Answers
  <2>3. Answer(T, i) = Least(S)
    BY DEF Answer
  <2> HIDE DEF S
  <2>4. Answer(T, i) \in Answers(T, i)
    BY <2>2, <2>3, LastRow
  <2> QED BY <2>1, <2>4 DEF Contradicts
<1>3. NoLoop(T)
  <2> SUFFICES ASSUME NEW i \in 1 .. Len(T) - 5,
                      \A k \in {0, 2, 4} : /\ Paired(T, i + k) /\ Stuck(T, i + k)
                                           /\ Cycle(T, i + k) = Cycle(T, i)
               PROVE  FALSE
    BY DEF NoLoop
  <2> DEFINE after == Streaks(T)
             c == Cycle(T, i)
  <2>1. ASSUME NEW k \in {0, 2, 4}, NEW x, NEW y, x = i + k - 1, y = i + k + 1
        PROVE  /\ after[y].anchor = c
               /\ after[y].streak = IF after[x].anchor = c THEN after[x].streak + 1 ELSE 1
               /\ after[x].streak \in Nat
    <3>1. y \in 0 .. Len(T) /\ y >= 2 /\ y - 1 = i + k /\ y - 2 = x /\ x \in 0 .. Len(T)
      BY <1>0, <2>1
    <3>2. Paired(T, i + k) /\ Stuck(T, i + k) /\ Cycle(T, i + k) = c
      OBVIOUS
    <3> HIDE DEF c
    <3>3. after[y] = StreakFrom(T, after, y)
      BY <1>0, <3>1, StreaksUnfold
    <3>4. after[y] = Streak(T, after[x], i + k)
      BY <3>1, <3>2, <3>3 DEF StreakFrom
    <3>5. after[y] = [anchor |-> c, streak |-> IF after[x].anchor = c THEN after[x].streak + 1 ELSE 1]
      BY <3>2, <3>4 DEF Streak
    <3>6. after[x].streak \in Nat
      BY <3>1, StreaksCount
    <3> HIDE DEF after
    <3> QED BY <3>5, <3>6
  <2> HIDE DEF after, c
  <2>2. /\ i - 1 = i + 0 - 1 /\ i + 1 = i + 0 + 1 /\ i + 1 = i + 2 - 1 /\ i + 3 = i + 2 + 1
        /\ i + 3 = i + 4 - 1 /\ i + 5 = i + 4 + 1
    OBVIOUS
  <2>3. /\ after[i + 1].anchor = c /\ after[i - 1].streak \in Nat
        /\ after[i + 1].streak = IF after[i - 1].anchor = c THEN after[i - 1].streak + 1 ELSE 1
    BY <2>1, <2>2
  <2>4. /\ after[i + 3].anchor = c /\ after[i + 1].streak \in Nat
        /\ after[i + 3].streak = IF after[i + 1].anchor = c THEN after[i + 1].streak + 1 ELSE 1
    BY <2>1, <2>2
  <2>5. after[i + 5].streak = IF after[i + 3].anchor = c THEN after[i + 3].streak + 1 ELSE 1
    BY <2>1, <2>2
  <2>6. after[i + 5].streak >= 3 /\ i + 5 \in DOMAIN T
    <3> DEFINE p == after[i - 1].streak  q == after[i + 1].streak
    <3>1. p \in Nat /\ (q = p + 1 \/ q = 1) /\ after[i + 5].streak = (q + 1) + 1
      BY <2>3, <2>4, <2>5
    <3> HIDE DEF p, q
    <3>2. after[i + 5].streak >= 3
      BY <3>1
    <3> QED BY <1>0, <3>2
  <2> QED BY <1>1, <2>6 DEF RS_LOOP, after
<1> QED BY <1>2, <1>3 DEF RSLegal

(* A projection that names a head names one that it declares, only once, and *)
(* a closed session has no other head than its final one.                    *)
LEMMA SPPromise ==
  ASSUME NEW T, SPPasses(T)
  PROVE  SPLegal(T)
<1> SUFFICES ASSUME NEW i \in Projections(T)
             PROVE  LET state == T[i].state IN
                      /\ T[i].active # None /\ state.ref # None =>
                            Cardinality({b \in T[i].heads : HeadOf(b) = HeadOf(state.ref)}) = 1
                      /\ state.status = "CLOSED" /\ T[i].active # None /\ state.ref # None =>
                            state.ref.version = T[i].final /\ state.conflicts = {}
                      /\ \A e \in state.evidence : \E j \in 1 .. i - 1 : e \in {T[j].hash, T[j].id}
  BY DEF SPLegal
<1> DEFINE state == T[i].state
<1>1. SP_ACTIVE_HEAD(T) = {} /\ SP_REFERENCE(T) = {} /\ SP_STATE(T) = {}
  BY DEF SPPasses
<1>2. ASSUME T[i].active # None, state.ref # None
      PROVE  /\ state.ref.version = T[i].active
             /\ Cardinality({b \in T[i].heads : HeadOf(b) = HeadOf(state.ref)}) = 1
  <2>1. state.ref.version = T[i].active
    BY <1>1, <1>2 DEF SP_ACTIVE_HEAD
  <2>2. PICK b \in T[i].heads : HeadOf(b) = <<state.ref.branch, T[i].active>>
    BY <1>1, <1>2 DEF SP_ACTIVE_HEAD
  <2>3. HeadOf(b) = HeadOf(state.ref)
    BY <2>1, <2>2 DEF HeadOf
  <2>4. \A c \in T[i].heads : HeadOf(c) = HeadOf(b) => c = b
    BY <1>1 DEF SP_ACTIVE_HEAD
  <2>5. {c \in T[i].heads : HeadOf(c) = HeadOf(state.ref)} = {b}
    BY <2>3, <2>4, Zenon
  <2>6. Cardinality({b}) = 1
    BY FS_Singleton
  <2> QED BY <2>1, <2>5, <2>6
<1>3. ASSUME state.status = "CLOSED", T[i].active # None, state.ref # None
      PROVE  state.ref.version = T[i].final /\ state.conflicts = {}
  <2>1. state.conflicts = {}
    BY <1>1, <1>3 DEF SP_STATE
  <2>2. T[i].active \in {None, T[i].final}
    BY <1>1, <1>3 DEF SP_STATE
  <2> QED BY <1>2, <1>3, <2>1, <2>2
<1>4. ASSUME NEW e \in state.evidence
      PROVE  \E j \in 1 .. i - 1 : e \in {T[j].hash, T[j].id}
  BY <1>1, <1>4 DEF SP_REFERENCE
<1> QED BY <1>2, <1>3, <1>4

(* Every replay, also of a replay, carries the message of a case that is not *)
(* one; what a reconnection names is earlier and ends where it continues;    *)
(* the copies of a message that may be repeated have one hash.               *)
LEMMA TBPromise ==
  ASSUME NEW M, NEW K \in Seq(M), TBFailing(K, TRUE) = {}
  PROVE  TBLegal(K)
<1>0. Len(K) \in Nat /\ DOMAIN K = 1 .. Len(K)
  OBVIOUS
<1>1. TB_CP_RELIABILITY(K) = {} /\ TB_HTTP_REPLAY(K) = {} /\ TB_SSE_RECONNECT(K) = {}
  BY DEF TBFailing
<1>2. ASSUME NEW i \in DOMAIN K, NEW id, CasesBefore(K, i, id) # {}
      PROVE  \E j \in 1 .. i - 1 : j \in DOMAIN K /\ CaseNamed(K, i, id) = K[j]
  <2> DEFINE S == CasesBefore(K, i, id)
             j == Greatest(S)
  <2>1. i - 1 \in Nat /\ S \subseteq 1 .. i - 1 /\ 1 .. i - 1 \subseteq DOMAIN K
    BY <1>0 DEF CasesBefore
  <2>2. j \in S
    <3> HIDE DEF S
    <3> QED BY <1>2, <2>1, GreatestIn DEF S
  <2>3. CaseNamed(K, i, id) = K[j]
    BY DEF CaseNamed
  <2> QED BY <2>1, <2>2, <2>3
<1> DEFINE First(i) == <<K[i].msgs[1].id, K[i].msgs[1].hash>>
           Rooted(i) == \E j \in 1 .. i - 1 : K[j].replayOf = None /\ First(j) = First(i)
           Bad == {i \in DOMAIN K : K[i].replayOf # None /\ ~Rooted(i)}
<1>3. Bad = {}
  <2> SUFFICES ASSUME Bad # {} PROVE FALSE
    OBVIOUS
  <2>1. PICK i \in Bad : \A x \in Bad : i <= x
    <3>1. Bad \subseteq 1 .. Len(K) /\ 1 .. Len(K) \subseteq Nat
      BY <1>0
    <3> HIDE DEF Bad
    <3> QED BY <3>1, Minimum
  <2>2. i \in DOMAIN K /\ K[i].replayOf # None /\ ~Rooted(i)
    BY <2>1
  <2>3. CasesBefore(K, i, K[i].replayOf) # {}
    BY <1>1, <2>2 DEF TB_HTTP_REPLAY
  <2>4. PICK j \in 1 .. i - 1 : j \in DOMAIN K /\ CaseNamed(K, i, K[i].replayOf) = K[j]
    BY <1>2, <2>2, <2>3
  <2>5. K[j].msgs[1].id = K[i].msgs[1].id /\ K[j].msgs[1].hash = K[i].msgs[1].hash
    BY <1>1, <2>2, <2>4 DEF TB_HTTP_REPLAY
  <2>6. First(j) = First(i)
    BY <2>5
  <2> HIDE DEF First
  <2>7. K[j].replayOf # None
    BY <2>2, <2>4, <2>6
  <2>8. j \notin Bad
    <3>1. ~(i <= j)
      BY <1>0, <2>2, <2>4
    <3> HIDE DEF Bad
    <3> QED BY <2>1, <3>1
  <2>9. PICK k \in 1 .. j - 1 : K[k].replayOf = None /\ First(k) = First(j)
    BY <2>4, <2>7, <2>8
  <2>10. k \in 1 .. i - 1
    BY <1>0, <2>2, <2>4
  <2> QED BY <2>2, <2>6, <2>9, <2>10
<1>4. ASSUME NEW i \in DOMAIN K, K[i].reconnectOf # None
      PROVE  \E j \in 1 .. i - 1 : K[j].op = "ssePullMessages" /\ K[j].frames[Len(K[j].frames)].cursor = K[i].after
  <2>1. CasesBefore(K, i, K[i].reconnectOf) # {}
    BY <1>1, <1>4 DEF TB_SSE_RECONNECT
  <2>2. PICK j \in 1 .. i - 1 : j \in DOMAIN K /\ CaseNamed(K, i, K[i].reconnectOf) = K[j]
    BY <1>2, <2>1
  <2>3. /\ K[j].op = "ssePullMessages"
        /\ K[j].frames[Len(K[j].frames)].cursor \in {K[i].after} \ {None}
    BY <1>1, <1>4, <2>2 DEF TB_SSE_RECONNECT
  <2> QED BY <2>3
<1>5. ASSUME NEW i \in DOMAIN K, K[i].delivery = "at_least_once",
             NEW m \in DOMAIN K[i].msgs, NEW n \in DOMAIN K[i].msgs, K[i].msgs[m].id = K[i].msgs[n].id
      PROVE  K[i].msgs[m].hash = K[i].msgs[n].hash
  <2>1. \A x \in DOMAIN K[i].msgs : K[i].msgs[FirstOf(K[i].msgs, K[i].msgs[x].id)].hash = K[i].msgs[x].hash
    BY <1>1, <1>5 DEF TB_CP_RELIABILITY
  <2> QED BY <1>5, <2>1
<1> QED BY <1>3, <1>4, <1>5 DEF TBLegal

(* What a case proves of a revocation lies before the status was issued, and *)
(* before the list of its anchors ends.                                      *)
LEMMA SRPromise ==
  ASSUME NEW K, None \notin Int, ParsedRows("SR", K), SRFailing(K, TRUE) = {}
  PROVE  SRLegal(K)
<1> SUFFICES ASSUME NEW i \in DOMAIN K, K[i].valid, None \notin {K[i].status, K[i].anchors, K[i].query},
                    K[i].status.status = "REVOKED"
             PROVE  K[i].status.revokedAt <= K[i].status.from /\ K[i].status.revokedAt < K[i].anchors.to
  BY DEF SRLegal
<1>1. Resolves(K[i], TRUE)
  BY DEF SRFailing, SR_CHAIN
<1> DEFINE s == K[i].status
           a == K[i].anchors
<1>2. /\ Revocation(s) /\ None \notin {s.asOf, s.from, s.to, a.to}
      /\ s.asOf <= s.from /\ s.from < s.to /\ s.to <= a.to
  BY <1>1 DEF Resolves, Covers
<1>3. s.revokedAt # None /\ s.revokedAt <= s.asOf
  BY <1>2 DEF Revocation
<1>4. {s.from, s.to, s.asOf, s.revokedAt, a.to} \subseteq Number
  BY DEF ParsedRows, Parsed
<1>5. s.from \in Int /\ s.to \in Int /\ s.asOf \in Int /\ s.revokedAt \in Int /\ a.to \in Int
  BY <1>2, <1>3, <1>4 DEF Number
<1> HIDE DEF s, a
<1>6. s.revokedAt <= s.from /\ s.revokedAt < a.to
  BY <1>2, <1>3, <1>5
<1> QED BY <1>6 DEF s, a
=============================================================================
