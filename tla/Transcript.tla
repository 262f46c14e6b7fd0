----------------------------- MODULE Transcript -----------------------------
(* A transcript as the conformance runner of Core v0.1 sees it: the sequence *)
(* of the messages of a file. A check is the set of the rows (or of the      *)
(* identifiers) it reports; it passes when that set is empty. A dictionary   *)
(* that the code fills row by row is here the set of the rows that filled    *)
(* it, so "the value under a key" is the last of them.                       *)
EXTENDS Integers, Sequences, FiniteSets

CONSTANT None      \* a field that a message does not carry

Greatest(S) == CHOOSE i \in S : \A j \in S : j <= i
Least(S) == CHOOSE i \in S : \A j \in S : i <= j

Rows(T, types) == {i \in DOMAIN T : T[i].type \in types}
Earlier(S, i) == {j \in S : j < i}

(* The configuration of an extension is read from the first contract.        *)
Contracts(T) == Rows(T, {"CONTRACT_PROPOSE"})
FirstConfig(T, default) ==
    IF Contracts(T) = {} THEN default ELSE T[Least(Contracts(T))].config

(* What looks at one message alone is its field "sound".                     *)
Unsound(T, types) == {i \in Rows(T, types) : ~T[i].sound}

Hashes(T) == {T[i].hash : i \in DOMAIN T} \ {None}
HashesBefore(T, i) == {T[j].hash : j \in 1 .. i - 1} \ {None}
Types(T) == [i \in DOMAIN T |-> T[i].type]

-----------------------------------------------------------------------------
(* Core checks that every suite runs.                                        *)
CT_SESSION(T) == {i \in DOMAIN T : T[i].session # T[1].session}
CT_DUPLICATE(T) == {i \in DOMAIN T : \E j \in 1 .. i - 1 : T[j].id = T[i].id}
CT_PREV_REQUIRED(T) == {i \in DOMAIN T \ {1} : T[i].prev = None}
CT_CHAIN(T) ==
    {i \in DOMAIN T \ {1} : /\ T[i - 1].hash # None
                            /\ T[i].prev # None
                            /\ T[i].prev # T[i - 1].hash}
(* A hash a message stores that is not the hash of what it says.             *)
CT_MESSAGE_HASH(T) == {i \in DOMAIN T : T[i].hash # T[i].computed}

CTPasses(T) ==
    CT_SESSION(T) \cup CT_DUPLICATE(T) \cup CT_PREV_REQUIRED(T) \cup CT_CHAIN(T) \cup CT_MESSAGE_HASH(T) = {}

(* The chain shows tampering: a transcript that passes no longer passes when *)
(* a message inside it is left out, when two neighbours change places, or    *)
(* when a message is said again. Messages with the same hash are the same.   *)
Without(T, i) == SubSeq(T, 1, i - 1) \o SubSeq(T, i + 1, Len(T))
Swapped(T, i) == [T EXCEPT ![i] = T[i + 1], ![i + 1] = T[i]]
CTLegal(T) ==
    /\ \A i \in 2 .. Len(T) - 1 : ~CTPasses(Without(T, i))
    /\ \A i \in 1 .. Len(T) - 1 : ~CTPasses(Swapped(T, i))
    /\ \A i \in DOMAIN T : ~CTPasses(Append(T, T[i]))
=============================================================================
