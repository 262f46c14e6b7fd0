---------------------------- MODULE MediaChecks ----------------------------
(* Checks of what is delivered over time: channels (CH), subscriptions (SB), *)
(* publications (PB) and inboxes (IN).                                       *)
EXTENDS Transcript

Keyed(T, types, key, value) == {i \in Rows(T, types) : T[i][key] = value /\ value # None}
KeyedBefore(T, types, key, i) == Earlier(Keyed(T, types, key, T[i][key]), i)

(* Channels. The last declaration of a channel counts; an update may give it *)
(* any declared parent, and a deprecation lasts.                             *)
Declarations(T) == {i \in Rows(T, {"CHANNEL_DECLARE"}) : T[i].channel # None}
Channels(T, c, i) == Earlier(Keyed(T, {"CHANNEL_DECLARE"}, "channel", c), i)
CH_HIER(T) ==
    {i \in Declarations(T) \cup Rows(T, {"CHANNEL_UPDATE"}) : T[i].parent # None /\ Channels(T, T[i].parent, i) = {}}
    \cup {i \in Declarations(T) :
            /\ T[i].parent # None /\ Channels(T, T[i].parent, i) # {}
            /\ T[i].visibility = "public"
            /\ T[Greatest(Channels(T, T[i].parent, i))].visibility = "private"}
CH_LIFECYCLE(T) ==
    {i \in Rows(T, {"CHANNEL_UPDATE", "CHANNEL_DEPRECATE"}) : Channels(T, T[i].channel, i) = {}}
        \cup {i \in Rows(T, {"CHANNEL_UPDATE"}) : KeyedBefore(T, {"CHANNEL_DEPRECATE"}, "channel", i) # {}}
CHPasses(T) == CH_HIER(T) \cup CH_LIFECYCLE(T) = {}

(* A deprecated channel is never updated again, also when it is declared     *)
(* anew; with one declaration for each channel no chain of parents loops.    *)
CHLegal(T) ==
    /\ \A i \in Rows(T, {"CHANNEL_UPDATE"}), j \in Rows(T, {"CHANNEL_DEPRECATE"}) :
          j < i => T[j].channel # T[i].channel
    /\ (\A i, j \in Declarations(T) : T[i].channel = T[j].channel => i = j) =>
          \A S \in (SUBSET Declarations(T)) \ {{}} : \E i \in S : \A j \in S : T[i].parent # T[j].channel
(* The reading of the RFC: no channel is public below a private one.         *)
ParentAt(T, i) == {p \in Rows(T, {"CHANNEL_DECLARE"}) : T[p].channel = T[i].parent}
NoneEscalates(T) ==
    \A i \in Rows(T, {"CHANNEL_DECLARE", "CHANNEL_UPDATE"}) : \A p \in ParentAt(T, i) :
        p < i /\ T[p].visibility = "private" => T[i].visibility # "public"

-----------------------------------------------------------------------------
(* Subscriptions. The cursor of a subscription outlives its end.             *)
Subscribed(T, i) ==
    \E s \in KeyedBefore(T, {"SUBSCRIBE"}, "subscription", i) :
        \A u \in KeyedBefore(T, {"UNSUBSCRIBE"}, "subscription", i) : u < s
Cursors(T, i) ==
    {j \in KeyedBefore(T, {"SUBSCRIPTION_STATE"}, "subscription", i) : T[j].cursor # None}
SB_STATE(T) == {i \in Rows(T, {"SUBSCRIPTION_STATE", "UNSUBSCRIBE"}) : ~Subscribed(T, i)}
SB_CURSOR(T) ==
    {i \in Rows(T, {"SUBSCRIPTION_STATE"}) :
        /\ T[i].cursor # None /\ Cursors(T, i) # {}
        /\ T[i].cursor < T[Greatest(Cursors(T, i))].cursor}
SBPasses(T) == SB_STATE(T) \cup SB_CURSOR(T) = {}

(* The cursors of a subscription never regress, however often it is ended    *)
(* and begun again, and two ends have a beginning between them.              *)
SBLegal(T) ==
    /\ \A i, j \in Rows(T, {"SUBSCRIPTION_STATE"}) :
          i < j /\ T[i].subscription = T[j].subscription /\ None \notin {T[i].cursor, T[j].cursor}
          => T[i].cursor <= T[j].cursor
    /\ \A i, j \in Rows(T, {"UNSUBSCRIBE"}) : i < j /\ T[i].subscription = T[j].subscription =>
          \E s \in Rows(T, {"SUBSCRIBE"}) : i < s /\ s < j /\ T[s].subscription = T[i].subscription

-----------------------------------------------------------------------------
(* Publications. The current version is the last published or updated.       *)
PBConfig(T) == FirstConfig(T, [mustReach |-> FALSE])
Versions(T, i) ==
    {j \in KeyedBefore(T, {"PUBLICATION_PUBLISH", "PUBLICATION_UPDATE"}, "publication", i) : T[j].version # None}
(* A mistake: any earlier version can be updated.                            *)
UpdatesAny(T) ==
    {i \in Rows(T, {"PUBLICATION_UPDATE", "PUBLICATION_RETRACT"}) :
        ~\E j \in Versions(T, i) : T[j].version = T[i].prior}
    \cup {i \in Rows(T, {"PUBLICATION_UPDATE"}) : Versions(T, i) # {} /\ T[i].version = T[i].prior}
PB_LIFECYCLE(T) ==
    {i \in Rows(T, {"PUBLICATION_UPDATE", "PUBLICATION_RETRACT"}) :
        Versions(T, i) = {} \/ T[Greatest(Versions(T, i))].version # T[i].prior}
    \cup {i \in Rows(T, {"PUBLICATION_UPDATE"}) : Versions(T, i) # {} /\ T[i].version = T[i].prior}
PB_REASON(T) == Unsound(T, {"PUBLICATION_RETRACT"})
PB_DELIVERY(T) ==
    {i \in Rows(T, {"PUBLICATION_PUBLISH", "PUBLICATION_UPDATE", "PUBLICATION_RETRACT"}) :
        PBConfig(T).mustReach /\ T[i].proof = None}
PBPasses(T) == PB_LIFECYCLE(T) \cup PB_REASON(T) \cup PB_DELIVERY(T) = {}

(* No update is lost: two updates of the same version of a publication have  *)
(* between them the row that brought that version back.                      *)
PBLegal(T) ==
    \A i, j \in Rows(T, {"PUBLICATION_UPDATE"}) :
        /\ i < j /\ T[i].publication = T[j].publication
        /\ T[i].prior = T[j].prior /\ T[i].version # None
        => \E k \in Rows(T, {"PUBLICATION_PUBLISH", "PUBLICATION_UPDATE"}) :
              i < k /\ k < j /\ T[k].publication = T[i].publication /\ T[k].version = T[j].prior

-----------------------------------------------------------------------------
(* Inboxes. An item is in the inbox it was put in last; an item that was     *)
(* leased at all is acknowledged under a lease, of any item.                 *)
INConfig(T) == FirstConfig(T, [queue |-> FALSE, admission |-> FALSE])
Items(T, i) == {j \in KeyedBefore(T, {"INBOX_ENQUEUE"}, "item", i) : T[j].inbox # None}
IN_LINK(T) ==
    {i \in Rows(T, {"INBOX_ROUTE", "INBOX_ACK"}) : Items(T, i) = {}}
    \cup {i \in Rows(T, {"INBOX_LEASE_GRANT"}) :
            /\ T[i].item # None
            /\ Items(T, i) = {} \/ T[i].inbox \notin {None, T[Greatest(Items(T, i))].inbox}}
    \cup {i \in Rows(T, {"INBOX_ACK"}) :
            IF T[i].lease = None
            THEN {j \in KeyedBefore(T, {"INBOX_LEASE_GRANT"}, "item", i) : T[j].lease # None} # {}
            ELSE KeyedBefore(T, {"INBOX_LEASE_GRANT"}, "lease", i) = {}}
IN_LEASE(T) ==
    {i \in Rows(T, {"INBOX_LEASE_GRANT"}) :
        (INConfig(T).queue /\ T[i].queueRef = None) \/ (INConfig(T).admission /\ T[i].admissionRef = None)}
INPasses(T) == IN_LINK(T) \cup IN_LEASE(T) = {}

(* An item is acknowledged after it was put in, and not without a lease once *)
(* it was leased; each lease is in the inbox that holds its item.            *)
INLegal(T) ==
    \A i \in Rows(T, {"INBOX_ACK"}), g \in Rows(T, {"INBOX_LEASE_GRANT"}) :
        g < i /\ T[g].item = T[i].item /\ T[g].lease # None =>
            /\ \E h \in Rows(T, {"INBOX_LEASE_GRANT"}) : h < i /\ T[h].lease = T[i].lease
            /\ \E q \in 1 .. g : /\ T[q].type = "INBOX_ENQUEUE" /\ T[q].item = T[g].item
                                 /\ T[g].inbox \in {None, T[q].inbox}
=============================================================================
