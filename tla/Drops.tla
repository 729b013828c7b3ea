-------------------------------- MODULE Drops --------------------------------
(***************************************************************************)
(* Two things a tenant leaves with the control plane.  A WhiteHole drop:   *)
(* the clean-IP list cut into shards, one TXT record each, in the zone of  *)
(* the newest connection, to be put together again by fetch.sh.  An AI key *)
(* donation: a row that is reviewed and a ciphertext beside it.  Writers   *)
(* of one zone, and the donor, the admin and the cron on one donation, are *)
(* invocations that interleave at every call.                              *)
(***************************************************************************)
EXTENDS Naturals, FiniteSets, Sequences

CONSTANTS Zones,        \* zones a tenant's connections reach
          Calls,        \* publish and clear calls, each used once
          MaxShards,    \* WHITEHOLE_MAX_SHARDS
          MaxSize,      \* bound: shards a payload may need
          Keys          \* keys that are donated, by fingerprint

ASSUME DropsAssumption == MaxShards \in Nat \ {0} /\ MaxSize \in Nat \ {0}

VARIABLES zone,         \* the zone activeConnection finds
          txt,          \* TXT records ghost1, ghost2, ... of each zone
          drop,         \* publish and clear calls with their whitehole_drops row
          mixed,        \* history: calls that shared their zone with another one
          donation,     \* ai_donations, by fingerprint
          secret,       \* keys with a row in ai_donation_secrets
          withdrawing,  \* withdrawDonation calls between their two statements
          purging       \* what purgeExpiredDonations selected
dropVars == <<zone, txt, drop, mixed, donation, secret, withdrawing, purging>>
holeVars == <<zone, txt, drop, mixed>>
giftVars == <<donation, secret, withdrawing, purging>>

Slots == 1 .. MaxShards
NoTxt == [of |-> "none", part |-> 0]
NoDrop == [at |-> "new", zone |-> "none", size |-> 0, next |-> 0, row |-> "none"]
DonationStatuses == {"none", "pending", "approved", "rejected", "withdrawn"}

DropsTypeOK ==
  /\ zone \in Zones
  /\ txt \in [Zones -> [Slots -> [of : Calls \union {"none"}, part : 0 .. MaxShards]]]
  /\ drop \in [Calls -> [at : {"new", "write", "insert", "clear", "update", "over"}, zone : Zones \union {"none"},
                         size : 0 .. MaxSize, next : 0 .. MaxShards + 1,
                         row : {"none", "published", "cleared", "purged"}]]
  /\ mixed \subseteq Calls
  /\ donation \in [Keys -> [status : DonationStatuses, expired : BOOLEAN]]
  /\ secret \subseteq Keys /\ withdrawing \subseteq Keys /\ purging \subseteq Keys

DropsInit ==
  /\ zone \in Zones
  /\ txt = [z \in Zones |-> [i \in Slots |-> NoTxt]]
  /\ drop = [d \in Calls |-> NoDrop]
  /\ mixed = {}
  /\ donation = [k \in Keys |-> [status |-> "none", expired |-> FALSE]]
  /\ secret = {} /\ withdrawing = {} /\ purging = {}

-----------------------------------------------------------------------------
(* WhiteHole *)

(* assembleWhiteHoleDrop cuts what does not fit into MaxShards records.     *)
Shards(d) == IF drop[d].size > MaxShards THEN MaxShards ELSE drop[d].size

Working(z) == {d \in Calls : drop[d].zone = z /\ drop[d].at \in {"write", "insert", "clear", "update"}}
Standing(z) == {d \in Calls : drop[d].zone = z /\ drop[d].row = "published"}

(* The tenant connects a token of another zone; activeConnection takes the  *)
(* newest connection.                                                       *)
Reconnect(z) ==
  /\ zone # z
  /\ zone' = z
  /\ UNCHANGED <<txt, drop, mixed, giftVars>>

Start(d, size, at) ==
  /\ drop[d] = NoDrop
  /\ drop' = [drop EXCEPT ![d] = [at |-> at, zone |-> zone, size |-> size, next |-> 1, row |-> "none"]]
  /\ mixed' = mixed \union Working(zone) \union Standing(zone)
                    \union (IF Working(zone) # {} THEN {d} ELSE {})
  /\ UNCHANGED <<zone, txt, giftVars>>

Publish(d) == \E size \in 1 .. MaxSize : Start(d, size, "write")
Clear(d) == Start(d, 0, "clear")

(* upsertTxtRecord, one record at a time; an error ends the publish with    *)
(* the records written so far in place and no row.                          *)
\* Mutant: an error of one record does not stop the publish.
WriteRecordOrSkip(d) ==
  LET i == drop[d].next IN
  /\ drop[d].at = "write"
  /\ \/ txt' = [txt EXCEPT ![drop[d].zone][i] = [of |-> d, part |-> i]]
     \/ UNCHANGED txt
  /\ drop' = [drop EXCEPT ![d].next = i + 1, ![d].at = IF i = Shards(d) THEN "insert" ELSE "write"]
  /\ UNCHANGED <<zone, mixed, giftVars>>

WriteRecord(d) ==
  LET i == drop[d].next
      written == [txt EXCEPT ![drop[d].zone][i] = [of |-> d, part |-> i]] IN
  /\ drop[d].at = "write"
  /\ \/ /\ txt' = written
        /\ drop' = [drop EXCEPT ![d].next = i + 1, ![d].at = IF i = Shards(d) THEN "insert" ELSE "write"]
     \/ /\ txt' \in {txt, written}
        /\ drop' = [drop EXCEPT ![d].at = "over"]
  /\ UNCHANGED <<zone, mixed, giftVars>>

InsertDrop(d) ==
  /\ drop[d].at = "insert"
  /\ drop' = [drop EXCEPT ![d].at = "over", ![d].row = "published"]
  /\ UNCHANGED <<zone, txt, mixed, giftVars>>

(* clearWhiteHoleDrop deletes all MaxShards names of the zone it found, and *)
(* then closes every published row of the tenant, whatever its zone.        *)
DeleteTxt(d) ==
  LET i == drop[d].next
      deleted == [txt EXCEPT ![drop[d].zone][i] = NoTxt] IN
  /\ drop[d].at = "clear"
  /\ \/ /\ txt' = deleted
        /\ drop' = [drop EXCEPT ![d].next = i + 1, ![d].at = IF i = MaxShards THEN "update" ELSE "clear"]
     \/ /\ txt' \in {txt, deleted}
        /\ drop' = [drop EXCEPT ![d].at = "over"]
  /\ UNCHANGED <<zone, mixed, giftVars>>

MarkCleared(d) ==
  /\ drop[d].at = "update"
  /\ drop' = [e \in Calls |->
                IF e = d THEN [drop[d] EXCEPT !.at = "over"]
                ELSE IF drop[e].row = "published" THEN [drop[e] EXCEPT !.row = "cleared"] ELSE drop[e]]
  /\ UNCHANGED <<zone, txt, mixed, giftVars>>

DropKilled(d) ==
  /\ drop[d].at \in {"write", "insert", "clear", "update"}
  /\ drop' = [drop EXCEPT ![d].at = "over"]
  /\ UNCHANGED <<zone, txt, mixed, giftVars>>

(* purgeExpiredWhiteHoleDrops removes the row and leaves the records.       *)
PurgeDrop(d) ==
  /\ drop[d].row \in {"published", "cleared"}
  /\ drop' = [drop EXCEPT ![d].row = "purged"]
  /\ UNCHANGED <<zone, txt, mixed, giftVars>>

(* renderFetchScript: take the parts from ghost1 on until one is missing.   *)
FetchLength(z) == Cardinality({i \in Slots : \A j \in 1 .. i : txt[z][j] # NoTxt})
Fetched(z) == [i \in 1 .. FetchLength(z) |-> txt[z][i]]

-----------------------------------------------------------------------------
(* AI key donations *)

(* createDonation: the fingerprint is UNIQUE, row and ciphertext are one    *)
(* batch.                                                                   *)
Donate(k) ==
  /\ donation[k].status = "none"
  /\ donation' = [donation EXCEPT ![k] = [status |-> "pending", expired |-> FALSE]]
  /\ secret' = secret \union {k}
  /\ UNCHANGED <<withdrawing, purging, holeVars>>

(* setDonationStatus asks nothing of the row; rejecting erases.             *)
Review(k, status) ==
  /\ donation[k].status # "none"
  /\ donation' = [donation EXCEPT ![k].status = status]
  /\ secret' = IF status = "approved" THEN secret ELSE secret \ {k}
  /\ UNCHANGED <<withdrawing, purging, holeVars>>

(* withdrawDonation: the owner's row is read, then the batch erases.        *)
BeginWithdraw(k) ==
  /\ donation[k].status \notin {"none", "withdrawn"}
  /\ withdrawing' = withdrawing \union {k}
  /\ UNCHANGED <<donation, secret, purging, holeVars>>

\* Mutant: the row is flagged and the ciphertext stays.
FlagWithdrawn(k) ==
  /\ k \in withdrawing
  /\ withdrawing' = withdrawing \ {k}
  /\ donation' = [donation EXCEPT ![k].status = "withdrawn"]
  /\ UNCHANGED <<secret, purging, holeVars>>

Withdraw(k) ==
  /\ k \in withdrawing
  /\ withdrawing' = withdrawing \ {k}
  /\ secret' = secret \ {k}
  /\ donation' = [donation EXCEPT ![k].status = "withdrawn"]
  /\ UNCHANGED <<purging, holeVars>>

ExpireDonation(k) ==
  /\ donation[k].status # "none" /\ ~donation[k].expired
  /\ donation' = [donation EXCEPT ![k].expired = TRUE]
  /\ UNCHANGED <<secret, withdrawing, purging, holeVars>>

(* purgeExpiredDonations selects, then deletes ciphertext and row together; *)
(* a withdrawal that has read the row finds nothing to change afterwards.   *)
SelectPurge ==
  /\ purging = {}
  /\ purging' = {k \in Keys : donation[k].status # "none"
                              /\ (donation[k].expired \/ donation[k].status = "rejected")}
  /\ purging' # {}
  /\ UNCHANGED <<donation, secret, withdrawing, holeVars>>

Purge ==
  /\ purging # {}
  /\ secret' = secret \ purging
  /\ donation' = [k \in Keys |-> IF k \in purging THEN [status |-> "none", expired |-> FALSE] ELSE donation[k]]
  /\ purging' = {} /\ withdrawing' = withdrawing \ purging
  /\ UNCHANGED holeVars

HoleNext ==
  \/ \E z \in Zones : Reconnect(z)
  \/ \E d \in Calls : \/ Publish(d) \/ WriteRecord(d) \/ InsertDrop(d)
                      \/ Clear(d) \/ DeleteTxt(d) \/ MarkCleared(d)
                      \/ DropKilled(d) \/ PurgeDrop(d)

GiftNext ==
  \/ \E k \in Keys : \/ Donate(k) \/ BeginWithdraw(k) \/ Withdraw(k) \/ ExpireDonation(k)
                     \/ \E status \in {"approved", "rejected"} : Review(k, status)
  \/ SelectPurge \/ Purge

DropsNext == HoleNext \/ GiftNext
DropsSpec == DropsInit /\ [][DropsNext]_dropVars

-----------------------------------------------------------------------------
(* A ciphertext exists only beside a row that is pending or approved: a     *)
(* rejected, withdrawn, expired and purged donation leaves nothing behind,  *)
(* in whatever order donor, admin and cron come.                            *)
SecretErased == \A k \in secret : donation[k].status \in {"pending", "approved"}

(* A drop the list shows as published is in the zone's records, all of the  *)
(* shards it counts, unless another publish or clear of the zone began      *)
(* after it or was running with it.                                         *)
PublishedIsThere ==
  \A d \in Calls : drop[d].row = "published" /\ d \notin mixed
    => \A i \in 1 .. Shards(d) : txt[drop[d].zone][i] = [of |-> d, part |-> i]

(* "so a client inside Iran can read it": what fetch.sh puts together from  *)
(* the zone of a published drop is that drop, nothing missing and nothing   *)
(* of another one after it.                                                 *)
ReaderDecodes ==
  \A d \in Calls : drop[d].row = "published" /\ d \notin mixed
    => Fetched(drop[d].zone) = [i \in 1 .. drop[d].size |-> [of |-> d, part |-> i]]
=============================================================================
