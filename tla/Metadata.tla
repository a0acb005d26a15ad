-------------------------------- MODULE Metadata --------------------------------
(***************************************************************************)
(* The metadata of a subscription: a bounded list of keys, and one storage *)
(* entry per key with its value.  A key or value of a size that is refused *)
(* changes nothing, so MetaKeys and MetaValues are those of a valid size.  *)
(***************************************************************************)
EXTENDS PlanTemplates

CONSTANTS MetaKeys, MetaValues, MAX_METADATA_KEYS

ASSUME MetadataAssumption == MAX_METADATA_KEYS \in Nat

VARIABLES
  metaKeys,   \* ("mk", id)
  metaValues  \* ("mv", id, key): the entries of id, by key

metaVars == <<metaKeys, metaValues>>

MetaInit ==
  /\ metaKeys = [id \in 1 .. MaxSubs |-> << >>]
  /\ metaValues = [id \in 1 .. MaxSubs |-> << >>]

Keys(id) == {metaKeys[id][i] : i \in DOMAIN metaKeys[id]}

\* Without looking for the key in the list.
WithKeyAgain(id, key) == Append(metaKeys[id], key)

WithKey(id, key) ==
  IF key \in Keys(id) THEN metaKeys[id] ELSE Append(metaKeys[id], key)

\* By the subscriber or the merchant, unless the subscription is cancelled; an
\* archived one takes metadata again.
SetMetadata(id, key, value) ==
  /\ id \in DOMAIN subs /\ subs[id].stage # "cancelled"
  /\ key \notin Keys(id) => Len(metaKeys[id]) < MAX_METADATA_KEYS
  /\ metaKeys' = [metaKeys EXCEPT ![id] = WithKey(id, key)]
  /\ metaValues' = [metaValues EXCEPT ![id] =
       [k \in DOMAIN @ \cup {key} |-> IF k = key THEN value ELSE @[k]]]
  /\ UNCHANGED planVars

\* The first occurrence of the key is taken out.
WithoutKey(ks, key) ==
  LET i == CHOOSE i \in DOMAIN ks :
             ks[i] = key /\ \A j \in 1 .. (i - 1) : ks[j] # key
  IN  SubSeq(ks, 1, i - 1) \o SubSeq(ks, i + 1, Len(ks))

\* By the same two, in any status.
DeleteMetadata(id, key) ==
  /\ id \in DOMAIN subs
  /\ key \in Keys(id)
  /\ metaKeys' = [metaKeys EXCEPT ![id] = WithoutKey(@, key)]
  /\ metaValues' = [metaValues EXCEPT ![id] =
       [k \in DOMAIN @ \ {key} |-> @[k]]]
  /\ UNCHANGED planVars

MetaNext ==
  \E id \in 1 .. MaxSubs, key \in MetaKeys :
    \/ \E value \in MetaValues : SetMetadata(id, key, value)
    \/ DeleteMetadata(id, key)

\* With the catalog, which leaves the metadata alone.
MetaSpec ==
  /\ PInit /\ MetaInit
  /\ [][MetaNext \/ (PNext /\ UNCHANGED metaVars)]_<<planVars, metaVars>>

(***************************************************************************)
(* The key list and the value entries, which are stored apart, agree: each *)
(* listed key has a value, no entry is left behind without a listed key,   *)
(* and the list never outgrows its limit, over any sequence of sets,       *)
(* overwrites and deletes.                                                 *)
(***************************************************************************)
MetadataConsistent ==
  \A id \in 1 .. MaxSubs :
    /\ DOMAIN metaValues[id] = Keys(id)
    /\ Len(metaKeys[id]) <= MAX_METADATA_KEYS
    /\ \A i, j \in DOMAIN metaKeys[id] :
         metaKeys[id][i] = metaKeys[id][j] => i = j
===============================================================================
