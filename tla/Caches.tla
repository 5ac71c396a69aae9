------------------------------- MODULE Caches -------------------------------
(***************************************************************************)
(* Cache and CacheService over the two strategies: a Map in memory, or the *)
(* tables of the DefaultCachePlugin.  A get that misses computes the value *)
(* and sets it; whoever changes the data then invalidates the tags.        *)
(***************************************************************************)
EXTENDS Naturals, FiniteSets

CONSTANTS
    Keys,           \* keys of one Cache, all with the same tag
    CacheUsers,     \* overlapping get()s
    CacheSize,      \* items the strategy keeps
    DeleteBatch,    \* items one DELETE removes
    MaxDataChanges  \* bound: changes of the data behind the values

ASSUME CacheAssumption == {CacheSize, DeleteBatch, MaxDataChanges} \subseteq Nat \ {0}

VARIABLES
    inSql,         \* the strategy is SqlCacheStrategy
    data,          \* the version of the data that values are made from
    items,         \* items[k]: the version of the cached value
    tagged,        \* items with a row, or an entry, for the tag
    user,          \* user[u]: a get() that missed
    invalidating,  \* invalidateTags after a change: "no", "due", "found"
    found,         \* the items its SELECT found
    doubt          \* history: keys a get() of which overlapped a change or an
                   \* invalidation, that lost their tag, or that were too many

cacheVars == <<inSql, data, items, tagged, user, invalidating, found, doubt>>

Missed == [at |-> "idle"]

CacheTypeOK ==
    /\ inSql \in BOOLEAN
    /\ data \in 0 .. MaxDataChanges
    /\ DOMAIN items \subseteq Keys /\ \A k \in DOMAIN items : items[k] \in 0 .. data
    /\ inSql => tagged \subseteq DOMAIN items
    /\ tagged \subseteq Keys /\ doubt \subseteq Keys /\ found \subseteq Keys
    /\ invalidating \in {"no", "due", "found"}
    /\ \A u \in CacheUsers : user[u].at \in {"idle", "computed", "upserted"}

CacheInit ==
    /\ inSql \in BOOLEAN
    /\ data = 0
    /\ items = [k \in {} |-> 0] /\ tagged = {}
    /\ user = [u \in CacheUsers |-> Missed]
    /\ invalidating = "no" /\ found = {} /\ doubt = {}

-----------------------------------------------------------------------------
Keep(ks) == items' = [k \in DOMAIN items \cap ks |-> items[k]]

DropItems_TagsStay(ks) == Keep(Keys \ ks) /\ UNCHANGED tagged

\* In memory a key that is deleted stays among those of its tag.
DropItems(ks) ==
    /\ Keep(Keys \ ks)
    /\ tagged' = IF inSql THEN tagged \ ks ELSE tagged

\* get: a miss, with the value made from the data of now.
GetMisses(u, k) ==
    /\ user[u] = Missed /\ k \notin DOMAIN items
    /\ user' = [user EXCEPT ![u] = [at |-> "computed", key |-> k, value |-> data]]
    /\ doubt' = IF invalidating = "no" THEN doubt ELSE doubt \cup {k}
    /\ UNCHANGED <<inSql, data, items, tagged, invalidating, found>>

\* An item expires, is deleted or is removed from the outside.
ItemGoes ==
    /\ \E k \in DOMAIN items : DropItems({k})
    /\ UNCHANGED <<inSql, data, user, invalidating, found, doubt>>

With(k, v) == [j \in DOMAIN items \cup {k} |-> IF j = k THEN v ELSE items[j]]

\* set: the item, and in memory its tag with it.  A full cache gives one up
\* first, in the tables also when the key is there.
SetItem(u) ==
    LET k == user[u].key
        full == Cardinality(DOMAIN items) >= CacheSize /\ (inSql \/ k \notin DOMAIN items)
    IN
    /\ user[u].at = "computed"
    /\ \E out \in IF full THEN {{j} : j \in DOMAIN items} ELSE {{}} :
          /\ items' = [j \in (DOMAIN items \ out) \cup {k} |-> With(k, user[u].value)[j]]
          /\ tagged' = IF inSql THEN tagged \ out ELSE tagged \cup {k}
    /\ user' = [user EXCEPT ![u] = IF inSql THEN [@ EXCEPT !.at = "upserted"] ELSE Missed]
    /\ UNCHANGED <<inSql, data, invalidating, found, doubt>>

\* The row of the tag; an error, as when the item is gone, is logged.
SetTag(u) ==
    LET k == user[u].key IN
    /\ user[u].at = "upserted"
    /\ \/ tagged' = tagged \cup ({k} \cap DOMAIN items) /\ UNCHANGED doubt
       \/ doubt' = doubt \cup {k} /\ UNCHANGED tagged
    /\ user' = [user EXCEPT ![u] = Missed]
    /\ UNCHANGED <<inSql, data, items, invalidating, found>>

InProgress == {user[u].key : u \in {w \in CacheUsers : user[w] # Missed}}

ChangeData ==
    /\ data < MaxDataChanges /\ invalidating = "no"
    /\ data' = data + 1
    /\ invalidating' = "due"
    /\ doubt' = doubt \cup InProgress
    /\ UNCHANGED <<inSql, items, tagged, user, found>>

\* invalidateTags in memory, in one go.
Untagged_All == Keys
Untagged == Keys \ tagged

InvalidateInMemory ==
    /\ ~inSql /\ invalidating = "due"
    /\ Keep(Untagged) /\ tagged' = {}
    /\ invalidating' = "no"
    /\ UNCHANGED <<inSql, data, user, found, doubt>>

\* In the tables: the items are looked up, ...
FindTagged ==
    /\ inSql /\ invalidating = "due"
    /\ found' = tagged
    /\ invalidating' = "found"
    /\ UNCHANGED <<inSql, data, items, tagged, user, doubt>>

\* ids.slice(i, batchSize) is the first batch, then nothing, and DELETE of
\* nothing is an error that is logged.
FirstBatch(ids) ==
    {b \in SUBSET ids : \/ Cardinality(b) = DeleteBatch
                        \/ b = ids /\ Cardinality(b) < DeleteBatch}

\* ... then all rows of the tag and the first batch of items are deleted.
DeleteTagged ==
    /\ invalidating = "found"
    /\ \E batch \in FirstBatch(found) \cup {{}} :
          /\ Keep(Keys \ batch)
          /\ doubt' = doubt \cup (found \ batch)
    /\ tagged' = {}
    /\ invalidating' = "no" /\ found' = {}
    /\ UNCHANGED <<inSql, data, user>>

CacheNext ==
    \/ \E u \in CacheUsers : \/ \E k \in Keys : GetMisses(u, k)
                             \/ SetItem(u) \/ SetTag(u)
    \/ ItemGoes \/ ChangeData \/ InvalidateInMemory \/ FindTagged \/ DeleteTagged

-----------------------------------------------------------------------------
\* A cached value is made from the data of now, or the invalidation is still to
\* come: unless a get() of the key had missed before the change or before the
\* invalidation was over, a statement failed with its error logged, or more
\* items than one batch had the tag.
CachedIsCurrent ==
    invalidating = "no" => \A k \in DOMAIN items \ doubt : items[k] = data
=============================================================================
