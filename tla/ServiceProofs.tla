---------------------------- MODULE ServiceProofs ----------------------------
(***************************************************************************)
(* The services beside the job queue, for every size of their constants:   *)
(* settled entries form chains that add up, and to the total while no two  *)
(* settlements overlap; cached values are current; assets keep their own   *)
(* files; a superadmin remains; tokens set the address they were sent to;  *)
(* every walk up the tree of collections ends, and its members follow the  *)
(* filters in force.  Each of them keeps its types, and what holds of one  *)
(* of them holds of all of them together.                                  *)
(***************************************************************************)
EXTENDS MCServices, HandlerProofs, WellFoundedInduction

USE LedgerAssumption

LedgerSpec == LedgerInit /\ [][LedgerNext]_ledgerVars

EntryType == [at : {"none", "new", "pending", "settled"}, amount : Int, balance : Int,
              settledAt : -1 .. MaxClock, prev : Reading]
SettlingType == [on : BOOLEAN, prev : Reading, since : 0 .. MaxClock]

\* What a settlement may continue: nothing, or what a settled entry shows.
Shown(p) == p = Null \/ \E f \in Settled : /\ entry[f].settledAt = p.settledAt
                                           /\ entry[f].balance = p.balance

\* An entry that is being settled is not settled yet, and the one it continues
\* still shows what was read of it.
SettlingIsSound ==
    \A e \in Entries : settling[e].on => entry[e].at = "new" /\ Shown(settling[e].prev)

LedgerInv == LedgerTypeOK /\ SettlingIsSound /\ ChainAddsUp

-----------------------------------------------------------------------------
LEMMA NullTypes == Null \in Reading /\ NoEntry \in EntryType /\ NotSettling \in SettlingType
<1>1. Null \in Reading
    BY DEF Null, Reading
<1> QED
    BY <1>1 DEF NoEntry, NotSettling, EntryType, SettlingType

LEMMA InitLedger == LedgerInit => LedgerInv
<1> SUFFICES ASSUME LedgerInit PROVE LedgerInv
    OBVIOUS
<1>1. NoEntry \in EntryType /\ NotSettling \in SettlingType
    BY NullTypes
<1>2. LedgerTypeOK
  <2>1. entry \in [Entries -> EntryType] /\ settling \in [Entries -> SettlingType]
      BY <1>1 DEF LedgerInit
  <2>2. clock \in 0 .. MaxClock
      BY DEF LedgerInit
  <2>3. overlapped \in BOOLEAN
      BY DEF LedgerInit
  <2> QED
      BY <2>1, <2>2, <2>3 DEF LedgerTypeOK, EntryType, SettlingType
<1>3. SettlingIsSound /\ ChainAddsUp
    BY DEF LedgerInit, SettlingIsSound, ChainAddsUp, Settled, NoEntry, NotSettling
<1> QED
    BY <1>2, <1>3 DEF LedgerInv

\* What is settled does not change, so what is shown stays shown.
LEMMA ShownStays ==
    ASSUME NEW p, Shown(p),
           \A f \in Settled : f \in Settled' /\ entry'[f] = entry[f]
    PROVE  Shown(p)'
BY DEF Shown

LEMMA PreviousIsShown ==
    ASSUME LedgerTypeOK, NEW p \in Previous
    PROVE  p \in Reading /\ Shown(p)
<1>1. CASE Latest = {}
    BY <1>1 DEF Previous, Reading, Null, Shown, LedgerTypeOK
<1>2. CASE Latest # {}
  <2>1. PICK f \in Latest : p = [balance |-> entry[f].balance, settledAt |-> entry[f].settledAt]
      BY <1>2 DEF Previous
  <2>2. f \in Settled /\ f \in Entries
      BY <2>1 DEF Latest, Settled
  <2>3. entry[f].balance \in Int /\ entry[f].settledAt \in -1 .. MaxClock
      BY <2>2 DEF LedgerTypeOK
  <2> QED
      BY <2>1, <2>2, <2>3 DEF Reading, Shown
<1> QED
    BY <1>1, <1>2

\* A step that settles nothing.
LEMMA UnsettledStep ==
    ASSUME LedgerInv, LedgerTypeOK',
           Settled' = Settled, \A f \in Settled : entry'[f] = entry[f]
    PROVE  ChainAddsUp'
<1>1. ASSUME NEW e \in Settled'
      PROVE  LET p == entry'[e].prev IN
             /\ p.settledAt < entry'[e].settledAt
             /\ entry'[e].balance = p.balance + entry'[e].amount
             /\ p # Null => \E f \in Settled' : /\ entry'[f].settledAt = p.settledAt
                                                /\ entry'[f].balance = p.balance
    BY <1>1 DEF LedgerInv, ChainAddsUp
<1> QED
    BY <1>1 DEF ChainAddsUp

-----------------------------------------------------------------------------
LEMMA CreateKeeps ==
    ASSUME LedgerInv, NEW e \in Entries, CreateEntry(e)
    PROVE  LedgerInv'
<1>1. PICK a \in Amounts, at \in {"new", "pending"} :
         entry' = [entry EXCEPT ![e].at = at, ![e].amount = a]
    BY DEF CreateEntry
<1> DEFINE new == [entry[e] EXCEPT !.at = at, !.amount = a]
<1>0. new \in EntryType /\ entry' = [entry EXCEPT ![e] = new]
    BY <1>1 DEF LedgerInv, LedgerTypeOK, EntryType
<1> HIDE DEF new
<1>2. LedgerTypeOK'
    BY <1>0 DEF CreateEntry, LedgerInv, LedgerTypeOK, EntryType
<1>3. Settled' = Settled /\ \A f \in Settled : entry'[f] = entry[f]
    BY <1>1 DEF CreateEntry, Settled, LedgerInv, LedgerTypeOK
<1>4. SettlingIsSound'
    BY <1>1, <1>3, ShownStays DEF CreateEntry, SettlingIsSound, LedgerInv, LedgerTypeOK
<1> QED
    BY <1>2, <1>3, <1>4, UnsettledStep DEF LedgerInv

LEMMA BeginKeeps ==
    ASSUME LedgerInv, NEW e \in Entries, BeginSettlement(e)
    PROVE  LedgerInv'
<1>1. PICK p \in Previous :
         settling' = [settling EXCEPT ![e] = [on |-> TRUE, prev |-> p, since |-> clock]]
    BY DEF BeginSettlement
<1>2. p \in Reading /\ Shown(p)
    BY PreviousIsShown DEF LedgerInv
<1>3. LedgerTypeOK'
    BY <1>1, <1>2 DEF BeginSettlement, LedgerInv, LedgerTypeOK
<1>4. Settled' = Settled /\ \A f \in Settled : entry'[f] = entry[f]
    BY DEF BeginSettlement, Settled
<1>5. SettlingIsSound'
    BY <1>1, <1>2, <1>4, ShownStays
       DEF BeginSettlement, SettlingIsSound, LedgerInv, LedgerTypeOK
<1> QED
    BY <1>3, <1>4, <1>5, UnsettledStep DEF LedgerInv

LEMMA FailKeeps ==
    ASSUME LedgerInv, NEW e \in Entries, SettlementFails(e)
    PROVE  LedgerInv'
<1> DEFINE failed == [entry[e] EXCEPT !.at = "pending"]
<1>0. failed \in EntryType /\ entry' = [entry EXCEPT ![e] = failed]
    BY DEF SettlementFails, LedgerInv, LedgerTypeOK, EntryType
<1> HIDE DEF failed
<1>1. LedgerTypeOK'
    BY SMTT(30), <1>0, NullTypes
       DEF SettlementFails, LedgerInv, LedgerTypeOK, EntryType, SettlingType
<1>2. Settled' = Settled /\ \A f \in Settled : entry'[f] = entry[f]
    BY DEF SettlementFails, Settled, LedgerInv, LedgerTypeOK
<1>3. SettlingIsSound'
    BY <1>2, ShownStays
       DEF SettlementFails, SettlingIsSound, LedgerInv, LedgerTypeOK, NotSettling
<1> QED
    BY <1>1, <1>2, <1>3, UnsettledStep DEF LedgerInv

\* The entry joins the chain behind the one it has read.
LEMMA CommitKeeps ==
    ASSUME LedgerInv, NEW e \in Entries, CommitSettlement(e)
    PROVE  LedgerInv'
<1>0. PICK p : p = settling[e].prev
    OBVIOUS
<1>1. PICK now \in settling[e].since .. clock :
         /\ p.settledAt < now
         /\ entry' = [entry EXCEPT ![e].at = "settled", ![e].prev = p,
                                   ![e].balance = p.balance + entry[e].amount,
                                   ![e].settledAt = now]
    BY <1>0 DEF CommitSettlement, InOrder
<1>2. settling[e].on /\ settling' = [settling EXCEPT ![e] = NotSettling]
    BY DEF CommitSettlement
<1>3. entry[e].at = "new" /\ Shown(p)
    BY <1>0, <1>2 DEF LedgerInv, SettlingIsSound
<1>4. p \in Reading /\ now \in -1 .. MaxClock /\ entry[e] \in EntryType
    BY <1>0, <1>1 DEF LedgerInv, LedgerTypeOK, EntryType
<1>5. /\ entry'[e] = [at |-> "settled", amount |-> entry[e].amount,
                      balance |-> p.balance + entry[e].amount, settledAt |-> now, prev |-> p]
      /\ \A f \in Entries \ {e} : entry'[f] = entry[f]
    BY <1>1, <1>4 DEF LedgerInv, LedgerTypeOK, EntryType
<1>6. LedgerTypeOK'
    BY <1>1, <1>2, <1>4, <1>5
       DEF CommitSettlement, LedgerInv, LedgerTypeOK, NotSettling, Null, Reading, EntryType
<1>7. \A f \in Settled : f \in Settled' /\ entry'[f] = entry[f]
    BY <1>3, <1>5 DEF Settled
<1>8. SettlingIsSound'
    BY <1>2, <1>5, <1>7, ShownStays
       DEF SettlingIsSound, LedgerInv, LedgerTypeOK, NotSettling
<1>9. ASSUME NEW g \in Settled'
      PROVE  LET q == entry'[g].prev IN
             /\ q.settledAt < entry'[g].settledAt
             /\ entry'[g].balance = q.balance + entry'[g].amount
             /\ q # Null => \E f \in Settled' : /\ entry'[f].settledAt = q.settledAt
                                                /\ entry'[f].balance = q.balance
  <2>1. CASE g = e
    <3>1. entry'[g].prev = p
        BY <2>1, <1>5
    <3>2. Shown(p)'
        BY <1>3, <1>7, ShownStays
    <3>3. /\ p.settledAt < entry'[g].settledAt
          /\ entry'[g].balance = p.balance + entry'[g].amount
        BY <2>1, <1>1, <1>5
    <3>4. p # Null => \E f \in Settled' : /\ entry'[f].settledAt = p.settledAt
                                         /\ entry'[f].balance = p.balance
        BY <3>2 DEF Shown
    <3> QED
        BY <3>1, <3>3, <3>4
  <2>2. CASE g # e
    <3>1. g \in Settled /\ entry'[g] = entry[g]
        BY <2>2, <1>5 DEF Settled
    <3>2. /\ entry[g].prev.settledAt < entry[g].settledAt
          /\ entry[g].balance = entry[g].prev.balance + entry[g].amount
          /\ entry[g].prev # Null => Shown(entry[g].prev)
        BY <3>1 DEF LedgerInv, ChainAddsUp, Shown
    <3> QED
        BY <3>1, <3>2, <1>7 DEF Shown
  <2> QED
      BY <2>1, <2>2
<1> QED
    BY <1>6, <1>8, <1>9 DEF LedgerInv, ChainAddsUp

LEMMA TickKeeps ==
    ASSUME LedgerInv, ClockTicks
    PROVE  LedgerInv'
<1>1. LedgerTypeOK'
    BY DEF ClockTicks, LedgerInv, LedgerTypeOK
<1>2. SettlingIsSound' /\ ChainAddsUp'
    BY DEF ClockTicks, LedgerInv, SettlingIsSound, ChainAddsUp, Shown, Settled
<1> QED
    BY <1>1, <1>2 DEF LedgerInv

LEMMA LedgerStep ==
    ASSUME LedgerInv, [LedgerNext]_ledgerVars
    PROVE  LedgerInv'
<1>1. CASE LedgerNext
    BY <1>1, CreateKeeps, BeginKeeps, FailKeeps, CommitKeeps, TickKeeps DEF LedgerNext
<1>2. CASE UNCHANGED ledgerVars
    BY <1>2 DEF ledgerVars, LedgerInv, LedgerTypeOK, SettlingIsSound, ChainAddsUp,
                Shown, Settled
<1> QED
    BY <1>1, <1>2

LEMMA LedgerInvariance == LedgerSpec => []LedgerInv
BY InitLedger, LedgerStep, PTL DEF LedgerSpec

\* BalanceService: the rows keep their types.
THEOREM LedgerTypeCorrect == LedgerSpec => []LedgerTypeOK
BY LedgerInvariance, PTL DEF LedgerInv

\* trySettleBalance: however many settlements overlap, and although nothing is
\* locked between the SELECT of the latest entry and the UPDATE, a settled entry
\* continues one that is settled and earlier, and its balance adds up.
THEOREM LedgerAddsUp == LedgerSpec => []ChainAddsUp
BY LedgerInvariance, PTL DEF LedgerInv

-----------------------------------------------------------------------------
(***************************************************************************)
(* Caches: for every set of keys and of overlapping get()s, and every size *)
(* of the cache and of the batches, in memory and in the tables.           *)
(***************************************************************************)
CacheSpec == CacheInit /\ [][CacheNext]_cacheVars

UserType == [at : {"idle"}] \cup [at : {"computed", "upserted"}, key : Keys, value : Nat]

CacheTyped ==
    /\ CacheTypeOK
    /\ items \in [DOMAIN items -> Nat]
    /\ user \in [CacheUsers -> UserType]
    /\ \A u \in CacheUsers : user[u].at # "idle" => user[u].value \in 0 .. data
    /\ invalidating = "found" => inSql

\* A get() that has missed and whose key is not in doubt met no change of the
\* data and no invalidation.
ComputedIsCurrent ==
    \A u \in CacheUsers :
       user[u].at # "idle" /\ user[u].key \notin doubt =>
          user[u].value = data /\ invalidating = "no"

\* An item that is not in doubt is reached by an invalidation: by its tag, which
\* in the tables may be about to be written, or because it was found already.
ItemsAreReached ==
    /\ ~inSql => DOMAIN items \subseteq tagged
    /\ inSql => \A k \in DOMAIN items \ (doubt \cup tagged) :
                   \E u \in CacheUsers : user[u].at = "upserted" /\ user[u].key = k
    /\ invalidating = "found" => DOMAIN items \subseteq doubt \cup found

CacheInv == CacheTyped /\ ComputedIsCurrent /\ ItemsAreReached /\ CachedIsCurrent

-----------------------------------------------------------------------------
LEMMA MissedIsIdle ==
    ASSUME NEW m \in UserType
    PROVE  /\ m = Missed <=> m.at = "idle"
           /\ m # Missed => m \in [at : {"computed", "upserted"}, key : Keys, value : Nat]
BY DEF UserType, Missed

LEMMA InitCache == CacheInit => CacheInv
<1> SUFFICES ASSUME CacheInit PROVE CacheInv
    OBVIOUS
<1>1. Missed \in UserType /\ Missed.at = "idle"
    BY DEF UserType, Missed
<1>2. user \in [CacheUsers -> UserType] /\ \A u \in CacheUsers : user[u].at = "idle"
    BY <1>1 DEF CacheInit
<1>3. DOMAIN items = {} /\ items \in [DOMAIN items -> Nat]
    BY DEF CacheInit
<1>4. CacheTypeOK
    BY <1>2, <1>3, CacheAssumption DEF CacheInit, CacheTypeOK
<1> QED
    BY <1>2, <1>3, <1>4 DEF CacheInit, CacheInv, CacheTyped, ComputedIsCurrent,
                            ItemsAreReached, CachedIsCurrent

\* What is kept of the items is what they were.
LEMMA KeptItems ==
    ASSUME CacheInv, NEW ks, Keep(ks)
    PROVE  /\ DOMAIN items' = DOMAIN items \cap ks
           /\ items' \in [DOMAIN items' -> Nat]
           /\ \A k \in DOMAIN items' : items'[k] = items[k] /\ items'[k] \in 0 .. data
BY DEF Keep, CacheInv, CacheTyped, CacheTypeOK

LEMMA GetMissesKeeps ==
    ASSUME CacheInv, NEW u \in CacheUsers, NEW k \in Keys, GetMisses(u, k)
    PROVE  CacheInv'
<1> USE DEF CacheInv, CacheTyped, CacheTypeOK
<1>1. data \in Nat
    BY CacheAssumption
<1>2. user'[u] = [at |-> "computed", key |-> k, value |-> data]
    BY DEF GetMisses
<1>3. \A w \in CacheUsers \ {u} : user'[w] = user[w]
    BY DEF GetMisses
<1>4. user' \in [CacheUsers -> UserType]
    BY <1>1 DEF GetMisses, UserType
<1>5. \A w \in CacheUsers : user'[w].at \in {"idle", "computed", "upserted"}
    BY <1>2, <1>3
<1>6. user[u].at # "upserted"
    BY DEF GetMisses, Missed
<1>7. CacheTyped'
    BY <1>4, <1>5 DEF GetMisses
<1>8. ComputedIsCurrent'
    BY <1>2, <1>3 DEF GetMisses, ComputedIsCurrent
<1>9. ItemsAreReached'
    BY <1>2, <1>3, <1>6 DEF GetMisses, ItemsAreReached
<1>10. CachedIsCurrent'
    BY DEF GetMisses, CachedIsCurrent
<1> QED
    BY <1>7, <1>8, <1>9, <1>10

LEMMA ItemGoesKeeps ==
    ASSUME CacheInv, ItemGoes
    PROVE  CacheInv'
<1> USE DEF CacheInv, CacheTyped, CacheTypeOK
<1>1. PICK k \in DOMAIN items : DropItems({k})
    BY DEF ItemGoes
<1>2. /\ DOMAIN items' = DOMAIN items \ {k}
      /\ items' \in [DOMAIN items' -> Nat]
      /\ \A j \in DOMAIN items' : items'[j] = items[j] /\ items'[j] \in 0 .. data
  <2>1. Keep(Keys \ {k})
      BY <1>1 DEF DropItems
  <2>2. /\ DOMAIN items' = DOMAIN items \cap (Keys \ {k})
        /\ items' \in [DOMAIN items' -> Nat]
        /\ \A j \in DOMAIN items' : items'[j] = items[j] /\ items'[j] \in 0 .. data
      BY <2>1, KeptItems
  <2> QED
      BY <2>2
<1>3. tagged' = IF inSql THEN tagged \ {k} ELSE tagged
    BY <1>1 DEF DropItems
<1>4. UNCHANGED <<inSql, data, user, invalidating, found, doubt>>
    BY DEF ItemGoes
<1>5. CacheTyped'
    BY <1>2, <1>3, <1>4
<1>6. ComputedIsCurrent'
    BY <1>4 DEF ComputedIsCurrent
<1>7. ItemsAreReached'
    BY <1>2, <1>3, <1>4 DEF ItemsAreReached
<1>8. CachedIsCurrent'
    BY <1>2, <1>4 DEF CachedIsCurrent
<1> QED
    BY <1>5, <1>6, <1>7, <1>8

\* What is written is current or in doubt, and gets its tag at once or next.
LEMMA SetItemKeeps ==
    ASSUME CacheInv, NEW u \in CacheUsers, SetItem(u)
    PROVE  CacheInv'
<1> USE DEF CacheInv, CacheTyped, CacheTypeOK
<1> DEFINE k == user[u].key
           v == user[u].value
           me == user'[u]
<1>1. user[u] \in [at : {"computed", "upserted"}, key : Keys, value : Nat]
    BY MissedIsIdle DEF SetItem, Missed
<1>2. user[u].at = "computed" /\ k \in Keys /\ v \in Nat
    BY <1>1 DEF SetItem
<1>3. PICK out \in SUBSET DOMAIN items :
         /\ items' = [j \in (DOMAIN items \ out) \cup {k} |-> With(k, v)[j]]
         /\ tagged' = IF inSql THEN tagged \ out ELSE tagged \cup {k}
  <2> DEFINE full == /\ Cardinality(DOMAIN items) >= CacheSize
                     /\ inSql \/ k \notin DOMAIN items
  <2>1. PICK out \in IF full THEN {{j} : j \in DOMAIN items} ELSE {{}} :
           /\ items' = [j \in (DOMAIN items \ out) \cup {k} |-> With(k, v)[j]]
           /\ tagged' = IF inSql THEN tagged \ out ELSE tagged \cup {k}
      BY DEF SetItem
  <2> HIDE DEF full
  <2>2. out \in SUBSET DOMAIN items
      BY <2>1
  <2> QED
      BY <2>1, <2>2
<1>4. /\ UNCHANGED <<inSql, data, invalidating, found, doubt>>
      /\ user' = [user EXCEPT ![u] = IF inSql THEN [@ EXCEPT !.at = "upserted"] ELSE Missed]
    BY DEF SetItem
<1>5. DOMAIN items' = (DOMAIN items \ out) \cup {k}
    BY <1>3
<1>6. items'[k] = v /\ \A j \in DOMAIN items' \ {k} : items'[j] = items[j]
    BY <1>3, <1>5 DEF With
<1>7. me = (IF inSql THEN [at |-> "upserted", key |-> k, value |-> v] ELSE [at |-> "idle"])
    BY <1>1, <1>4 DEF Missed
<1>8. \A w \in CacheUsers \ {u} : user'[w] = user[w]
    BY <1>4
<1>9. me \in UserType /\ me.at \in {"idle", "upserted"}
    BY <1>2, <1>7 DEF UserType
<1>10. user' \in [CacheUsers -> UserType]
    BY <1>4, <1>9
<1>11. k \notin doubt => v = data /\ invalidating = "no"
    BY <1>2 DEF ComputedIsCurrent
<1>12. v \in 0 .. data
    BY <1>2
<1>13. CacheTyped'
  <2>1. DOMAIN items' \subseteq Keys /\ \A j \in DOMAIN items' : items'[j] \in 0 .. data
      BY <1>2, <1>5, <1>6, <1>12
  <2>2. items' \in [DOMAIN items' -> Nat]
    <3>1. items' = [j \in DOMAIN items' |-> items'[j]]
        BY <1>3
    <3>2. \A j \in DOMAIN items' : items'[j] \in Nat
        BY <1>6, <2>1
    <3> QED
        BY <3>1, <3>2
  <2>3. inSql => tagged' \subseteq DOMAIN items'
      BY <1>3, <1>5
  <2>4. tagged' \subseteq Keys
      BY <1>2, <1>3
  <2>5. \A w \in CacheUsers : user'[w].at \in {"idle", "computed", "upserted"}
      BY <1>8, <1>9
  <2>6. \A w \in CacheUsers : user'[w].at # "idle" => user'[w].value \in 0 .. data
      BY <1>7, <1>8, <1>12
  <2> QED
      BY <1>4, <1>10, <2>1, <2>2, <2>3, <2>4, <2>5, <2>6
<1>14. ComputedIsCurrent'
    BY <1>4, <1>7, <1>8, <1>11 DEF ComputedIsCurrent
<1>15. ItemsAreReached'
  <2>1. ~inSql => DOMAIN items' \subseteq tagged'
      BY <1>3, <1>5 DEF ItemsAreReached
  <2>2. ASSUME inSql, NEW j \in DOMAIN items' \ (doubt \cup tagged')
        PROVE  \E w \in CacheUsers : user'[w].at = "upserted" /\ user'[w].key = j
    <3>1. CASE j = k
        BY <1>7, <2>2, <3>1
    <3>2. CASE j # k
      <4>1. j \in DOMAIN items \ (doubt \cup tagged)
          BY <1>3, <1>5, <2>2, <3>2
      <4>2. PICK w \in CacheUsers : user[w].at = "upserted" /\ user[w].key = j
          BY <2>2, <4>1 DEF ItemsAreReached
      <4> QED
          BY <1>2, <1>8, <4>2
    <3> QED
        BY <3>1, <3>2
  <2>3. invalidating = "found" => DOMAIN items' \subseteq doubt \cup found
      BY <1>5, <1>11 DEF ItemsAreReached
  <2> QED
      BY <1>4, <2>1, <2>2, <2>3 DEF ItemsAreReached
<1>16. CachedIsCurrent'
    BY <1>4, <1>5, <1>6, <1>11 DEF CachedIsCurrent
<1> QED
    BY <1>13, <1>14, <1>15, <1>16

LEMMA SetTagKeeps ==
    ASSUME CacheInv, NEW u \in CacheUsers, SetTag(u)
    PROVE  CacheInv'
<1> USE DEF CacheInv, CacheTyped, CacheTypeOK
<1> DEFINE k == user[u].key
<1>1. user[u].at = "upserted" /\ k \in Keys
    BY MissedIsIdle DEF SetTag, Missed
<1>2. \/ tagged' = tagged \cup ({k} \cap DOMAIN items) /\ UNCHANGED doubt
      \/ doubt' = doubt \cup {k} /\ UNCHANGED tagged
    BY DEF SetTag
<1>3. /\ UNCHANGED <<inSql, data, items, invalidating, found>>
      /\ user' = [user EXCEPT ![u] = Missed]
    BY DEF SetTag
<1>4. user'[u].at = "idle" /\ \A w \in CacheUsers \ {u} : user'[w] = user[w]
    BY <1>3 DEF Missed
<1>5. user' \in [CacheUsers -> UserType]
    BY <1>3 DEF UserType, Missed
<1>6. CacheTyped'
    BY <1>1, <1>2, <1>3, <1>4, <1>5
<1>7. ComputedIsCurrent'
    BY <1>2, <1>3, <1>4 DEF ComputedIsCurrent
<1>8. ItemsAreReached'
  <2>1. ASSUME inSql, NEW j \in DOMAIN items \ (doubt' \cup tagged')
        PROVE  \E w \in CacheUsers : user'[w].at = "upserted" /\ user'[w].key = j
    <3>1. j # k /\ j \in DOMAIN items \ (doubt \cup tagged)
        BY <1>2, <2>1
    <3>2. PICK w \in CacheUsers : user[w].at = "upserted" /\ user[w].key = j
        BY <2>1, <3>1 DEF ItemsAreReached
    <3> QED
        BY <1>4, <3>1, <3>2
  <2> QED
      BY <1>2, <1>3, <2>1 DEF ItemsAreReached
<1>9. CachedIsCurrent'
    BY <1>2, <1>3 DEF CachedIsCurrent
<1> QED
    BY <1>6, <1>7, <1>8, <1>9

\* A change of the data puts in doubt what is being computed; what it leaves out
\* of doubt is reached by the invalidation that is due.
LEMMA ChangeDataKeeps ==
    ASSUME CacheInv, ChangeData
    PROVE  CacheInv'
<1> USE DEF CacheInv, CacheTyped, CacheTypeOK
<1>1. /\ data < MaxDataChanges /\ data' = data + 1 /\ invalidating' = "due"
      /\ doubt' = doubt \cup InProgress
      /\ UNCHANGED <<inSql, items, tagged, user, found>>
    BY DEF ChangeData
<1>2. \A u \in CacheUsers : user[u].at # "idle" => user[u].key \in InProgress
    BY MissedIsIdle DEF InProgress, Missed
<1>3. InProgress \subseteq Keys
    BY MissedIsIdle DEF InProgress
<1>4. CacheTyped'
    BY <1>1, <1>3, CacheAssumption
<1>5. ComputedIsCurrent'
    BY <1>1, <1>2 DEF ComputedIsCurrent
<1>6. ItemsAreReached'
    BY <1>1 DEF ItemsAreReached
<1>7. CachedIsCurrent'
    BY <1>1 DEF CachedIsCurrent
<1> QED
    BY <1>4, <1>5, <1>6, <1>7

LEMMA InvalidateInMemoryKeeps ==
    ASSUME CacheInv, InvalidateInMemory
    PROVE  CacheInv'
<1> USE DEF CacheInv, CacheTyped, CacheTypeOK
<1>1. /\ ~inSql /\ invalidating = "due" /\ Keep(Untagged) /\ tagged' = {}
      /\ invalidating' = "no" /\ UNCHANGED <<inSql, data, user, found, doubt>>
    BY DEF InvalidateInMemory
<1>2. DOMAIN items' = {} /\ items' \in [DOMAIN items' -> Nat]
  <2>1. Keep(Untagged)
      BY <1>1
  <2>2. /\ DOMAIN items' = DOMAIN items \cap (Untagged)
        /\ items' \in [DOMAIN items' -> Nat]
        /\ \A j \in DOMAIN items' : items'[j] = items[j] /\ items'[j] \in 0 .. data
      BY <2>1, KeptItems
  <2> QED
      BY <2>2, <1>1 DEF Untagged, ItemsAreReached
<1>3. CacheTyped'
    BY <1>1, <1>2
<1>4. ComputedIsCurrent'
    BY <1>1 DEF ComputedIsCurrent
<1>5. ItemsAreReached' /\ CachedIsCurrent'
    BY <1>1, <1>2 DEF ItemsAreReached, CachedIsCurrent
<1> QED
    BY <1>3, <1>4, <1>5

\* While an invalidation is under way no item without its tag is out of doubt.
LEMMA FindTaggedKeeps ==
    ASSUME CacheInv, FindTagged
    PROVE  CacheInv'
<1> USE DEF CacheInv, CacheTyped, CacheTypeOK
<1>1. /\ inSql /\ invalidating = "due" /\ found' = tagged /\ invalidating' = "found"
      /\ UNCHANGED <<inSql, data, items, tagged, user, doubt>>
    BY DEF FindTagged
<1>2. \A u \in CacheUsers : user[u].at # "idle" => user[u].key \in doubt
    BY <1>1 DEF ComputedIsCurrent
<1>3. DOMAIN items \subseteq doubt \cup tagged
    BY <1>1, <1>2 DEF ItemsAreReached
<1>4. CacheTyped'
    BY <1>1
<1>5. ComputedIsCurrent'
    BY <1>1, <1>2 DEF ComputedIsCurrent
<1>6. ItemsAreReached' /\ CachedIsCurrent'
    BY <1>1, <1>3 DEF ItemsAreReached, CachedIsCurrent
<1> QED
    BY <1>4, <1>5, <1>6

\* Whatever the one batch leaves is in doubt.
LEMMA DeleteTaggedKeeps ==
    ASSUME CacheInv, DeleteTagged
    PROVE  CacheInv'
<1> USE DEF CacheInv, CacheTyped, CacheTypeOK
<1>1. PICK batch \in FirstBatch(found) \cup {{}} :
         Keep(Keys \ batch) /\ doubt' = doubt \cup (found \ batch)
    BY DEF DeleteTagged
<1>2. /\ invalidating = "found" /\ tagged' = {} /\ invalidating' = "no" /\ found' = {}
      /\ UNCHANGED <<inSql, data, user>>
    BY DEF DeleteTagged
<1>3. /\ DOMAIN items' = DOMAIN items \ batch
      /\ items' \in [DOMAIN items' -> Nat]
      /\ \A j \in DOMAIN items' : items'[j] \in 0 .. data
  <2>1. Keep(Keys \ batch)
      BY <1>1
  <2>2. /\ DOMAIN items' = DOMAIN items \cap (Keys \ batch)
        /\ items' \in [DOMAIN items' -> Nat]
        /\ \A j \in DOMAIN items' : items'[j] = items[j] /\ items'[j] \in 0 .. data
      BY <2>1, KeptItems
  <2> QED
      BY <2>2
<1>4. DOMAIN items' \subseteq doubt'
    BY <1>1, <1>2, <1>3 DEF ItemsAreReached
<1>5. CacheTyped'
    BY <1>1, <1>2, <1>3
<1>6. ComputedIsCurrent'
    BY <1>1, <1>2 DEF ComputedIsCurrent
<1>7. ItemsAreReached' /\ CachedIsCurrent'
    BY <1>2, <1>4 DEF ItemsAreReached, CachedIsCurrent
<1> QED
    BY <1>5, <1>6, <1>7

LEMMA CacheStep == CacheInv /\ [CacheNext]_cacheVars => CacheInv'
<1> SUFFICES ASSUME CacheInv, [CacheNext]_cacheVars PROVE CacheInv'
    OBVIOUS
<1>1. CASE \E u \in CacheUsers, k \in Keys : GetMisses(u, k)
    BY <1>1, GetMissesKeeps
<1>2. CASE \E u \in CacheUsers : SetItem(u)
    BY <1>2, SetItemKeeps
<1>3. CASE \E u \in CacheUsers : SetTag(u)
    BY <1>3, SetTagKeeps
<1>4. CASE ItemGoes
    BY <1>4, ItemGoesKeeps
<1>5. CASE ChangeData
    BY <1>5, ChangeDataKeeps
<1>6. CASE InvalidateInMemory
    BY <1>6, InvalidateInMemoryKeeps
<1>7. CASE FindTagged
    BY <1>7, FindTaggedKeeps
<1>8. CASE DeleteTagged
    BY <1>8, DeleteTaggedKeeps
<1>9. CASE UNCHANGED cacheVars
    BY <1>9 DEF cacheVars, CacheInv, CacheTyped, CacheTypeOK, ComputedIsCurrent,
                ItemsAreReached, CachedIsCurrent
<1> QED
    BY <1>1, <1>2, <1>3, <1>4, <1>5, <1>6, <1>7, <1>8, <1>9 DEF CacheNext

\* Cache.get, set and invalidateTags: in memory and in the tables a value that
\* is cached is made from the data of now once the invalidation is over, but
\* for the keys whose get() it overtook, whose tag was lost or that were too
\* many for the one batch.
THEOREM CachedValuesAreCurrent == CacheSpec => []CachedIsCurrent
<1>1. CacheInv => CachedIsCurrent
    BY DEF CacheInv
<1> QED
    BY InitCache, CacheStep, <1>1, PTL DEF CacheSpec

HIDE LedgerAssumption

-----------------------------------------------------------------------------
(***************************************************************************)
(* Assets: for any uploads of one name and any deletions.                  *)
(***************************************************************************)
AssetSpec == AssetInit /\ [][AssetNext]_assetVars

FileName == Nat \X Nat
AssetType == [row : {"none", "saved", "live", "removed", "gone"},
              source : Nat \X Nat, preview : Nat \X Nat]
DeletionType == {NoDeletion} \cup [at : {"loaded", "source", "preview", "ends"}, of : Uploads]

AssetTyped ==
    /\ files \in [DOMAIN files -> Uploads]
    /\ DOMAIN files \subseteq FileName /\ IsFiniteSet(DOMAIN files)
    /\ asset \in [Uploads -> AssetType]
    /\ upload \in [Uploads -> {"idle", "named", "both named", "source", "written", "over"}]
    /\ deletion \in [Deletions -> DeletionType]
    /\ \A u \in Uploads : asset[u].row # "none" => upload[u] = "over"

\* What is deleted was uploaded.
DeletedAreOver ==
    \A d \in Deletions : deletion[d].at # "idle" => upload[deletion[d].of] = "over"

Wrote(u, f) == f \in DOMAIN files /\ files[f] = u

Goes(u) == upload[u] \in {"named", "both named", "source", "written"}

\* Names that are chosen are free until they are written, and then the upload's.
NameIsChosen(u) ==
    /\ upload[u] \in {"named", "both named"} => asset[u].source \notin DOMAIN files
    /\ Goes(u) => asset[u].source[1] # 0 /\ asset[u].source[2] = 0
    /\ upload[u] \in {"both named", "source"} =>
          /\ asset[u].preview \notin DOMAIN files
          /\ asset[u].preview[1] = asset[u].source[1] /\ asset[u].preview[2] # 0
    /\ upload[u] \in {"source", "written"} => Wrote(u, asset[u].source)
    /\ upload[u] = "written" =>
          Wrote(u, asset[u].preview) /\ asset[u].source # asset[u].preview

NamesAreChosen == \A u \in Uploads : NameIsChosen(u)

NamesDiffer ==
    \A u \in Uploads, v \in Uploads :
       u # v /\ Goes(u) /\ Goes(v) => asset[u].source # asset[v].source

HaveTheirFiles ==
    \A u \in Uploads : asset[u].row \in {"saved", "live"} =>
       /\ Wrote(u, asset[u].source) /\ Wrote(u, asset[u].preview)
       /\ asset[u].source # asset[u].preview

\* A deletion works on the files of a row that it removed, and alone.
DeletionsAreAlone ==
    \A d \in Deletions : deletion[d].at # "idle" =>
       LET u == deletion[d].of IN
       /\ \A e \in Deletions \ {d} : deletion[e].at # "idle" => deletion[e].of # u
       /\ deletion[d].at = "loaded" => asset[u].row = "live"
       /\ deletion[d].at # "loaded" => asset[u].row = "removed"
       /\ deletion[d].at = "source" =>
             Wrote(u, asset[u].source) /\ asset[u].source # asset[u].preview
       /\ deletion[d].at \in {"source", "preview"} => Wrote(u, asset[u].preview)

RemovedByOne ==
    \A u \in Uploads : asset[u].row = "removed" =>
       \E d \in Deletions : deletion[d].at # "idle" /\ deletion[d].of = u

Calmly == NamesAreChosen /\ NamesDiffer /\ HaveTheirFiles /\ DeletionsAreAlone /\ RemovedByOne

AssetInv == AssetTyped /\ (met = {} => Calmly)

-----------------------------------------------------------------------------
\* The natural numbers are well ordered: of the intervals 1 .. k, one is least.
LEMMA LeastNatural ==
    ASSUME NEW T \in SUBSET Nat, T # {}
    PROVE  \E x \in T : \A y \in T : x <= y
<1> DEFINE R == StrictSubsetOrdering(Nat)
           I == {1 .. k : k \in T}
<1>1. IsWellFoundedOn(R, FiniteSubsetsOf(Nat))
    BY FS_StrictSubsetOrderingWellFounded
<1>2. I \subseteq FiniteSubsetsOf(Nat)
  <2> SUFFICES ASSUME NEW k \in T PROVE 1 .. k \in FiniteSubsetsOf(Nat)
      OBVIOUS
  <2> QED
      BY FS_Interval DEF FiniteSubsetsOf
<1>3. PICK i \in I : \A j \in I : <<j, i>> \notin R
  <2> HIDE DEF R, I
  <2>1. I # {}
      BY DEF I
  <2> QED
      BY <1>1, <1>2, <2>1, WFMin
<1>4. PICK k \in T : i = 1 .. k
    BY <1>3
<1>5. ASSUME NEW y \in T, ~(k <= y) PROVE FALSE
  <2>1. <<1 .. y, 1 .. k>> \in R
    <3>1. y < k /\ y \in Nat /\ k \in Nat
        BY <1>5
    <3>2. 1 .. y \subseteq 1 .. k /\ k \in 1 .. k /\ k \notin 1 .. y
        BY <3>1
    <3> QED
        BY <3>2 DEF StrictSubsetOrdering
  <2> QED
      BY <1>3, <1>4, <1>5, <2>1
<1> QED
    BY <1>5

\* generateUniqueName ends, and with a name that is free.
LEMMA FirstFreeIsFree ==
    ASSUME NEW taken, IsFiniteSet(taken)
    PROVE  /\ FirstFree(taken) \in Nat \ {0} /\ FirstFree(taken) \notin taken
           /\ FirstFree(taken) \in 1 .. Cardinality(taken) + 1
<1> DEFINE c == Cardinality(taken)
           free == {k \in 1 .. c + 1 : k \notin taken}
<1>1. c \in Nat
    BY FS_CardinalityType
<1>2. free # {}
  <2>1. SUFFICES ASSUME 1 .. c + 1 \subseteq taken PROVE FALSE
      OBVIOUS
  <2>2. Cardinality(1 .. c + 1) = c + 1
      BY <1>1, FS_Interval
  <2>3. Cardinality(1 .. c + 1) <= c
      BY <2>1, FS_Subset
  <2> QED
      BY <1>1, <2>2, <2>3
<1>3. PICK k \in free : \A j \in free : k <= j
  <2>1. free \in SUBSET Nat
      BY <1>1
  <2> HIDE DEF free
  <2> QED
      BY <1>2, <2>1, LeastNatural
<1>4. k \in 1 .. c + 1 /\ k \notin taken /\ \A j \in 1 .. k - 1 : j \in taken
  <2>1. ASSUME NEW j \in 1 .. k - 1, j \notin taken PROVE FALSE
    <3>1. j \in free /\ j < k
        BY <1>1, <1>3, <2>1
    <3> QED
        BY <1>1, <1>3, <3>1
  <2> QED
      BY <1>3, <2>1
<1>5. /\ FirstFree(taken) \in 1 .. c + 1
      /\ FirstFree(taken) \notin taken
    BY <1>4 DEF FirstFree
<1> QED
    BY <1>1, <1>5

LEMMA TakenIsFinite ==
    ASSUME NEW S, IsFiniteSet(S), NEW i \in {1, 2}
    PROVE  IsFiniteSet({f[i] : f \in S})
<1> DEFINE T == {f[i] : f \in S}
           g == [f \in S |-> f[i]]
<1>1. g \in Surjection(S, T)
    BY DEF Surjection
<1> HIDE DEF T, g
<1> QED
    BY <1>1, FS_Surjection DEF T

LEMMA InitAsset == AssetInit => AssetInv
<1> SUFFICES ASSUME AssetInit PROVE AssetInv
    OBVIOUS
<1>1. DOMAIN files = {} /\ files \in [DOMAIN files -> Uploads] /\ IsFiniteSet(DOMAIN files)
    BY FS_EmptySet DEF AssetInit
<1>2. \A u \in Uploads : asset[u].row = "none" /\ upload[u] = "idle"
    BY DEF AssetInit
<1>3. asset \in [Uploads -> AssetType]
    BY DEF AssetInit, AssetType
<1>4. deletion \in [Deletions -> DeletionType]
      /\ \A d \in Deletions : deletion[d].at = "idle"
    BY DEF AssetInit, DeletionType, NoDeletion
<1>5. AssetTyped
    BY <1>1, <1>2, <1>3, <1>4 DEF AssetTyped, AssetInit
<1> QED
    BY <1>2, <1>4, <1>5 DEF AssetInv, Calmly, NamesAreChosen, NameIsChosen,
                            NamesDiffer, Goes, HaveTheirFiles, DeletionsAreAlone, RemovedByOne

\* What an upload's step does to its own entries.
LEMMA UploadSteps ==
    ASSUME AssetTyped, NEW u \in Uploads, NEW from, NEW to, Step(u, from, to)
    PROVE  /\ upload[u] = from /\ upload'[u] = to
           /\ \A v \in Uploads \ {u} : upload'[v] = upload[v]
BY DEF AssetTyped, Step

\* The name of a source, and of a preview, that is chosen is free.
LEMMA SourceIsFree ==
    ASSUME AssetTyped
    PROVE  LET n == FirstFree({f[1] : f \in {g \in DOMAIN files : g[2] = 0}})
           IN  n \in Nat \ {0} /\ <<n, 0>> \notin DOMAIN files
<1> DEFINE S == {g \in DOMAIN files : g[2] = 0}
           T == {f[1] : f \in S}
           n == FirstFree(T)
<1>1. IsFiniteSet(S)
    BY FS_Subset DEF AssetTyped
<1>2. IsFiniteSet(T)
    BY <1>1, TakenIsFinite
<1>3. n \in Nat \ {0} /\ n \notin T
  <2> HIDE DEF T
  <2> QED
      BY <1>2, FirstFreeIsFree
<1>4. ASSUME <<n, 0>> \in DOMAIN files PROVE FALSE
  <2> HIDE DEF n
  <2>1. <<n, 0>> \in S /\ <<n, 0>>[1] = n
      BY <1>4
  <2>2. n \in T
      BY <2>1
  <2> QED
      BY <1>3, <2>2
<1> QED
    BY <1>3, <1>4

LEMMA PreviewIsFree ==
    ASSUME AssetTyped, NEW n \in Nat
    PROVE  LET k == FirstFree({f[2] : f \in {g \in DOMAIN files : g[1] = n /\ g[2] > 0}})
           IN  k \in Nat \ {0} /\ <<n, k>> \notin DOMAIN files
<1> DEFINE S == {g \in DOMAIN files : g[1] = n /\ g[2] > 0}
           T == {f[2] : f \in S}
           k == FirstFree(T)
<1>1. IsFiniteSet(S)
    BY FS_Subset DEF AssetTyped
<1>2. IsFiniteSet(T)
    BY <1>1, TakenIsFinite
<1>3. k \in Nat \ {0} /\ k \notin T
  <2> HIDE DEF T
  <2> QED
      BY <1>2, FirstFreeIsFree
<1>4. ASSUME <<n, k>> \in DOMAIN files PROVE FALSE
  <2> HIDE DEF k
  <2>1. <<n, k>> \in S /\ <<n, k>>[2] = k
      BY <1>3, <1>4
  <2>2. k \in T
      BY <2>1
  <2> QED
      BY <1>3, <2>2
<1> QED
    BY <1>3, <1>4

LEMMA DeletionOfUpload ==
    ASSUME AssetTyped, NEW d \in Deletions, deletion[d].at # "idle"
    PROVE  /\ deletion[d] \in [at : {"loaded", "source", "preview", "ends"}, of : Uploads]
           /\ deletion[d].of \in Uploads /\ deletion[d] # NoDeletion
<1>1. deletion[d] \in DeletionType
    BY DEF AssetTyped
<1>2. deletion[d] # NoDeletion
    BY DEF NoDeletion
<1> QED
    BY <1>1, <1>2 DEF DeletionType

\* A file that is written stays when an upload takes a step, and an asset that is
\* live or being removed is no longer in the hands of its upload.
LEMMA AssetsStand ==
    ASSUME AssetTyped, HaveTheirFiles, DeletionsAreAlone, RemovedByOne, UNCHANGED deletion,
           NEW u \in Uploads, asset[u].row = "none", asset'[u].row = "none",
           \A v \in Uploads \ {u} : asset'[v] = asset[v],
           \A v \in Uploads : \A f : Wrote(v, f) => Wrote(v, f)'
    PROVE  HaveTheirFiles' /\ DeletionsAreAlone' /\ RemovedByOne'
<1>1. HaveTheirFiles'
    BY DEF HaveTheirFiles
<1>2. ASSUME NEW d \in Deletions, deletion[d].at # "idle"
      PROVE  deletion[d].of \in Uploads \ {u}
  <2>1. deletion[d].of \in Uploads
      BY <1>2, DeletionOfUpload
  <2>2. asset[deletion[d].of].row # "none"
      BY <1>2 DEF DeletionsAreAlone
  <2> QED
      BY <2>1, <2>2
<1>3. DeletionsAreAlone'
    BY <1>2 DEF DeletionsAreAlone
<1>4. RemovedByOne'
    BY DEF RemovedByOne
<1> QED
    BY <1>1, <1>3, <1>4

\* What another upload has chosen and written stands.
LEMMA NameStands ==
    ASSUME NEW v \in Uploads, NameIsChosen(v), upload'[v] = upload[v], asset'[v] = asset[v],
           UNCHANGED files
    PROVE  NameIsChosen(v)'
BY DEF NameIsChosen, Wrote, Goes

LEMMA ChooseSourceKeeps ==
    ASSUME AssetInv, NEW u \in Uploads, ChooseSource(u) PROVE AssetInv'
<1> DEFINE nn == FirstFree({f[1] : f \in {g \in DOMAIN files : g[2] = 0}})
<1>1. PICK n : n = nn
    OBVIOUS
<1>2. /\ Step(u, "idle", "named") /\ asset' = [asset EXCEPT ![u].source = <<n, 0>>]
      /\ met' = IF \E v \in Uploads \ {u} : /\ upload[v] \in {"named", "both named"}
                                            /\ asset[v].source = <<n, 0>>
                THEN met \cup {"uploads"} ELSE met
      /\ UNCHANGED <<files, deletion>>
    BY <1>1 DEF ChooseSource
<1>3. AssetTyped
    BY DEF AssetInv
<1>4. n \in Nat \ {0} /\ <<n, 0>> \notin DOMAIN files
    BY <1>1, <1>3, SourceIsFree
<1> HIDE DEF nn
<1>5. upload[u] = "idle" /\ upload'[u] = "named"
      /\ \A v \in Uploads \ {u} : upload'[v] = upload[v]
    BY <1>2, <1>3, UploadSteps
<1>6. /\ asset'[u].row = asset[u].row /\ asset'[u].source = <<n, 0>>
      /\ asset[u].row = "none"
      /\ \A v \in Uploads \ {u} : asset'[v] = asset[v]
    BY <1>2, <1>3, <1>5 DEF AssetTyped, AssetType
<1>7. AssetTyped'
  <2>1. asset' \in [Uploads -> AssetType]
    <3>1. asset[u] \in AssetType /\ <<n, 0>> \in Nat \X Nat
        BY <1>3, <1>4 DEF AssetTyped
    <3>2. [asset[u] EXCEPT !.source = <<n, 0>>] \in AssetType
        BY <3>1 DEF AssetType
    <3> QED
        BY <1>2, <1>3, <3>2 DEF AssetTyped
  <2>2. upload' \in [Uploads -> {"idle", "named", "both named", "source", "written", "over"}]
      BY <1>2, <1>3 DEF AssetTyped, Step
  <2> QED
      BY <1>2, <1>3, <1>5, <1>6, <2>1, <2>2 DEF AssetTyped
<1>8. ASSUME met' = {} PROVE Calmly'
  <2>1. /\ Calmly
        /\ \A v \in Uploads \ {u} :
              upload[v] \in {"named", "both named"} => asset[v].source # <<n, 0>>
      BY <1>2, <1>8 DEF AssetInv
  <2>2. NamesAreChosen'
    <3>1. <<n, 0>>[1] = n /\ <<n, 0>>[2] = 0
        OBVIOUS
    <3>2. NameIsChosen(u)'
        BY <1>2, <1>4, <1>5, <1>6, <3>1 DEF NameIsChosen, Goes
    <3>3. \A v \in Uploads \ {u} : NameIsChosen(v)'
        BY <1>2, <1>5, <1>6, <2>1, NameStands DEF Calmly, NamesAreChosen
    <3> QED
        BY <3>2, <3>3 DEF NamesAreChosen
  <2>3. NamesDiffer'
    <3>1. ASSUME NEW v \in Uploads \ {u}, Goes(v)
          PROVE  asset[v].source # <<n, 0>>
      <4>1. upload[v] \in {"source", "written"} => asset[v].source \in DOMAIN files
          BY <2>1 DEF Calmly, NamesAreChosen, NameIsChosen, Wrote
      <4> QED
          BY <1>4, <2>1, <3>1, <4>1 DEF Goes
    <3>2. \A v \in Uploads \ {u} : Goes(v)' <=> Goes(v)
        BY <1>5 DEF Goes
    <3> QED
        BY <1>6, <2>1, <3>1, <3>2 DEF Calmly, NamesDiffer
  <2>4. HaveTheirFiles' /\ DeletionsAreAlone' /\ RemovedByOne'
      BY <1>2, <1>3, <1>6, <2>1, AssetsStand DEF Calmly, Wrote
  <2> QED
      BY <2>2, <2>3, <2>4 DEF Calmly
<1> QED
    BY <1>7, <1>8 DEF AssetInv

LEMMA ChoosePreviewKeeps ==
    ASSUME AssetInv, NEW u \in Uploads, ChoosePreview(u) PROVE AssetInv'
<1> DEFINE n == asset[u].source[1]
           kk == FirstFree({f[2] : f \in {g \in DOMAIN files : g[1] = n /\ g[2] > 0}})
<1>1. PICK k : k = kk
    OBVIOUS
<1>2. /\ Step(u, "named", "both named") /\ asset' = [asset EXCEPT ![u].preview = <<n, k>>]
      /\ UNCHANGED <<files, deletion, met>>
    BY <1>1 DEF ChoosePreview
<1>3. AssetTyped /\ n \in Nat
    BY DEF AssetInv, AssetTyped, AssetType
<1>4. k \in Nat \ {0} /\ <<n, k>> \notin DOMAIN files
    BY <1>1, <1>3, PreviewIsFree
<1> HIDE DEF kk
<1>5. upload[u] = "named" /\ upload'[u] = "both named"
      /\ \A v \in Uploads \ {u} : upload'[v] = upload[v]
    BY <1>2, <1>3, UploadSteps
<1>6. /\ asset'[u].row = asset[u].row /\ asset'[u].preview = <<n, k>>
      /\ asset'[u].source = asset[u].source /\ asset[u].row = "none"
      /\ \A v \in Uploads \ {u} : asset'[v] = asset[v]
    BY <1>2, <1>3, <1>5 DEF AssetTyped, AssetType
<1>7. AssetTyped'
  <2>1. asset' \in [Uploads -> AssetType]
    <3>1. asset[u] \in AssetType /\ <<n, k>> \in Nat \X Nat
        BY <1>3, <1>4 DEF AssetTyped
    <3>2. [asset[u] EXCEPT !.preview = <<n, k>>] \in AssetType
        BY <3>1 DEF AssetType
    <3> QED
        BY <1>2, <1>3, <3>2 DEF AssetTyped
  <2>2. upload' \in [Uploads -> {"idle", "named", "both named", "source", "written", "over"}]
      BY <1>2, <1>3 DEF AssetTyped, Step
  <2> QED
      BY <1>2, <1>3, <1>5, <1>6, <2>1, <2>2 DEF AssetTyped
<1>8. ASSUME met' = {} PROVE Calmly'
  <2>1. Calmly
      BY <1>2, <1>8 DEF AssetInv
  <2>2. NamesAreChosen'
    <3>1. <<n, k>>[1] = n /\ <<n, k>>[2] = k
        OBVIOUS
    <3>2. NameIsChosen(u)'
      <4>1. NameIsChosen(u)
          BY <2>1 DEF Calmly, NamesAreChosen
      <4> QED
          BY <1>2, <1>4, <1>5, <1>6, <3>1, <4>1 DEF NameIsChosen, Goes
    <3>3. \A v \in Uploads \ {u} : NameIsChosen(v)'
        BY <1>2, <1>5, <1>6, <2>1, NameStands DEF Calmly, NamesAreChosen
    <3> QED
        BY <3>2, <3>3 DEF NamesAreChosen
  <2>3. NamesDiffer'
    <3>1. \A v \in Uploads : (Goes(v)' <=> Goes(v)) /\ asset'[v].source = asset[v].source
        BY <1>5, <1>6 DEF Goes
    <3> QED
        BY <2>1, <3>1 DEF Calmly, NamesDiffer
  <2>4. HaveTheirFiles' /\ DeletionsAreAlone' /\ RemovedByOne'
      BY <1>2, <1>3, <1>6, <2>1, AssetsStand DEF Calmly, Wrote
  <2> QED
      BY <2>2, <2>3, <2>4 DEF Calmly
<1> QED
    BY <1>7, <1>8 DEF AssetInv

LEMMA PutWrites ==
    ASSUME AssetTyped, NEW f \in FileName, NEW u \in Uploads, Put(f, u)
    PROVE  /\ DOMAIN files' = DOMAIN files \cup {f} /\ files'[f] = u
           /\ \A g \in DOMAIN files \ {f} : files'[g] = files[g]
           /\ files' \in [DOMAIN files' -> Uploads]
           /\ DOMAIN files' \subseteq FileName /\ IsFiniteSet(DOMAIN files')
<1>1. DOMAIN files' = DOMAIN files \cup {f}
    BY DEF Put
<1>2. /\ files'[f] = u /\ \A g \in DOMAIN files \ {f} : files'[g] = files[g]
      /\ files' \in [DOMAIN files' -> Uploads]
    BY <1>1 DEF Put, AssetTyped
<1>3. DOMAIN files' \subseteq FileName /\ IsFiniteSet(DOMAIN files')
  <2>1. IsFiniteSet(DOMAIN files \cup {f})
      BY FS_AddElement DEF AssetTyped
  <2> QED
      BY <1>1, <2>1 DEF AssetTyped
<1> QED
    BY <1>1, <1>2, <1>3

\* A file of a name that is nobody's is written: what was written before stays,
\* and what others have chosen stays free.
LEMMA WriteKeeps ==
    ASSUME AssetTyped, Calmly, NEW u \in Uploads, NEW f \in FileName, f \notin DOMAIN files,
           Put(f, u), UNCHANGED <<asset, deletion>>, asset[u].row = "none",
           \A v \in Uploads \ {u} : upload'[v] = upload[v],
           \A v \in Uploads \ {u} :
              /\ upload[v] \in {"named", "both named"} => asset[v].source # f
              /\ upload[v] \in {"both named", "source"} => asset[v].preview # f,
           Goes(u)' <=> Goes(u), NameIsChosen(u)'
    PROVE  Calmly'
<1>1. /\ DOMAIN files' = DOMAIN files \cup {f}
      /\ \A g \in DOMAIN files \ {f} : files'[g] = files[g]
    BY PutWrites
<1>2. \A v \in Uploads : \A g : Wrote(v, g) => Wrote(v, g)'
    BY <1>1 DEF Wrote
<1>3. ASSUME NEW v \in Uploads \ {u} PROVE NameIsChosen(v)'
  <2>1. NameIsChosen(v) /\ upload'[v] = upload[v]
      BY DEF Calmly, NamesAreChosen
  <2> QED
      BY <1>1, <1>2, <2>1 DEF NameIsChosen, Goes
<1>4. NamesAreChosen'
    BY <1>3 DEF NamesAreChosen
<1>5. \A v \in Uploads : Goes(v)' <=> Goes(v)
    BY DEF Goes
<1>6. NamesDiffer'
    BY <1>5 DEF Calmly, NamesDiffer
<1>7. HaveTheirFiles' /\ DeletionsAreAlone' /\ RemovedByOne'
    BY <1>2, AssetsStand DEF Calmly
<1> QED
    BY <1>4, <1>6, <1>7 DEF Calmly

LEMMA WriteSourceKeeps ==
    ASSUME AssetInv, NEW u \in Uploads, WriteSource(u) PROVE AssetInv'
<1> DEFINE f == asset[u].source
<1>1. /\ Step(u, "both named", "source") /\ Put(f, u)
      /\ UNCHANGED <<asset, deletion, met>>
    BY DEF WriteSource
<1>2. AssetTyped
    BY DEF AssetInv
<1>3. upload[u] = "both named" /\ upload'[u] = "source"
      /\ \A v \in Uploads \ {u} : upload'[v] = upload[v]
    BY <1>1, <1>2, UploadSteps
<1>4. asset[u].row = "none" /\ asset[u] \in AssetType
    BY <1>2, <1>3 DEF AssetTyped
<1>5. upload' \in [Uploads -> {"idle", "named", "both named", "source", "written", "over"}]
    BY <1>1, <1>2 DEF AssetTyped, Step
<1>6. f \in FileName
    BY <1>4 DEF AssetType, FileName
<1>7. AssetTyped'
  <2>1. /\ files' \in [DOMAIN files' -> Uploads]
        /\ DOMAIN files' \subseteq FileName /\ IsFiniteSet(DOMAIN files')
      BY <1>1, <1>2, <1>6, PutWrites
  <2> QED
      BY <1>1, <1>2, <1>3, <1>4, <1>5, <2>1 DEF AssetTyped
<1>8. ASSUME met' = {} PROVE Calmly'
  <2>1. Calmly /\ NameIsChosen(u)
      BY <1>1, <1>8 DEF AssetInv, Calmly, NamesAreChosen
  <2>2. f \notin DOMAIN files /\ f[2] = 0
      BY <1>3, <2>1 DEF NameIsChosen, Goes
  <2>3. /\ DOMAIN files' = DOMAIN files \cup {f} /\ files'[f] = u
      BY <1>1, <1>2, <1>6, PutWrites
  <2>4. asset[u].preview # f
      BY <1>3, <2>1, <2>2 DEF NameIsChosen
  <2>5. NameIsChosen(u)'
      BY <1>1, <1>3, <2>1, <2>3, <2>4 DEF NameIsChosen, Wrote, Goes
  <2>6. ASSUME NEW v \in Uploads \ {u}
        PROVE  /\ upload[v] \in {"named", "both named"} => asset[v].source # f
               /\ upload[v] \in {"both named", "source"} => asset[v].preview # f
    <3>1. NameIsChosen(v)
        BY <2>1 DEF Calmly, NamesAreChosen
    <3>2. upload[v] \in {"named", "both named"} => asset[v].source # f
        BY <1>3, <2>1 DEF Calmly, NamesDiffer, Goes
    <3>3. upload[v] \in {"both named", "source"} => asset[v].preview # f
        BY <2>2, <3>1 DEF NameIsChosen
    <3> QED
        BY <3>2, <3>3
  <2>7. Goes(u)' <=> Goes(u)
      BY <1>3 DEF Goes
  <2> QED
      BY <1>1, <1>2, <1>3, <1>4, <1>6, <2>1, <2>2, <2>5, <2>6, <2>7, WriteKeeps
<1> QED
    BY <1>7, <1>8 DEF AssetInv

LEMMA WritePreviewKeeps ==
    ASSUME AssetInv, NEW u \in Uploads, WritePreview(u) PROVE AssetInv'
<1> DEFINE f == asset[u].preview
<1>1. /\ Step(u, "source", "written") /\ Put(f, u)
      /\ UNCHANGED <<asset, deletion, met>>
    BY DEF WritePreview
<1>2. AssetTyped
    BY DEF AssetInv
<1>3. upload[u] = "source" /\ upload'[u] = "written"
      /\ \A v \in Uploads \ {u} : upload'[v] = upload[v]
    BY <1>1, <1>2, UploadSteps
<1>4. asset[u].row = "none" /\ asset[u] \in AssetType
    BY <1>2, <1>3 DEF AssetTyped
<1>5. upload' \in [Uploads -> {"idle", "named", "both named", "source", "written", "over"}]
    BY <1>1, <1>2 DEF AssetTyped, Step
<1>6. f \in FileName
    BY <1>4 DEF AssetType, FileName
<1>7. AssetTyped'
  <2>1. /\ files' \in [DOMAIN files' -> Uploads]
        /\ DOMAIN files' \subseteq FileName /\ IsFiniteSet(DOMAIN files')
      BY <1>1, <1>2, <1>6, PutWrites
  <2> QED
      BY <1>1, <1>2, <1>3, <1>4, <1>5, <2>1 DEF AssetTyped
<1>8. ASSUME met' = {} PROVE Calmly'
  <2>1. Calmly /\ NameIsChosen(u)
      BY <1>1, <1>8 DEF AssetInv, Calmly, NamesAreChosen
  <2>2. f \notin DOMAIN files /\ f[2] # 0 /\ f[1] = asset[u].source[1]
        /\ asset[u].source[2] = 0
      BY <1>3, <2>1 DEF NameIsChosen, Goes
  <2>3. /\ DOMAIN files' = DOMAIN files \cup {f} /\ files'[f] = u
        /\ \A g \in DOMAIN files \ {f} : files'[g] = files[g]
      BY <1>1, <1>2, <1>6, PutWrites
  <2>4. NameIsChosen(u)'
      BY <1>1, <1>3, <2>1, <2>3, <2>2 DEF NameIsChosen, Wrote, Goes
  <2>5. ASSUME NEW v \in Uploads \ {u}
        PROVE  /\ upload[v] \in {"named", "both named"} => asset[v].source # f
               /\ upload[v] \in {"both named", "source"} => asset[v].preview # f
    <3>1. NameIsChosen(v)
        BY <2>1 DEF Calmly, NamesAreChosen
    <3>2. upload[v] \in {"named", "both named"} => asset[v].source # f
        BY <2>2, <3>1 DEF NameIsChosen, Goes
    <3>3. ASSUME upload[v] \in {"both named", "source"}, asset[v].preview = f PROVE FALSE
      <4>1. asset[v].source[1] = f[1] /\ asset[v].source[2] = 0
          BY <3>1, <3>3 DEF NameIsChosen, Goes
      <4>2. asset[v].source = asset[u].source
        <5>1. asset[v].source \in Nat \X Nat /\ asset[u].source \in Nat \X Nat
            BY <1>2 DEF AssetTyped, AssetType
        <5>2. /\ asset[v].source[1] = asset[u].source[1]
              /\ asset[v].source[2] = asset[u].source[2]
            BY <2>2, <4>1
        <5> QED
            BY <5>1, <5>2
      <4> QED
          BY <1>3, <2>1, <3>3, <4>2 DEF Calmly, NamesDiffer, Goes
    <3> QED
        BY <3>2, <3>3
  <2>6. Goes(u)' <=> Goes(u)
      BY <1>3 DEF Goes
  <2> QED
      BY <1>1, <1>2, <1>3, <1>4, <1>6, <2>1, <2>2, <2>4, <2>5, <2>6, WriteKeeps
<1> QED
    BY <1>7, <1>8 DEF AssetInv

\* The rest of an upload: its row is saved, or it fails, and its transaction ends.
LEMMA SaveAssetKeeps ==
    ASSUME AssetInv, NEW u \in Uploads, SaveAsset(u) PROVE AssetInv'
<1>1. /\ Step(u, "written", "over") /\ asset' = [asset EXCEPT ![u].row = "saved"]
      /\ UNCHANGED <<files, deletion, met>>
    BY DEF SaveAsset
<1>2. AssetTyped
    BY DEF AssetInv
<1>3. upload[u] = "written" /\ upload'[u] = "over"
      /\ \A v \in Uploads \ {u} : upload'[v] = upload[v]
    BY <1>1, <1>2, UploadSteps
<1>4. /\ asset'[u].row = "saved" /\ asset'[u].source = asset[u].source
      /\ asset'[u].preview = asset[u].preview /\ asset[u].row = "none"
      /\ \A v \in Uploads \ {u} : asset'[v] = asset[v]
    BY <1>1, <1>2, <1>3 DEF AssetTyped, AssetType
<1>5. AssetTyped'
  <2>1. asset' \in [Uploads -> AssetType]
      BY ZenonT(60), <1>1, <1>2 DEF AssetTyped, AssetType
  <2>2. upload' \in [Uploads -> {"idle", "named", "both named", "source", "written", "over"}]
      BY <1>1, <1>2 DEF AssetTyped, Step
  <2> QED
      BY <1>1, <1>2, <1>3, <1>4, <2>1, <2>2 DEF AssetTyped
<1>6. ASSUME met' = {} PROVE Calmly'
  <2>1. Calmly /\ NameIsChosen(u)
      BY <1>1, <1>6 DEF AssetInv, Calmly, NamesAreChosen
  <2>2. NamesAreChosen'
    <3>1. NameIsChosen(u)'
        BY <1>3 DEF NameIsChosen, Goes
    <3>2. \A v \in Uploads \ {u} : NameIsChosen(v)'
        BY <1>1, <1>3, <1>4, <2>1, NameStands DEF Calmly, NamesAreChosen
    <3> QED
        BY <3>1, <3>2 DEF NamesAreChosen
  <2>3. NamesDiffer'
    <3>1. \A v \in Uploads : (Goes(v)' => Goes(v)) /\ asset'[v].source = asset[v].source
        BY <1>3, <1>4 DEF Goes
    <3> QED
        BY <2>1, <3>1 DEF Calmly, NamesDiffer
  <2>4. HaveTheirFiles'
    <3>1. /\ Wrote(u, asset[u].source) /\ Wrote(u, asset[u].preview)
          /\ asset[u].source # asset[u].preview
        BY <1>3, <2>1 DEF NameIsChosen
    <3> QED
        BY <1>1, <1>4, <2>1, <3>1 DEF Calmly, HaveTheirFiles, Wrote
  <2>5. DeletionsAreAlone'
    <3>1. ASSUME NEW d \in Deletions, deletion[d].at # "idle"
          PROVE  deletion[d].of \in Uploads \ {u}
      <4>1. deletion[d].of \in Uploads
          BY <1>2, <3>1, DeletionOfUpload
      <4>2. asset[deletion[d].of].row # "none"
          BY <2>1, <3>1 DEF Calmly, DeletionsAreAlone
      <4> QED
          BY <1>4, <4>1, <4>2
    <3> QED
        BY <1>1, <1>4, <2>1, <3>1 DEF Calmly, DeletionsAreAlone, Wrote
  <2>6. RemovedByOne'
      BY <1>1, <1>4, <2>1 DEF Calmly, RemovedByOne
  <2> QED
      BY <2>2, <2>3, <2>4, <2>5, <2>6 DEF Calmly
<1> QED
    BY <1>5, <1>6 DEF AssetInv

LEMMA UploadFailsKeeps ==
    ASSUME AssetInv, NEW u \in Uploads, UploadFails(u) PROVE AssetInv'
<1>1. /\ upload[u] \notin {"idle", "over"} /\ upload' = [upload EXCEPT ![u] = "over"]
      /\ UNCHANGED <<files, asset, deletion, met>>
    BY DEF UploadFails
<1>2. AssetTyped
    BY DEF AssetInv
<1>3. upload'[u] = "over" /\ asset[u].row = "none"
      /\ \A v \in Uploads \ {u} : upload'[v] = upload[v]
    BY <1>1, <1>2 DEF AssetTyped
<1>4. AssetTyped'
  <2>1. upload' \in [Uploads -> {"idle", "named", "both named", "source", "written", "over"}]
      BY <1>1, <1>2 DEF AssetTyped
  <2> QED
      BY <1>1, <1>2, <1>3, <2>1 DEF AssetTyped
<1>5. ASSUME met' = {} PROVE Calmly'
  <2>1. Calmly
      BY <1>1, <1>5 DEF AssetInv
  <2>2. NamesAreChosen'
    <3>1. NameIsChosen(u)'
        BY <1>3 DEF NameIsChosen, Goes
    <3>2. \A v \in Uploads \ {u} : NameIsChosen(v)'
        BY <1>1, <1>3, <2>1, NameStands DEF Calmly, NamesAreChosen
    <3> QED
        BY <3>1, <3>2 DEF NamesAreChosen
  <2>3. NamesDiffer'
    <3>1. \A v \in Uploads : Goes(v)' => Goes(v)
        BY <1>3 DEF Goes
    <3> QED
        BY <1>1, <2>1, <3>1 DEF Calmly, NamesDiffer
  <2>4. HaveTheirFiles' /\ DeletionsAreAlone' /\ RemovedByOne'
      BY <1>1, <1>2, <1>3, <2>1, AssetsStand DEF Calmly, Wrote
  <2> QED
      BY <2>2, <2>3, <2>4 DEF Calmly
<1> QED
    BY <1>4, <1>5 DEF AssetInv

LEMMA EndUploadKeeps ==
    ASSUME AssetInv, NEW u \in Uploads, EndUpload(u) PROVE AssetInv'
<1>1. PICK left \in {"live", "gone"} :
          /\ asset[u].row = "saved" /\ asset' = [asset EXCEPT ![u].row = left]
          /\ UNCHANGED <<files, upload, deletion, met>>
    BY DEF EndUpload
<1>2. AssetTyped
    BY DEF AssetInv
<1>3. /\ asset'[u].row = left /\ asset'[u].source = asset[u].source
      /\ asset'[u].preview = asset[u].preview
      /\ \A v \in Uploads \ {u} : asset'[v] = asset[v]
      /\ upload[u] = "over"
    BY <1>1, <1>2 DEF AssetTyped, AssetType
<1>4. AssetTyped'
  <2>1. asset' \in [Uploads -> AssetType]
      BY ZenonT(60), <1>1, <1>2 DEF AssetTyped, AssetType
  <2> QED
      BY <1>1, <1>2, <1>3, <2>1 DEF AssetTyped
<1>5. ASSUME met' = {} PROVE Calmly'
  <2>1. Calmly
      BY <1>1, <1>5 DEF AssetInv
  <2>2. NamesAreChosen'
    <3>1. NameIsChosen(u)'
        BY <1>1, <1>3 DEF NameIsChosen, Goes
    <3>2. \A v \in Uploads \ {u} : NameIsChosen(v)'
        BY <1>1, <1>3, <2>1, NameStands DEF Calmly, NamesAreChosen
    <3> QED
        BY <3>1, <3>2 DEF NamesAreChosen
  <2>3. NamesDiffer'
    <3>1. \A v \in Uploads : (Goes(v)' <=> Goes(v)) /\ asset'[v].source = asset[v].source
        BY <1>1, <1>3 DEF Goes
    <3> QED
        BY <2>1, <3>1 DEF Calmly, NamesDiffer
  <2>4. HaveTheirFiles'
      BY <1>1, <1>3, <2>1 DEF Calmly, HaveTheirFiles, Wrote
  <2>5. DeletionsAreAlone'
    <3>1. ASSUME NEW d \in Deletions, deletion[d].at # "idle"
          PROVE  deletion[d].of \in Uploads \ {u}
      <4>1. deletion[d].of \in Uploads
          BY <1>2, <3>1, DeletionOfUpload
      <4>2. asset[deletion[d].of].row # "saved"
          BY <2>1, <3>1 DEF Calmly, DeletionsAreAlone
      <4> QED
          BY <1>1, <4>1, <4>2
    <3> QED
        BY <1>1, <1>3, <2>1, <3>1 DEF Calmly, DeletionsAreAlone, Wrote
  <2>6. RemovedByOne'
      BY <1>1, <1>3, <2>1 DEF Calmly, RemovedByOne
  <2> QED
      BY <2>2, <2>3, <2>4, <2>5, <2>6 DEF Calmly
<1> QED
    BY <1>4, <1>5 DEF AssetInv

-----------------------------------------------------------------------------
LEMMA OverStep ==
    AssetTyped /\ DeletedAreOver /\ [AssetNext]_assetVars => DeletedAreOver'
<1> SUFFICES ASSUME AssetTyped, DeletedAreOver, [AssetNext]_assetVars PROVE DeletedAreOver'
    OBVIOUS
<1>1. ASSUME UNCHANGED deletion, \A u \in Uploads : upload[u] = "over" => upload'[u] = "over"
      PROVE  DeletedAreOver'
    BY <1>1, DeletionOfUpload DEF DeletedAreOver
<1>2. ASSUME NEW u \in Uploads, NEW from, NEW to, from # "over", Step(u, from, to),
             UNCHANGED deletion
      PROVE  DeletedAreOver'
    BY <1>1, <1>2 DEF Step, AssetTyped
<1>3. ASSUME NEW u \in Uploads,
             \/ ChooseSource(u) \/ ChoosePreview(u) \/ WriteSource(u)
             \/ WritePreview(u) \/ SaveAsset(u) \/ UploadFails(u) \/ EndUpload(u)
      PROVE  DeletedAreOver'
  <2>1. CASE ChooseSource(u) \/ ChoosePreview(u)
      BY <1>2, <2>1 DEF ChooseSource, ChoosePreview
  <2>2. CASE WriteSource(u) \/ WritePreview(u) \/ SaveAsset(u)
      BY <1>2, <2>2 DEF WriteSource, WritePreview, SaveAsset
  <2>3. CASE UploadFails(u)
      BY <1>1, <2>3 DEF UploadFails, AssetTyped
  <2>4. CASE EndUpload(u)
      BY <1>1, <2>4 DEF EndUpload
  <2> QED
      BY <1>3, <2>1, <2>2, <2>3, <2>4
<1>4. ASSUME NEW d \in Deletions, UNCHANGED upload,
             deletion'[d].at # "idle" =>
                deletion'[d].of \in Uploads /\ upload[deletion'[d].of] = "over",
             \A e \in Deletions \ {d} : deletion'[e] = deletion[e]
      PROVE  DeletedAreOver'
    BY <1>4 DEF DeletedAreOver
<1>5. ASSUME NEW d \in Deletions, NEW to, deletion' = [deletion EXCEPT ![d].at = to],
             deletion[d].at # "idle", UNCHANGED upload
      PROVE  DeletedAreOver'
  <2>1. deletion'[d].of = deletion[d].of
      BY <1>5, DeletionOfUpload DEF AssetTyped
  <2>2. deletion[d].of \in Uploads /\ upload[deletion[d].of] = "over"
      BY <1>5, DeletionOfUpload DEF DeletedAreOver
  <2> QED
      BY <1>4, <1>5, <2>1, <2>2 DEF AssetTyped
<1>6. ASSUME NEW d \in Deletions,
             \/ LoadAsset(d) \/ RemoveRow(d) \/ DeleteSourceFile(d)
             \/ DeletePreviewFile(d) \/ EndDeletion(d)
      PROVE  DeletedAreOver'
  <2>1. CASE LoadAsset(d)
    <3>1. PICK u \in Uploads :
              /\ asset[u].row \in {"live", "removed"} /\ UNCHANGED upload
              /\ deletion' = [deletion EXCEPT ![d] = [at |-> "loaded", of |-> u]]
        BY <2>1 DEF LoadAsset
    <3>2. deletion'[d].of = u /\ upload[u] = "over"
        BY <3>1 DEF AssetTyped
    <3> QED
        BY <1>4, <3>1, <3>2 DEF AssetTyped
  <2>2. CASE RemoveRow(d)
      BY <1>5, <2>2 DEF RemoveRow
  <2>3. CASE DeleteSourceFile(d) \/ DeletePreviewFile(d)
      BY <1>5, <2>3 DEF DeleteSourceFile, DeletePreviewFile
  <2>4. CASE EndDeletion(d)
    <3>1. deletion' = [deletion EXCEPT ![d] = NoDeletion] /\ UNCHANGED upload
        BY <2>4 DEF EndDeletion
    <3>2. deletion'[d].at = "idle"
        BY <3>1 DEF AssetTyped, NoDeletion
    <3> QED
        BY <1>4, <3>1, <3>2 DEF AssetTyped
  <2> QED
      BY <1>6, <2>1, <2>2, <2>3, <2>4
<1>7. CASE UNCHANGED assetVars
    BY <1>7 DEF assetVars, DeletedAreOver
<1> QED
    BY <1>3, <1>6, <1>7 DEF AssetNext

\* Nothing that is deleted is an upload's that goes on, or another asset's.
LEMMA NamesStand ==
    ASSUME Calmly, UNCHANGED upload,
           \A v \in Uploads : /\ asset'[v].source = asset[v].source
                              /\ asset'[v].preview = asset[v].preview,
           DOMAIN files' \subseteq DOMAIN files,
           \A v \in Uploads : \A f : Goes(v) /\ Wrote(v, f) => Wrote(v, f)'
    PROVE  NamesAreChosen' /\ NamesDiffer'
<1>1. ASSUME NEW v \in Uploads PROVE NameIsChosen(v)'
  <2>1. NameIsChosen(v)
      BY DEF Calmly, NamesAreChosen
  <2>2. \A f : Goes(v) /\ Wrote(v, f) => Wrote(v, f)'
      OBVIOUS
  <2> QED
      BY <2>1, <2>2 DEF NameIsChosen, Goes
<1>2. NamesDiffer'
    BY ZenonT(60) DEF Calmly, NamesDiffer, Goes
<1> QED
    BY <1>1, <1>2 DEF NamesAreChosen

LEMMA LoadAssetKeeps ==
    ASSUME AssetInv, NEW d \in Deletions, LoadAsset(d) PROVE AssetInv'
<1>1. PICK u \in Uploads :
          /\ deletion[d] = NoDeletion /\ asset[u].row \in {"live", "removed"}
          /\ deletion' = [deletion EXCEPT ![d] = [at |-> "loaded", of |-> u]]
          /\ met' = IF Deleting(u) # {} THEN met \cup {"deletions"} ELSE met
          /\ UNCHANGED <<files, asset, upload>>
    BY DEF LoadAsset
<1>2. AssetTyped
    BY DEF AssetInv
<1>3. /\ deletion'[d].at = "loaded" /\ deletion'[d].of = u /\ deletion[d].at = "idle"
      /\ \A e \in Deletions \ {d} : deletion'[e] = deletion[e]
  <2>1. deletion'[d] = [at |-> "loaded", of |-> u]
      BY <1>1, <1>2 DEF AssetTyped
  <2>2. deletion[d].at = "idle"
      BY <1>1 DEF NoDeletion
  <2> QED
      BY <1>1, <1>2, <2>1, <2>2 DEF AssetTyped
<1>4. AssetTyped'
  <2>1. [at |-> "loaded", of |-> u] \in DeletionType
      BY DEF DeletionType
  <2>2. deletion' \in [Deletions -> DeletionType]
      BY <1>1, <1>2, <2>1 DEF AssetTyped
  <2> QED
      BY <1>1, <1>2, <2>2 DEF AssetTyped
<1>5. ASSUME met' = {} PROVE Calmly'
  <2>1. Calmly /\ Deleting(u) = {}
      BY <1>1, <1>5 DEF AssetInv
  <2>2. NamesAreChosen' /\ NamesDiffer'
      BY <1>1, <2>1, NamesStand DEF Wrote
  <2>3. HaveTheirFiles'
      BY <1>1, <2>1 DEF Calmly, HaveTheirFiles, Wrote
  <2>4. \A e \in Deletions : deletion[e].of # u
      BY <2>1 DEF Deleting
  <2>5. asset[u].row = "live"
      BY <1>1, <2>1, <2>4 DEF Calmly, RemovedByOne
  <2>6. DeletionsAreAlone'
      BY <1>1, <1>3, <2>1, <2>4, <2>5 DEF Calmly, DeletionsAreAlone, Wrote
  <2>7. RemovedByOne'
      BY <1>1, <1>3, <2>1 DEF Calmly, RemovedByOne
  <2> QED
      BY <2>2, <2>3, <2>6, <2>7 DEF Calmly
<1> QED
    BY <1>4, <1>5 DEF AssetInv

\* What a deletion that is alone does to its asset leaves the others' as they are.
\* It goes on (on), or it is over and its asset is gone.
LEMMA DeletionKeeps ==
    ASSUME AssetTyped, Calmly, NEW d \in Deletions, deletion[d].at # "idle",
           NEW u \in Uploads, deletion[d].of = u, UNCHANGED upload,
           DOMAIN files' \subseteq DOMAIN files,
           \A v \in Uploads \ {u} : \A f : Wrote(v, f) => Wrote(v, f)',
           asset'[u].source = asset[u].source, asset'[u].preview = asset[u].preview,
           \A v \in Uploads \ {u} : asset'[v] = asset[v],
           \A e \in Deletions \ {d} : deletion'[e] = deletion[e],
           \/ /\ asset'[u].row = "removed" /\ deletion'[d].of = u
              /\ deletion'[d].at \in {"source", "preview", "ends"}
              /\ deletion'[d].at = "source" =>
                    Wrote(u, asset[u].source)' /\ asset[u].source # asset[u].preview
              /\ deletion'[d].at \in {"source", "preview"} => Wrote(u, asset[u].preview)'
           \/ asset'[u].row = "gone" /\ deletion'[d].at = "idle"
    PROVE  Calmly'
<1>1. asset[u].row \in {"live", "removed"}
    BY DEF Calmly, DeletionsAreAlone, AssetTyped, DeletionType
<1>2. upload[u] = "over"
    BY <1>1 DEF AssetTyped
<1>3. NamesAreChosen' /\ NamesDiffer'
  <2>1. \A v \in Uploads : \A f : Goes(v) /\ Wrote(v, f) => Wrote(v, f)'
      BY <1>2 DEF Goes
  <2> QED
      BY <2>1, NamesStand
<1>4. HaveTheirFiles'
  <2>1. ASSUME NEW v \in Uploads, asset'[v].row \in {"saved", "live"}
        PROVE  /\ Wrote(v, asset[v].source)' /\ Wrote(v, asset[v].preview)'
               /\ asset'[v] = asset[v] /\ asset[v].source # asset[v].preview
    <3>1. v # u
        BY <2>1
    <3> QED
        BY <2>1, <3>1 DEF Calmly, HaveTheirFiles
  <2> QED
      BY <2>1 DEF HaveTheirFiles, Wrote
<1>5. \A e \in Deletions \ {d} : deletion[e].at # "idle" => deletion[e].of \in Uploads \ {u}
    BY DeletionOfUpload DEF Calmly, DeletionsAreAlone
<1>6. DeletionsAreAlone'
  <2> SUFFICES ASSUME NEW e \in Deletions, deletion'[e].at # "idle"
      PROVE  /\ \A c \in Deletions \ {e} :
                   deletion'[c].at # "idle" => deletion'[c].of # deletion'[e].of
             /\ deletion'[e].at = "loaded" => asset'[deletion'[e].of].row = "live"
             /\ deletion'[e].at # "loaded" => asset'[deletion'[e].of].row = "removed"
             /\ deletion'[e].at = "source" =>
                   /\ Wrote(deletion[e].of, asset[deletion[e].of].source)'
                   /\ asset'[deletion'[e].of].source # asset'[deletion'[e].of].preview
             /\ deletion'[e].at \in {"source", "preview"} =>
                   Wrote(deletion[e].of, asset[deletion[e].of].preview)'
      BY DEF DeletionsAreAlone
  <2>1. CASE e = d
    <3>1. /\ asset'[u].row = "removed" /\ deletion'[d].of = u
          /\ deletion'[d].at \in {"source", "preview", "ends"}
          /\ deletion'[d].at = "source" =>
                Wrote(u, asset[u].source)' /\ asset[u].source # asset[u].preview
          /\ deletion'[d].at \in {"source", "preview"} => Wrote(u, asset[u].preview)'
        BY <2>1
    <3> QED
        BY <1>5, <2>1, <3>1 DEF Wrote
  <2>2. CASE e # d
    <3>1. deletion'[e] = deletion[e] /\ deletion[e].of \in Uploads \ {u}
        BY <1>5, <2>2
    <3>2. PICK w \in Uploads \ {u} : w = deletion[e].of /\ w = deletion'[e].of
        BY <3>1
    <3>3. asset'[w] = asset[w]
        OBVIOUS
    <3>4. /\ \A c \in Deletions \ {e} : deletion[c].at # "idle" => deletion[c].of # w
          /\ deletion[e].at = "loaded" => asset[w].row = "live"
          /\ deletion[e].at # "loaded" => asset[w].row = "removed"
          /\ deletion[e].at = "source" =>
                Wrote(w, asset[w].source) /\ asset[w].source # asset[w].preview
          /\ deletion[e].at \in {"source", "preview"} => Wrote(w, asset[w].preview)
        BY <3>1, <3>2 DEF Calmly, DeletionsAreAlone
    <3>5. \A c \in Deletions \ {e} : deletion'[c].at # "idle" => deletion'[c].of # w
        BY <3>4
    <3> QED
        BY <3>1, <3>2, <3>3, <3>4, <3>5 DEF Wrote
  <2> QED
      BY <2>1, <2>2
<1>7. RemovedByOne'
  <2>1. ASSUME NEW v \in Uploads, asset'[v].row = "removed"
        PROVE  \E e \in Deletions : deletion'[e].at # "idle" /\ deletion'[e].of = v
    <3>1. CASE v = u
        BY <2>1, <3>1
    <3>2. CASE v # u
      <4>1. PICK e \in Deletions : deletion[e].at # "idle" /\ deletion[e].of = v
          BY <2>1, <3>2 DEF Calmly, RemovedByOne
      <4> QED
          BY <3>2, <4>1
    <3> QED
        BY <3>1, <3>2
  <2> QED
      BY <2>1 DEF RemovedByOne
<1> QED
    BY <1>3, <1>4, <1>6, <1>7 DEF Calmly

LEMMA RemoveRowKeeps ==
    ASSUME AssetInv, NEW d \in Deletions, RemoveRow(d) PROVE AssetInv'
<1>1. PICK u : u = deletion[d].of
    OBVIOUS
<1>2. /\ deletion[d].at = "loaded" /\ asset[u].row # "removed"
      /\ asset' = [asset EXCEPT ![u].row = IF @ = "live" THEN "removed" ELSE @]
      /\ deletion' = [deletion EXCEPT ![d].at = "source"]
      /\ UNCHANGED <<files, upload, met>>
    BY <1>1 DEF RemoveRow
<1>3. AssetTyped
    BY DEF AssetInv
<1>4. /\ u \in Uploads
      /\ deletion[d] \in [at : {"loaded", "source", "preview", "ends"}, of : Uploads]
    BY <1>1, <1>2, <1>3, DeletionOfUpload
<1>5. /\ asset'[u].source = asset[u].source /\ asset'[u].preview = asset[u].preview
      /\ asset'[u].row = IF asset[u].row = "live" THEN "removed" ELSE asset[u].row
      /\ \A v \in Uploads \ {u} : asset'[v] = asset[v]
    BY ZenonT(60), <1>2, <1>3, <1>4 DEF AssetTyped, AssetType
<1>6. /\ deletion'[d].at = "source" /\ deletion'[d].of = u
      /\ \A e \in Deletions \ {d} : deletion'[e] = deletion[e]
    BY <1>1, <1>2, <1>3, <1>4 DEF AssetTyped
<1>7. AssetTyped'
  <2>1. asset' \in [Uploads -> AssetType]
    <3>1. asset' = [asset EXCEPT ![u].row = asset'[u].row]
        BY <1>2, <1>3, <1>4, <1>5 DEF AssetTyped
    <3>2. asset'[u].row \in {"none", "saved", "live", "removed", "gone"}
        BY <1>3, <1>4, <1>5 DEF AssetTyped, AssetType
    <3> QED
      <4>1. [asset[u] EXCEPT !.row = asset'[u].row] \in AssetType
        <5>1. asset[u] \in AssetType
            BY <1>3, <1>4 DEF AssetTyped
        <5> QED
            BY <3>2, <5>1 DEF AssetType
      <4> QED
          BY <1>3, <3>1, <4>1 DEF AssetTyped
  <2>2. deletion' \in [Deletions -> DeletionType]
      BY <1>2, <1>3, <1>4 DEF AssetTyped, DeletionType
  <2> QED
      BY <1>2, <1>3, <1>4, <1>5, <2>1, <2>2 DEF AssetTyped
<1>8. ASSUME met' = {} PROVE Calmly'
  <2>1. Calmly
      BY <1>2, <1>8 DEF AssetInv
  <2>2. asset[u].row = "live"
      BY <1>1, <1>2, <2>1 DEF Calmly, DeletionsAreAlone
  <2>3. /\ Wrote(u, asset[u].source) /\ Wrote(u, asset[u].preview)
        /\ asset[u].source # asset[u].preview
      BY <1>4, <2>1, <2>2 DEF Calmly, HaveTheirFiles
  <2>4. asset'[u].row = "removed" /\ deletion[d].at # "idle"
      BY <1>2, <1>5, <2>2
  <2>5. Wrote(u, asset[u].source)' /\ Wrote(u, asset[u].preview)'
      BY <1>2, <1>5, <2>3 DEF Wrote
  <2>6. \A v \in Uploads \ {u} : \A f : Wrote(v, f) => Wrote(v, f)'
      BY <1>2 DEF Wrote
  <2> QED
      BY <1>1, <1>2, <1>3, <1>4, <1>5, <1>6, <2>1, <2>3, <2>4, <2>5, <2>6, DeletionKeeps
<1> QED
    BY <1>7, <1>8 DEF AssetInv

\* A file that an upload wrote is deleted, or is left behind: the others stay.
LEMMA FileIsDeleted ==
    ASSUME NEW u \in Uploads, NEW f, UNCHANGED files \/ (Wrote(u, f) /\ DeleteFile(f))
    PROVE  /\ \A v \in Uploads \ {u} : \A g : Wrote(v, g) => Wrote(v, g)'
           /\ \A g : Wrote(u, g) /\ g # f => Wrote(u, g)'
<1>1. CASE UNCHANGED files
    BY <1>1 DEF Wrote
<1>2. CASE Wrote(u, f) /\ DeleteFile(f)
  <2>1. /\ DOMAIN files' = DOMAIN files \ {f}
        /\ \A g \in DOMAIN files \ {f} : files'[g] = files[g]
      BY <1>2 DEF DeleteFile
  <2> QED
      BY <1>2, <2>1 DEF Wrote
<1> QED
    BY <1>1, <1>2

\* A step of a deletion that leaves its row alone and goes on to `to'.
LEMMA DeletionStepKeeps ==
    ASSUME AssetInv, NEW d \in Deletions, deletion[d].at \in {"source", "preview"},
           NEW u \in Uploads, u = deletion[d].of, NEW to \in {"preview", "ends"},
           deletion' = [deletion EXCEPT ![d].at = to], UNCHANGED <<asset, upload, met>>,
           DOMAIN files' \subseteq DOMAIN files,
           files' \in [DOMAIN files' -> Uploads],
           DOMAIN files' \subseteq FileName, IsFiniteSet(DOMAIN files'),
           met = {} => /\ \A v \in Uploads \ {u} : \A g : Wrote(v, g) => Wrote(v, g)'
                       /\ to = "preview" => Wrote(u, asset[u].preview)'
    PROVE  AssetInv'
<1>1. AssetTyped
    BY DEF AssetInv
<1>2. deletion[d] \in [at : {"loaded", "source", "preview", "ends"}, of : Uploads]
    BY <1>1, DeletionOfUpload
<1>3. /\ deletion'[d].at = to /\ deletion'[d].of = u
      /\ \A e \in Deletions \ {d} : deletion'[e] = deletion[e]
    BY <1>1, <1>2 DEF AssetTyped
<1>4. AssetTyped'
  <2>1. deletion' \in [Deletions -> DeletionType]
      BY <1>1, <1>2 DEF AssetTyped, DeletionType
  <2> QED
      BY <1>1, <2>1 DEF AssetTyped
<1>5. ASSUME met' = {} PROVE Calmly'
  <2>1. Calmly
      BY <1>5 DEF AssetInv
  <2>2. asset'[u].row = "removed" /\ deletion[d].at # "idle"
      BY <2>1 DEF Calmly, DeletionsAreAlone
  <2>3. \A v \in Uploads \ {u} : \A g : Wrote(v, g) => Wrote(v, g)'
      BY <1>5
  <2>4. /\ deletion'[d].at \in {"source", "preview", "ends"} /\ deletion'[d].at # "source"
        /\ deletion'[d].at \in {"source", "preview"} => Wrote(u, asset[u].preview)'
      BY <1>3, <1>5
  <2> QED
      BY <1>1, <1>3, <2>1, <2>2, <2>3, <2>4, DeletionKeeps
<1> QED
    BY <1>4, <1>5 DEF AssetInv

\* Without the hypothesis on met the deletion of a file that another upload has
\* written over is still a step between states of the type.
LEMMA FilesStayFiles ==
    ASSUME AssetTyped, NEW f, UNCHANGED files \/ DeleteFile(f)
    PROVE  /\ DOMAIN files' \subseteq DOMAIN files
           /\ files' \in [DOMAIN files' -> Uploads]
           /\ DOMAIN files' \subseteq FileName /\ IsFiniteSet(DOMAIN files')
<1>1. CASE UNCHANGED files
    BY <1>1 DEF AssetTyped
<1>2. CASE DeleteFile(f)
  <2>1. DOMAIN files' = DOMAIN files \ {f}
      BY <1>2 DEF DeleteFile
  <2>2. IsFiniteSet(DOMAIN files')
      BY <2>1, FS_Subset DEF AssetTyped
  <2>3. files' \in [DOMAIN files' -> Uploads] /\ DOMAIN files' \subseteq FileName
    <3>1. files' = [g \in DOMAIN files \ {f} |-> files[g]]
        BY <1>2 DEF DeleteFile
    <3>2. \A g \in DOMAIN files \ {f} : files[g] \in Uploads
        BY DEF AssetTyped
    <3> QED
        BY <2>1, <3>1, <3>2 DEF AssetTyped
  <2> QED
      BY <2>1, <2>2, <2>3
<1> QED
    BY <1>1, <1>2

LEMMA DeleteSourceFileKeeps ==
    ASSUME AssetInv, NEW d \in Deletions, DeleteSourceFile(d) PROVE AssetInv'
<1>1. PICK u, f : u = deletion[d].of /\ f = asset[u].source
    OBVIOUS
<1>2. /\ deletion[d].at = "source" /\ UNCHANGED <<asset, upload, met>>
      /\ \/ DeleteFile(f) /\ deletion' = [deletion EXCEPT ![d].at = "preview"]
         \/ UNCHANGED files /\ deletion' = [deletion EXCEPT ![d].at = "ends"]
    BY <1>1 DEF DeleteSourceFile
<1>3. PICK to \in {"preview", "ends"} :
          /\ deletion' = [deletion EXCEPT ![d].at = to]
          /\ to = "preview" => DeleteFile(f)
          /\ UNCHANGED files \/ DeleteFile(f)
    BY <1>2
<1>4. AssetTyped /\ u \in Uploads
    BY <1>1, <1>2, DeletionOfUpload DEF AssetInv
<1>5. /\ DOMAIN files' \subseteq DOMAIN files
      /\ files' \in [DOMAIN files' -> Uploads]
      /\ DOMAIN files' \subseteq FileName /\ IsFiniteSet(DOMAIN files')
    BY <1>3, <1>4, FilesStayFiles
<1>6. ASSUME met = {}
      PROVE  /\ \A v \in Uploads \ {u} : \A g : Wrote(v, g) => Wrote(v, g)'
             /\ to = "preview" => Wrote(u, asset[u].preview)'
  <2>1. Wrote(u, f) /\ Wrote(u, asset[u].preview) /\ asset[u].preview # f
      BY <1>1, <1>2, <1>6 DEF AssetInv, Calmly, DeletionsAreAlone
  <2>2. /\ \A v \in Uploads \ {u} : \A g : Wrote(v, g) => Wrote(v, g)'
        /\ \A g : Wrote(u, g) /\ g # f => Wrote(u, g)'
      BY <1>3, <1>4, <2>1, FileIsDeleted
  <2>3. asset'[u].preview = asset[u].preview
      BY <1>2
  <2> QED
      BY <2>1, <2>2, <2>3 DEF Wrote
<1> QED
    BY <1>1, <1>2, <1>3, <1>4, <1>5, <1>6, DeletionStepKeeps

LEMMA DeletePreviewFileKeeps ==
    ASSUME AssetInv, NEW d \in Deletions, DeletePreviewFile(d) PROVE AssetInv'
<1>1. PICK u, f : u = deletion[d].of /\ f = asset[u].preview
    OBVIOUS
<1>2. /\ deletion[d].at = "preview" /\ UNCHANGED <<asset, upload, met>>
      /\ UNCHANGED files \/ DeleteFile(f)
      /\ deletion' = [deletion EXCEPT ![d].at = "ends"]
    BY <1>1 DEF DeletePreviewFile
<1>3. AssetTyped /\ u \in Uploads
    BY <1>1, <1>2, DeletionOfUpload DEF AssetInv
<1>4. /\ DOMAIN files' \subseteq DOMAIN files
      /\ files' \in [DOMAIN files' -> Uploads]
      /\ DOMAIN files' \subseteq FileName /\ IsFiniteSet(DOMAIN files')
    BY <1>2, <1>3, FilesStayFiles
<1>5. ASSUME met = {} PROVE \A v \in Uploads \ {u} : \A g : Wrote(v, g) => Wrote(v, g)'
  <2>1. Wrote(u, f)
      BY <1>1, <1>2, <1>5 DEF AssetInv, Calmly, DeletionsAreAlone
  <2> QED
      BY <1>2, <1>3, <2>1, FileIsDeleted
<1> QED
    BY <1>1, <1>2, <1>3, <1>4, <1>5, DeletionStepKeeps

LEMMA EndDeletionKeeps ==
    ASSUME AssetInv, DeletedAreOver, NEW d \in Deletions, EndDeletion(d) PROVE AssetInv'
<1>1. PICK u : u = deletion[d].of
    OBVIOUS
<1>2. PICK left \in {"gone", "live"} :
          /\ deletion[d].at = "ends" /\ asset' = [asset EXCEPT ![u].row = left]
          /\ left = "gone" => UNCHANGED met
          /\ left = "live" => asset[u].row = "removed" /\ met' = met \cup {"undone"}
          /\ deletion' = [deletion EXCEPT ![d] = NoDeletion]
          /\ UNCHANGED <<files, upload>>
  <2>1. CASE asset' = [asset EXCEPT ![u].row = "gone"] /\ UNCHANGED met
      BY <1>1, <2>1 DEF EndDeletion
  <2>2. CASE /\ asset[u].row = "removed"
             /\ asset' = [asset EXCEPT ![u].row = "live"] /\ met' = met \cup {"undone"}
      BY <1>1, <2>2 DEF EndDeletion
  <2> QED
      BY <1>1, <2>1, <2>2 DEF EndDeletion
<1>3. AssetTyped
    BY DEF AssetInv
<1>4. /\ u \in Uploads /\ deletion[d].at # "idle"
    BY <1>1, <1>2, <1>3, DeletionOfUpload
<1>5. /\ asset'[u].source = asset[u].source /\ asset'[u].preview = asset[u].preview
      /\ asset'[u].row = left
      /\ \A v \in Uploads \ {u} : asset'[v] = asset[v]
    BY <1>2, <1>3, <1>4 DEF AssetTyped, AssetType
<1>6. /\ deletion'[d] = NoDeletion
      /\ \A e \in Deletions \ {d} : deletion'[e] = deletion[e]
    BY <1>2, <1>3 DEF AssetTyped
<1>7. deletion'[d].at = "idle"
    BY <1>6 DEF NoDeletion
<1>8. met' = {} => Calmly'
  <2> SUFFICES ASSUME met' = {} PROVE Calmly'
      OBVIOUS
  <2>1. left = "gone" /\ Calmly
    <3>1. left # "live"
        BY <1>2
    <3> QED
        BY <1>2, <3>1 DEF AssetInv
  <2>2. /\ \A v \in Uploads \ {u} : \A f : Wrote(v, f) => Wrote(v, f)'
        /\ DOMAIN files' \subseteq DOMAIN files
      BY <1>2 DEF Wrote
  <2> QED
      BY <1>1, <1>2, <1>3, <1>4, <1>5, <1>6, <1>7, <2>1, <2>2, DeletionKeeps
<1>9. AssetTyped'
  <2>1. asset' \in [Uploads -> AssetType]
      BY ZenonT(60), <1>2, <1>3, <1>4 DEF AssetTyped, AssetType
  <2>2. deletion' \in [Deletions -> DeletionType]
      BY <1>2, <1>3 DEF AssetTyped, DeletionType
  <2>3. upload[u] = "over"
      BY <1>1, <1>4 DEF DeletedAreOver
  <2> QED
      BY <1>2, <1>3, <1>5, <2>1, <2>2, <2>3 DEF AssetTyped
<1> QED
    BY <1>8, <1>9 DEF AssetInv

LEMMA AssetStep == AssetInv /\ DeletedAreOver /\ [AssetNext]_assetVars => AssetInv'
<1> SUFFICES ASSUME AssetInv, DeletedAreOver, [AssetNext]_assetVars PROVE AssetInv'
    OBVIOUS
<1>1. ASSUME NEW u \in Uploads,
             \/ ChooseSource(u) \/ ChoosePreview(u) \/ WriteSource(u)
             \/ WritePreview(u) \/ SaveAsset(u) \/ UploadFails(u) \/ EndUpload(u)
      PROVE  AssetInv'
    BY <1>1, ChooseSourceKeeps, ChoosePreviewKeeps, WriteSourceKeeps, WritePreviewKeeps,
       SaveAssetKeeps, UploadFailsKeeps, EndUploadKeeps
<1>2. ASSUME NEW d \in Deletions,
             \/ LoadAsset(d) \/ RemoveRow(d) \/ DeleteSourceFile(d)
             \/ DeletePreviewFile(d) \/ EndDeletion(d)
      PROVE  AssetInv'
    BY <1>2, LoadAssetKeeps, RemoveRowKeeps, DeleteSourceFileKeeps, DeletePreviewFileKeeps,
       EndDeletionKeeps
<1>3. CASE UNCHANGED assetVars
  <2>1. AssetTyped'
      BY <1>3 DEF assetVars, AssetInv, AssetTyped
  <2>2. Calmly => NamesAreChosen' /\ NamesDiffer'
      BY <1>3, NamesStand DEF assetVars, Wrote
  <2>3. Calmly => HaveTheirFiles' /\ DeletionsAreAlone' /\ RemovedByOne'
      BY <1>3 DEF assetVars, Calmly, HaveTheirFiles, DeletionsAreAlone, RemovedByOne, Wrote
  <2> QED
      BY <1>3, <2>1, <2>2, <2>3 DEF assetVars, AssetInv, Calmly
<1> QED
    BY <1>1, <1>2, <1>3 DEF AssetNext

\* However many upload and delete, and at whatever moment: names are used again as
\* soon as they are free (generateUniqueName), and yet no asset loses its files to
\* another, unless two uploads hold one name at a time, two calls delete one asset,
\* or a deletion is rolled back.
THEOREM AssetsKeepTheirFiles == AssetSpec => []AssetsHaveTheirFiles
<1>1. AssetInit => DeletedAreOver
    BY DEF AssetInit, DeletedAreOver, NoDeletion
<1>2. AssetInv => AssetTyped
    BY DEF AssetInv
<1>3. AssetInv => AssetsHaveTheirFiles
    BY DEF AssetInv, Calmly, HaveTheirFiles, AssetsHaveTheirFiles, Wrote
<1> QED
    BY InitAsset, AssetStep, OverStep, <1>1, <1>2, <1>3, PTL DEF AssetSpec

-----------------------------------------------------------------------------
(***************************************************************************)
(* Administrators: for any administrators, requests, processes and rows of *)
(* the SuperAdmin role.                                                    *)
(***************************************************************************)
AdminSpec == AdminsInit /\ [][AdminsNext]_adminVars

Standing == {"none", "live", "gone"}
AdminType == [row : Standing, user : Standing, roles : SUBSET Nat]
CallType == [at : {"idle", "loaded", "row saved", "saved"},
             kind : {"none", "create", "update", "patch", "assign", "delete"},
             on : SUBSET Admins, want : SUBSET Nat, drop : SUBSET Nat,
             revives : SUBSET {"row", "user"}, named : {"keep", "other", "configured"}]
StartType == [at : {"off", "role", "no role", "user", "new user", "new row", "first role",
                    "revive", "row", "own role"},
              on : Admins \cup {NoAdmin}, seen : SUBSET Nat]

\* The stages of a start at which there is an administrator to work on.
OnSome == {"new row", "first role", "revive", "row", "own role"}

AdminTyped ==
    /\ superRoles \subseteq Nat /\ IsFiniteSet(superRoles)
    /\ admin \in [Admins -> AdminType]
    /\ configured \in Admins \cup {NoAdmin}
    /\ calling \in [AdminRequests -> CallType]
    /\ starting \in [Processes -> StartType]
    /\ \A p \in Processes : starting[p].at \in OnSome => starting[p].on \in Admins
    /\ guaranteed \in BOOLEAN /\ calm \subseteq Processes

IsUser(a) == admin[a].user # "none"

\* The configured identifier is some user's, and so is what a request works on.
ConfiguredIsUser == configured # NoAdmin => configured \in Admins /\ IsUser(configured)

CallIsOnUsers(r) ==
    calling[r].at = "loaded" \/ "user" \notin calling[r].revives =>
       \A a \in calling[r].on : IsUser(a)

CallsAreOnUsers == \A r \in AdminRequests : CallIsOnUsers(r)

\* A start that has overlapped nothing is alone, and has read what is there.
CalmIsAlone ==
    \A p \in calm : /\ \A q \in Processes \ {p} : starting[q] = NotStarting
                    /\ \A r \in AdminRequests : ~Calling(r)

StartIsTrue(p) ==
    LET s == starting[p] IN
    s.at \in OnSome =>
       /\ s.at # "revive" => admin[s.on].user = "live"
       /\ s.at \in {"first role", "own role"} => admin[s.on].row = "live"
       /\ s.at # "first role" => admin[s.on].roles = s.seen

CalmStartsAreTrue == \A p \in calm : StartIsTrue(p)

\* A deletion that is under way was refused if it left no superadmin, and no
\* other has been committed since.
Spares(r) ==
    calling[r].kind = "delete" =>
       \A a \in calling[r].on : \E b \in Admins \ {a} : Effective(b)

DeletionsSpare == guaranteed => \A r \in AdminRequests : Spares(r)

AdminInv ==
    /\ AdminTyped /\ ConfiguredIsUser /\ CallsAreOnUsers /\ CalmIsAlone
    /\ CalmStartsAreTrue /\ DeletionsSpare /\ SuperadminRemains

-----------------------------------------------------------------------------
LEMMA NotCallingIs ==
    /\ NotCalling \in CallType
    /\ NotCalling.at = "idle" /\ NotCalling.kind = "none" /\ NotCalling.on = {}
BY DEF NotCalling, CallType

LEMMA InitAdmins == AdminsInit => AdminInv
<1> SUFFICES ASSUME AdminsInit PROVE AdminInv
    OBVIOUS
<1>1. superRoles \subseteq Nat /\ IsFiniteSet(superRoles)
    BY FS_EmptySet DEF AdminsInit
<1>2. admin \in [Admins -> AdminType]
    BY DEF AdminsInit, AdminType, Blank, Standing
<1>3. calling \in [AdminRequests -> CallType]
      /\ \A r \in AdminRequests : calling[r].on = {} /\ calling[r].kind = "none"
    BY DEF AdminsInit, CallType, NotCalling
<1>4. starting \in [Processes -> StartType]
      /\ \A p \in Processes : starting[p].at = "off"
    BY DEF AdminsInit, StartType, NotStarting
<1>5. AdminTyped
    BY <1>1, <1>2, <1>3, <1>4 DEF AdminTyped, AdminsInit, OnSome
<1>6. calm = {} /\ ~guaranteed /\ configured = NoAdmin
    BY DEF AdminsInit
<1> QED
    BY <1>3, <1>5, <1>6 DEF AdminInv, ConfiguredIsUser, CallsAreOnUsers, CallIsOnUsers,
                CalmIsAlone, CalmStartsAreTrue, DeletionsSpare, SuperadminRemains

\* Whoever is a superadmin stays one: the last one too, and those that the
\* deletions under way leave alone.
LEMMA SuperadminsStay ==
    ASSUME SuperadminRemains, DeletionsSpare, UNCHANGED calling,
           guaranteed' => guaranteed /\ \A a \in Admins : Effective(a) => Effective(a)'
    PROVE  SuperadminRemains' /\ DeletionsSpare'
<1>1. SuperadminRemains'
    BY DEF SuperadminRemains
<1>2. ASSUME guaranteed', NEW r \in AdminRequests PROVE Spares(r)'
  <2>1. Spares(r)
      BY <1>2 DEF DeletionsSpare
  <2> QED
      BY <1>2, <2>1 DEF Spares
<1> QED
    BY <1>1, <1>2 DEF DeletionsSpare

\* A step of a start: it is the only one that may be calm.
LEMMA StartKeeps ==
    ASSUME AdminInv, NEW p \in Processes, starting[p].at # "off",
           UNCHANGED <<calling, calm>>, AdminTyped',
           \A q \in Processes \ {p} : starting'[q] = starting[q],
           \A a \in Admins : IsUser(a) => IsUser(a)',
           ConfiguredIsUser',
           guaranteed' => \/ guaranteed /\ \A a \in Admins : Effective(a) => Effective(a)'
                          \/ p \in calm /\ \E a \in Admins : Effective(a)',
           p \in calm => StartIsTrue(p)'
    PROVE  AdminInv'
<1>1. AdminTyped /\ CalmIsAlone /\ SuperadminRemains /\ DeletionsSpare
    BY DEF AdminInv
<1>2. starting[p] # NotStarting
    BY DEF NotStarting
<1>3. calm \subseteq {p}
    BY <1>1, <1>2 DEF CalmIsAlone, AdminTyped
<1>4. CalmIsAlone' /\ CalmStartsAreTrue'
  <2>1. CalmIsAlone'
      BY <1>1, <1>3 DEF CalmIsAlone, Calling
  <2>2. CalmStartsAreTrue'
      BY <1>3 DEF CalmStartsAreTrue
  <2> QED
      BY <2>1, <2>2
<1>5. CallsAreOnUsers'
  <2>1. ASSUME NEW r \in AdminRequests PROVE CallIsOnUsers(r)'
    <3>1. CallIsOnUsers(r) /\ calling[r].on \subseteq Admins
        BY <1>1 DEF AdminInv, CallsAreOnUsers, AdminTyped, CallType
    <3> QED
        BY <3>1 DEF CallIsOnUsers
  <2> QED
      BY <2>1 DEF CallsAreOnUsers
<1>6. SuperadminRemains' /\ DeletionsSpare'
  <2>1. CASE guaranteed' => guaranteed /\ \A a \in Admins : Effective(a) => Effective(a)'
      BY <1>1, <2>1, SuperadminsStay
  <2>2. CASE p \in calm /\ \E a \in Admins : Effective(a)'
    <3>1. \A r \in AdminRequests : calling[r].kind # "delete"
        BY <1>1, <2>2 DEF CalmIsAlone, Calling, NotCalling
    <3> QED
        BY <2>2, <3>1 DEF SuperadminRemains, DeletionsSpare, Spares
  <2> QED
      BY <2>1, <2>2
<1> QED
    BY <1>4, <1>5, <1>6 DEF AdminInv

\* A step of a request: there is no start that is calm.
LEMMA RequestKeeps ==
    ASSUME AdminInv, NEW r \in AdminRequests, UNCHANGED starting,
           calm' = {} \/ (Calling(r) /\ UNCHANGED calm), AdminTyped',
           \A q \in AdminRequests \ {r} : calling'[q] = calling[q],
           \A a \in Admins : IsUser(a) => IsUser(a)',
           ConfiguredIsUser', CallIsOnUsers(r)', SuperadminRemains', DeletionsSpare'
    PROVE  AdminInv'
<1>1. calm' = {}
    BY DEF AdminInv, CalmIsAlone
<1>2. CalmIsAlone' /\ CalmStartsAreTrue'
    BY <1>1 DEF CalmIsAlone, CalmStartsAreTrue
<1>3. ASSUME NEW q \in AdminRequests \ {r} PROVE CallIsOnUsers(q)'
  <2>1. CallIsOnUsers(q) /\ calling[q].on \subseteq Admins /\ calling'[q] = calling[q]
      BY DEF AdminInv, CallsAreOnUsers, AdminTyped, CallType
  <2> QED
      BY <2>1 DEF CallIsOnUsers
<1>4. CallsAreOnUsers'
    BY <1>3 DEF CallsAreOnUsers
<1> QED
    BY <1>2, <1>4 DEF AdminInv

-----------------------------------------------------------------------------
LEMMA LaunchKeeps ==
    ASSUME AdminInv, NEW p \in Processes, Launch(p) PROVE AdminInv'
<1>1. /\ starting[p] = NotStarting /\ starting' = [starting EXCEPT ![p].at = "role"]
      /\ \/ calm' = {}
         \/ /\ calm' = {p} /\ \A r \in AdminRequests : ~Calling(r)
            /\ \A q \in Processes : starting[q] = NotStarting
      /\ UNCHANGED <<superRoles, admin, configured, calling, guaranteed>>
    BY DEF Launch
<1>2. AdminTyped
    BY DEF AdminInv
<1>3. /\ starting'[p].at = "role"
      /\ \A q \in Processes \ {p} : starting'[q] = starting[q]
    BY <1>1, <1>2 DEF AdminTyped, StartType
<1>4. AdminTyped'
  <2>1. starting' \in [Processes -> StartType]
    <3>1. [starting[p] EXCEPT !.at = "role"] \in StartType
        BY <1>2 DEF AdminTyped, StartType
    <3> QED
        BY <1>1, <1>2, <3>1 DEF AdminTyped
  <2> QED
      BY <1>1, <1>2, <1>3, <2>1 DEF AdminTyped, OnSome
<1>5. CalmIsAlone' /\ CalmStartsAreTrue'
    BY <1>1, <1>3 DEF CalmIsAlone, CalmStartsAreTrue, StartIsTrue, Calling, OnSome
<1>6. SuperadminRemains' /\ DeletionsSpare'
    BY <1>1, SuperadminsStay DEF AdminInv, Effective
<1>7. ConfiguredIsUser' /\ CallsAreOnUsers'
    BY <1>1 DEF AdminInv, ConfiguredIsUser, CallsAreOnUsers, CallIsOnUsers, IsUser
<1> QED
    BY <1>4, <1>5, <1>6, <1>7 DEF AdminInv

\* A step that leaves the rows of administrators alone, and the history.
LEMMA QuietStart ==
    ASSUME AdminInv, NEW p \in Processes, starting[p].at # "off",
           NEW s \in StartType, starting' = [starting EXCEPT ![p] = s],
           superRoles' \subseteq Nat, IsFiniteSet(superRoles'),
           UNCHANGED <<admin, configured, calling, guaranteed, calm>>,
           s.at \in OnSome => /\ s.on \in Admins
                              /\ p \in calm => StartIsTrue(p)'
    PROVE  AdminInv'
<1>1. AdminTyped /\ ConfiguredIsUser
    BY DEF AdminInv
<1>2. starting'[p] = s /\ \A q \in Processes \ {p} : starting'[q] = starting[q]
    BY <1>1 DEF AdminTyped
<1>3. AdminTyped'
  <2>1. starting' \in [Processes -> StartType]
      BY <1>1 DEF AdminTyped
  <2> QED
      BY <1>1, <1>2, <2>1 DEF AdminTyped
<1>4. p \in calm => StartIsTrue(p)'
    BY <1>2 DEF StartIsTrue
<1>5. ConfiguredIsUser' /\ \A a \in Admins : IsUser(a) => IsUser(a)'
    BY <1>1 DEF ConfiguredIsUser, IsUser
<1>6. guaranteed' => guaranteed /\ \A a \in Admins : Effective(a) => Effective(a)'
    BY DEF Effective
<1> QED
    BY <1>2, <1>3, <1>4, <1>5, <1>6, StartKeeps

LEMMA RolesKeep ==
    ASSUME AdminInv, NEW p \in Processes,
           EnsureSuperAdminRole(p) \/ CreateSuperAdminRole(p) \/ StartFails(p)
    PROVE  AdminInv'
<1>1. AdminTyped
    BY DEF AdminInv
<1>2. starting[p] \in StartType
    BY <1>1 DEF AdminTyped
<1>3. WithRoles(p) \in {"user", "off"}
    BY DEF WithRoles
<1>4. ASSUME NEW to \in {"no role", "user", "off"}
      PROVE  [starting[p] EXCEPT !.at = to] \in StartType /\ to \notin OnSome
             /\ [starting[p] EXCEPT !.at = to].at = to
    BY <1>2 DEF StartType, OnSome
<1>5. CASE EnsureSuperAdminRole(p)
  <2>1. PICK to \in {"no role", "user", "off"} :
            /\ starting[p].at = "role" /\ starting' = [starting EXCEPT ![p].at = to]
            /\ UNCHANGED <<superRoles, admin, configured, calling, guaranteed, calm>>
      BY <1>3, <1>5 DEF EnsureSuperAdminRole
  <2> DEFINE s == [starting[p] EXCEPT !.at = to]
  <2>2. s \in StartType /\ s.at \notin OnSome /\ starting' = [starting EXCEPT ![p] = s]
      BY <1>4, <2>1
  <2> QED
      BY <1>1, <2>1, <2>2, QuietStart DEF AdminTyped
<1>6. CASE CreateSuperAdminRole(p)
  <2>1. /\ starting[p].at = "no role" /\ starting' = [starting EXCEPT ![p].at = WithRoles(p)]
        /\ superRoles' = superRoles \cup {Cardinality(superRoles) + 1}
        /\ UNCHANGED <<admin, configured, calling, guaranteed, calm>>
      BY <1>6 DEF CreateSuperAdminRole
  <2> DEFINE s == [starting[p] EXCEPT !.at = WithRoles(p)]
  <2>2. s \in StartType /\ s.at \notin OnSome /\ starting' = [starting EXCEPT ![p] = s]
      BY <1>3, <1>4, <2>1
  <2>3. superRoles' \subseteq Nat /\ IsFiniteSet(superRoles')
    <3>1. superRoles \subseteq Nat /\ IsFiniteSet(superRoles)
        BY <1>1 DEF AdminTyped
    <3>2. Cardinality(superRoles) \in Nat
        BY <3>1, FS_CardinalityType
    <3>3. IsFiniteSet(superRoles \cup {Cardinality(superRoles) + 1})
        BY <3>1, FS_AddElement
    <3>4. \A n \in Nat : superRoles \cup {n + 1} \subseteq Nat
        BY <3>1
    <3> HIDE DEF s
    <3> QED
        BY <2>1, <3>2, <3>3, <3>4
  <2> QED
      BY <2>1, <2>2, <2>3, QuietStart
<1>7. CASE StartFails(p)
  <2>1. /\ starting[p].at # "off" /\ starting' = [starting EXCEPT ![p] = NotStarting]
        /\ UNCHANGED <<superRoles, admin, configured, calling, guaranteed, calm>>
      BY <1>7 DEF StartFails
  <2>2. NotStarting \in StartType /\ NotStarting.at \notin OnSome
      BY DEF NotStarting, StartType, OnSome
  <2> QED
      BY <1>1, <2>1, <2>2, QuietStart DEF AdminTyped
<1> QED
    BY <1>5, <1>6, <1>7

LEMMA FindSuperAdminUserKeeps ==
    ASSUME AdminInv, NEW p \in Processes, FindSuperAdminUser(p) PROVE AdminInv'
<1>1. /\ starting[p].at = "user"
      /\ UNCHANGED <<superRoles, admin, configured, calling, guaranteed, calm>>
    BY DEF FindSuperAdminUser
<1>2. AdminTyped /\ ConfiguredIsUser /\ starting[p] \in StartType
    BY DEF AdminInv, AdminTyped
<1>3. CASE configured = NoAdmin
  <2> DEFINE s == [starting[p] EXCEPT !.at = "new user"]
  <2>1. starting' = [starting EXCEPT ![p] = s]
      BY <1>3 DEF FindSuperAdminUser
  <2>2. s \in StartType /\ s.at \notin OnSome
      BY <1>2 DEF StartType, OnSome
  <2> QED
      BY <1>1, <1>2, <2>1, <2>2, QuietStart DEF AdminTyped
<1>4. CASE configured # NoAdmin
  <2> DEFINE s == [at |-> IF admin[configured].user = "gone" THEN "revive" ELSE "row",
                   on |-> configured, seen |-> admin[configured].roles]
  <2>1. starting' = [starting EXCEPT ![p] = s]
      BY <1>4 DEF FindSuperAdminUser
  <2>2. configured \in Admins /\ admin[configured] \in AdminType /\ IsUser(configured)
      BY <1>2, <1>4 DEF ConfiguredIsUser, AdminTyped
  <2>3. s \in StartType
      BY <2>2 DEF StartType, AdminType
  <2>4. starting'[p] = s
      BY <1>2, <2>1 DEF AdminTyped
  <2>5. StartIsTrue(p)'
    <3>1. s.at # "revive" => admin[configured].user = "live"
        BY <2>2 DEF IsUser, AdminType, Standing
    <3>2. s.at \notin {"first role", "own role"} /\ s.on = configured
          /\ s.seen = admin[configured].roles
        OBVIOUS
    <3> HIDE DEF s
    <3> QED
        BY <1>1, <2>4, <3>1, <3>2 DEF StartIsTrue
  <2>6. s.on \in Admins
      BY <2>2
  <2> HIDE DEF s
  <2> QED
      BY <1>1, <1>2, <2>1, <2>3, <2>5, <2>6, QuietStart DEF AdminTyped
<1> QED
    BY <1>3, <1>4

LEMMA NewSuperAdminUserKeeps ==
    ASSUME AdminInv, NEW p \in Processes, NewSuperAdminUser(p) PROVE AdminInv'
<1>1. PICK a \in Admins :
          /\ starting[p].at = "new user" /\ admin[a] = Blank
          /\ admin' = [admin EXCEPT ![a].user = "live"] /\ configured' = a
          /\ starting' = [starting EXCEPT ![p] = [at |-> "new row", on |-> a, seen |-> {}]]
          /\ UNCHANGED <<superRoles, calling, guaranteed, calm>>
    BY DEF NewSuperAdminUser
<1>2. AdminTyped
    BY DEF AdminInv
<1>3. /\ admin'[a].user = "live" /\ admin'[a].roles = {} /\ admin[a].roles = {}
      /\ \A b \in Admins \ {a} : admin'[b] = admin[b]
  <2>1. admin[a].roles = {} /\ admin[a] \in AdminType
    <3>1. Blank.roles = {}
        BY DEF Blank
    <3> QED
        BY <1>1, <1>2, <3>1 DEF AdminTyped
  <2> QED
      BY <1>1, <1>2, <2>1 DEF AdminTyped, AdminType
<1>4. /\ starting'[p].at = "new row" /\ starting'[p].on = a /\ starting'[p].seen = {}
      /\ \A q \in Processes \ {p} : starting'[q] = starting[q]
    BY <1>1, <1>2 DEF AdminTyped
<1>5. AdminTyped'
  <2>1. admin' \in [Admins -> AdminType]
      BY <1>1, <1>2 DEF AdminTyped, AdminType, Standing
  <2>2. starting' \in [Processes -> StartType]
      BY <1>1, <1>2 DEF AdminTyped, StartType
  <2> QED
      BY <1>1, <1>2, <1>4, <2>1, <2>2 DEF AdminTyped
<1>6. \A b \in Admins : IsUser(b) => IsUser(b)'
    BY <1>3 DEF IsUser
<1>7. ConfiguredIsUser'
    BY <1>1, <1>3 DEF ConfiguredIsUser, IsUser
<1>8. StartIsTrue(p)'
    BY <1>3, <1>4 DEF StartIsTrue
<1>9. guaranteed' => guaranteed /\ \A b \in Admins : Effective(b) => Effective(b)'
    BY <1>1, <1>3 DEF Effective
<1> QED
    BY <1>1, <1>4, <1>5, <1>6, <1>7, <1>8, <1>9, StartKeeps

\* save() of the user of a start.
LEMMA UserIsSaved ==
    ASSUME AdminInv, NEW p \in Processes, starting[p].at \in OnSome,
           NEW roles \in SUBSET Nat, SaveSuperAdminUser(p, roles),
           NEW a, a = starting[p].on
    PROVE  /\ admin' \in [Admins -> AdminType] /\ a \in Admins
           /\ admin'[a].user = "live" /\ admin'[a].roles = roles /\ admin'[a].row = admin[a].row
           /\ \A b \in Admins \ {a} : admin'[b] = admin[b]
           /\ \A b \in Admins : IsUser(b) => IsUser(b)'
           /\ ~TakesRole(p, roles) => \A b \in Admins : Effective(b) => Effective(b)'
<1>1. AdminTyped /\ a \in Admins
    BY DEF AdminInv, AdminTyped
<1>2. /\ admin'[a].user = "live" /\ admin'[a].roles = roles /\ admin'[a].row = admin[a].row
      /\ \A b \in Admins \ {a} : admin'[b] = admin[b]
    BY <1>1 DEF AdminTyped, AdminType, SaveSuperAdminUser
<1>3. admin' \in [Admins -> AdminType]
  <2>1. [[admin[a] EXCEPT !.user = "live"] EXCEPT !.roles = roles] \in AdminType
    <3>1. admin[a] \in AdminType
        BY <1>1 DEF AdminTyped
    <3> QED
        BY <3>1 DEF AdminType, Standing
  <2> DEFINE s == [[admin[a] EXCEPT !.user = "live"] EXCEPT !.roles = roles]
  <2>2. admin' = [admin EXCEPT ![a] = s]
      BY <1>1 DEF SaveSuperAdminUser, AdminTyped
  <2> HIDE DEF s
  <2> QED
      BY <1>1, <2>1, <2>2 DEF AdminTyped, s
<1>4. \A b \in Admins : IsUser(b) => IsUser(b)'
    BY <1>2 DEF IsUser
<1>5. ~TakesRole(p, roles) => \A b \in Admins : Effective(b) => Effective(b)'
    BY <1>1, <1>2 DEF TakesRole, Effective
<1> QED
    BY <1>1, <1>2, <1>3, <1>4, <1>5

LEMMA ReviveUserKeeps ==
    ASSUME AdminInv, NEW p \in Processes, ReviveUser(p) PROVE AdminInv'
<1>1. PICK a, seen : a = starting[p].on /\ seen = starting[p].seen
    OBVIOUS
<1>2. /\ starting[p].at = "revive" /\ SaveSuperAdminUser(p, seen)
      /\ starting' = [starting EXCEPT ![p].at = "row"]
      /\ guaranteed' = (guaranteed /\ ~TakesRole(p, seen))
      /\ UNCHANGED <<superRoles, configured, calling, calm>>
    BY <1>1 DEF ReviveUser
<1>3. AdminTyped /\ starting[p] \in StartType /\ seen \in SUBSET Nat
    BY <1>1 DEF AdminInv, AdminTyped, StartType
<1>4. /\ admin' \in [Admins -> AdminType] /\ a \in Admins
      /\ admin'[a].user = "live" /\ admin'[a].roles = seen
      /\ \A b \in Admins : IsUser(b) => IsUser(b)'
      /\ ~TakesRole(p, seen) => \A b \in Admins : Effective(b) => Effective(b)'
  <2>1. starting[p].at \in OnSome
      BY <1>2 DEF OnSome
  <2> QED
      BY <1>1, <1>2, <1>3, <2>1, UserIsSaved
<1>5. /\ starting'[p].at = "row" /\ starting'[p].on = a /\ starting'[p].seen = seen
      /\ \A q \in Processes \ {p} : starting'[q] = starting[q]
    BY <1>1, <1>2, <1>3 DEF AdminTyped, StartType
<1>6. AdminTyped'
  <2>1. starting' \in [Processes -> StartType]
      BY <1>2, <1>3 DEF AdminTyped, StartType
  <2> QED
      BY <1>2, <1>3, <1>4, <1>5, <2>1 DEF AdminTyped
<1>7. ConfiguredIsUser'
    BY <1>2, <1>4 DEF AdminInv, ConfiguredIsUser
<1>8. StartIsTrue(p)'
    BY <1>4, <1>5 DEF StartIsTrue
<1> QED
    BY <1>2, <1>4, <1>5, <1>6, <1>7, <1>8, StartKeeps

LEMMA EnsureAdministratorKeeps ==
    ASSUME AdminInv, NEW p \in Processes, EnsureAdministrator(p) PROVE AdminInv'
<1>1. PICK a : a = starting[p].on
    OBVIOUS
<1>2. PICK to \in {"own role", "first role"} :
          /\ starting[p].at \in {"row", "new row"}
          /\ to = "own role" <=> starting[p].at = "row"
          /\ admin' = [admin EXCEPT ![a].row = "live"]
          /\ starting' = [starting EXCEPT ![p].at = to]
          /\ UNCHANGED <<superRoles, configured, calling, guaranteed, calm>>
    BY <1>1 DEF EnsureAdministrator
<1>3. AdminTyped /\ starting[p] \in StartType /\ a \in Admins
    BY <1>1, <1>2 DEF AdminInv, AdminTyped, OnSome
<1>4. /\ admin'[a].row = "live" /\ admin'[a].user = admin[a].user
      /\ admin'[a].roles = admin[a].roles
      /\ \A b \in Admins \ {a} : admin'[b] = admin[b]
    BY <1>2, <1>3 DEF AdminTyped, AdminType
<1>5. /\ starting'[p].at = to /\ starting'[p].on = a /\ starting'[p].seen = starting[p].seen
      /\ \A q \in Processes \ {p} : starting'[q] = starting[q]
    BY <1>1, <1>2, <1>3 DEF AdminTyped, StartType
<1>6. AdminTyped'
  <2>1. starting' \in [Processes -> StartType]
      BY <1>2, <1>3 DEF AdminTyped, StartType
  <2>2. admin' \in [Admins -> AdminType]
      BY <1>2, <1>3 DEF AdminTyped, AdminType, Standing
  <2> QED
      BY <1>2, <1>3, <1>5, <2>1, <2>2 DEF AdminTyped
<1>7. /\ \A b \in Admins : IsUser(b) => IsUser(b)'
      /\ \A b \in Admins : Effective(b) => Effective(b)'
    BY <1>4 DEF IsUser, Effective
<1>8. ConfiguredIsUser'
    BY <1>2, <1>7 DEF AdminInv, ConfiguredIsUser
<1>9. ASSUME p \in calm PROVE StartIsTrue(p)'
  <2>1. StartIsTrue(p)
      BY <1>9 DEF AdminInv, CalmStartsAreTrue
  <2>2. /\ admin[a].user = "live" /\ admin[a].roles = starting[p].seen
      BY <1>1, <1>2, <2>1 DEF StartIsTrue, OnSome
  <2> QED
      BY <1>4, <1>5, <2>2 DEF StartIsTrue
<1>10. guaranteed' => guaranteed
    BY <1>2
<1> QED
    BY <1>2, <1>5, <1>6, <1>7, <1>8, <1>9, <1>10, StartKeeps

LEMMA LoadNewAdministratorKeeps ==
    ASSUME AdminInv, NEW p \in Processes, LoadNewAdministrator(p) PROVE AdminInv'
<1>1. PICK a : a = starting[p].on
    OBVIOUS
<1>2. /\ starting[p].at = "first role" /\ admin[a].row = "live" /\ admin[a].user = "live"
      /\ starting' = [starting EXCEPT ![p].at = "own role", ![p].seen = admin[a].roles]
      /\ UNCHANGED <<superRoles, admin, configured, calling, guaranteed, calm>>
    BY <1>1 DEF LoadNewAdministrator
<1>3. AdminTyped /\ starting[p] \in StartType /\ a \in Admins
    BY <1>1, <1>2 DEF AdminInv, AdminTyped, OnSome
<1> DEFINE s == [[starting[p] EXCEPT !.at = "own role"] EXCEPT !.seen = admin[a].roles]
<1>4. s \in StartType /\ s.at = "own role" /\ s.on = a /\ s.seen = admin[a].roles
    BY <1>1, <1>3 DEF AdminTyped, AdminType, StartType
<1>5. starting' = [starting EXCEPT ![p] = s]
    BY <1>2, <1>3 DEF AdminTyped
<1> HIDE DEF s
<1>6. starting'[p] = s
    BY <1>3, <1>5 DEF AdminTyped
<1>7. StartIsTrue(p)'
    BY <1>2, <1>4, <1>6 DEF StartIsTrue
<1> QED
    BY <1>2, <1>3, <1>4, <1>5, <1>7, QuietStart DEF AdminTyped

LEMMA EnsureRoleKeeps ==
    ASSUME AdminInv, NEW p \in Processes, EnsureRole(p) PROVE AdminInv'
<1>1. PICK a, seen : a = starting[p].on /\ seen = starting[p].seen
    OBVIOUS
<1>2. /\ starting[p].at = "own role" /\ starting' = [starting EXCEPT ![p] = NotStarting]
      /\ UNCHANGED <<superRoles, configured, calling, calm>>
    BY DEF EnsureRole
<1>3. AdminTyped /\ starting[p] \in StartType /\ a \in Admins /\ seen \in SUBSET Nat
    BY <1>1, <1>2 DEF AdminInv, AdminTyped, OnSome, StartType
<1>4. /\ starting'[p] = NotStarting
      /\ \A q \in Processes \ {p} : starting'[q] = starting[q]
    BY <1>2, <1>3 DEF AdminTyped
<1>5. StartIsTrue(p)'
    BY <1>4 DEF StartIsTrue, NotStarting, OnSome
<1>6. starting' \in [Processes -> StartType] /\ starting'[p].at \notin OnSome
    BY <1>2, <1>3, <1>4 DEF AdminTyped, StartType, NotStarting, OnSome
<1>7. p \in calm => /\ admin[a].row = "live" /\ admin[a].user = "live"
                    /\ admin[a].roles = seen
    BY <1>1, <1>2 DEF AdminInv, CalmStartsAreTrue, StartIsTrue, OnSome
<1>8. ASSUME NEW role \in Missing(seen), SaveSuperAdminUser(p, seen \cup {role}),
             guaranteed' = (p \in calm \/ (guaranteed /\ ~TakesRole(p, seen \cup {role})))
      PROVE  AdminInv'
  <2>1. seen \cup {role} \in SUBSET Nat /\ starting[p].at \in OnSome
      BY <1>2, <1>3 DEF Missing, AdminTyped, OnSome
  <2>2. /\ admin' \in [Admins -> AdminType]
        /\ admin'[a].user = "live" /\ admin'[a].roles = seen \cup {role}
        /\ admin'[a].row = admin[a].row
        /\ \A b \in Admins : IsUser(b) => IsUser(b)'
        /\ ~TakesRole(p, seen \cup {role}) => \A b \in Admins : Effective(b) => Effective(b)'
      BY <1>1, <1>8, <2>1, UserIsSaved
  <2>3. p \in calm => Effective(a)'
      BY <1>7, <2>2 DEF Effective
  <2>4. guaranteed' => \/ guaranteed /\ \A b \in Admins : Effective(b) => Effective(b)'
                       \/ p \in calm /\ \E b \in Admins : Effective(b)'
      BY <1>3, <1>8, <2>2, <2>3
  <2>5. guaranteed' \in BOOLEAN
      BY <1>8
  <2>6. AdminTyped'
      BY <1>2, <1>3, <1>4, <1>6, <2>2, <2>5 DEF AdminTyped
  <2>7. ConfiguredIsUser'
      BY <1>2, <2>2 DEF AdminInv, ConfiguredIsUser
  <2> QED
      BY <1>2, <1>4, <1>5, <2>2, <2>4, <2>6, <2>7, StartKeeps
<1>9. ASSUME Missing(seen) # superRoles, guaranteed' = (p \in calm \/ guaranteed),
             UNCHANGED admin
      PROVE  AdminInv'
  <2>1. seen # {}
      BY <1>9 DEF Missing
  <2>2. p \in calm => Effective(a)'
      BY <1>7, <1>9, <2>1 DEF Effective
  <2>3. \A b \in Admins : (Effective(b) => Effective(b)') /\ (IsUser(b) => IsUser(b)')
      BY <1>9 DEF Effective, IsUser
  <2>4. guaranteed' => \/ guaranteed /\ \A b \in Admins : Effective(b) => Effective(b)'
                       \/ p \in calm /\ \E b \in Admins : Effective(b)'
      BY <1>3, <1>9, <2>2, <2>3
  <2>5. guaranteed' \in BOOLEAN
      BY <1>9
  <2>6. AdminTyped'
      BY <1>2, <1>3, <1>4, <1>6, <1>9, <2>5 DEF AdminTyped
  <2>7. ConfiguredIsUser'
      BY <1>2, <2>3 DEF AdminInv, ConfiguredIsUser
  <2> QED
      BY <1>2, <1>4, <1>5, <2>3, <2>4, <2>6, <2>7, StartKeeps
<1> QED
    BY <1>1, <1>8, <1>9 DEF EnsureRole

-----------------------------------------------------------------------------
\* A request that begins.
LEMMA CallKeeps ==
    ASSUME AdminInv, NEW r \in AdminRequests, NEW new \in CallType, Call(r, new),
           new.at = "loaded" \/ "user" \notin new.revives => \A a \in new.on : IsUser(a),
           new.kind = "delete" =>
              \A a \in new.on : \E b \in Admins \ {a} : Effective(b)
    PROVE  AdminInv'
<1>1. /\ ~Calling(r) /\ calling' = [calling EXCEPT ![r] = new] /\ calm' = {}
      /\ UNCHANGED <<superRoles, admin, configured, starting, guaranteed>>
    BY DEF Call
<1>2. AdminTyped
    BY DEF AdminInv
<1>3. calling'[r] = new /\ \A q \in AdminRequests \ {r} : calling'[q] = calling[q]
    BY <1>1, <1>2 DEF AdminTyped
<1>4. AdminTyped'
  <2>1. calling' \in [AdminRequests -> CallType]
      BY <1>1, <1>2 DEF AdminTyped
  <2> QED
      BY <1>1, <1>2, <2>1 DEF AdminTyped
<1>5. ConfiguredIsUser' /\ \A a \in Admins : IsUser(a) => IsUser(a)'
    BY <1>1 DEF AdminInv, ConfiguredIsUser, IsUser
<1>6. CallIsOnUsers(r)'
    BY <1>1, <1>3 DEF CallIsOnUsers, IsUser
<1>7. SuperadminRemains' /\ DeletionsSpare'
  <2>1. ASSUME guaranteed', NEW q \in AdminRequests PROVE Spares(q)'
    <3>1. CASE q = r
        BY <1>1, <1>3, <3>1 DEF Spares, Effective
    <3>2. CASE q # r
      <4>1. Spares(q)
          BY <1>1, <2>1 DEF AdminInv, DeletionsSpare
      <4> QED
          BY <1>1, <1>3, <3>2, <4>1 DEF Spares, Effective
    <3> QED
        BY <3>1, <3>2
  <2>2. SuperadminRemains'
      BY <1>1 DEF AdminInv, SuperadminRemains, Effective
  <2> QED
      BY <2>1, <2>2 DEF DeletionsSpare
<1> QED
    BY <1>1, <1>3, <1>4, <1>5, <1>6, <1>7, RequestKeeps

LEMMA GrantableTypes == AdminTyped => Grantable \subseteq SUBSET Nat
BY DEF AdminTyped, Grantable

LEMMA CreateAdministratorKeeps ==
    ASSUME AdminInv, NEW r \in AdminRequests, CreateAdministrator(r) PROVE AdminInv'
<1>1. PICK a \in Admins, roles \in Grantable, named \in {"other", "configured"} :
          Call(r, [NotCalling EXCEPT !.at = "saved", !.kind = "create", !.on = {a}, !.want = roles,
                                     !.revives = {"row", "user"}, !.named = named])
    BY DEF CreateAdministrator
<1> DEFINE new == [NotCalling EXCEPT !.at = "saved", !.kind = "create", !.on = {a},
                                      !.want = roles, !.revives = {"row", "user"},
                                      !.named = named]
<1>2. roles \in SUBSET Nat
    BY GrantableTypes DEF AdminInv
<1>3. new \in CallType
    BY <1>2 DEF NotCalling, CallType
<1>4. new.at = "saved" /\ new.kind = "create" /\ "user" \in new.revives
    BY DEF NotCalling
<1>5. Call(r, new)
    BY <1>1
<1> HIDE DEF new
<1> QED
    BY <1>3, <1>4, <1>5, CallKeeps

LEMMA UpdateAdministratorKeeps ==
    ASSUME AdminInv, NEW r \in AdminRequests, UpdateAdministrator(r) PROVE AdminInv'
<1>1. PICK a \in LiveAdmins, named \in {"keep", "other", "configured"} :
          \E roles \in Grantable \cup {admin[a].roles}, kind \in {"update", "patch"} :
             Call(r, [NotCalling EXCEPT !.at = "loaded", !.kind = kind, !.on = {a},
                                        !.want = roles, !.named = named])
  <2>1. PICK a \in LiveAdmins, named \in {"keep", "other", "configured"} :
          \/ \E roles \in Grantable :
                Call(r, [NotCalling EXCEPT !.at = "loaded", !.kind = "update", !.on = {a},
                                           !.want = roles, !.named = named])
          \/ Call(r, [NotCalling EXCEPT !.at = "loaded", !.on = {a}, !.want = admin[a].roles,
                          !.kind = IF named = "keep" THEN "patch" ELSE "update",
                          !.named = named])
      BY DEF UpdateAdministrator
  <2>2. \A kind, roles :
           [NotCalling EXCEPT !.at = "loaded", !.on = {a}, !.want = roles,
                              !.kind = kind, !.named = named]
           = [NotCalling EXCEPT !.at = "loaded", !.kind = kind, !.on = {a},
                                !.want = roles, !.named = named]
      BY DEF NotCalling
  <2> DEFINE C(roles, kind) ==
        [NotCalling EXCEPT !.at = "loaded", !.kind = kind, !.on = {a},
                           !.want = roles, !.named = named]
  <2>3. CASE \E roles \in Grantable : Call(r, C(roles, "update"))
      BY <2>3
  <2>4. CASE Call(r, C(admin[a].roles, IF named = "keep" THEN "patch" ELSE "update"))
    <3>1. CASE named = "keep"
        BY <2>4, <3>1
    <3>2. CASE named # "keep"
        BY <2>4, <3>2
    <3> QED
        BY <3>1, <3>2
  <2> QED
      BY <2>1, <2>2, <2>3, <2>4
<1>2. PICK roles \in Grantable \cup {admin[a].roles}, kind \in {"update", "patch"} :
          Call(r, [NotCalling EXCEPT !.at = "loaded", !.kind = kind, !.on = {a},
                                     !.want = roles, !.named = named])
    BY <1>1
<1> DEFINE new == [NotCalling EXCEPT !.at = "loaded", !.kind = kind, !.on = {a},
                                      !.want = roles, !.named = named]
<1>3. a \in Admins /\ IsUser(a) /\ roles \in SUBSET Nat
    BY GrantableTypes DEF AdminInv, LiveAdmins, IsUser, AdminTyped, AdminType
<1>4. new \in CallType
    BY <1>3 DEF NotCalling, CallType
<1>5. new.kind # "delete" /\ new.on = {a}
    BY DEF NotCalling
<1>6. Call(r, new)
    BY <1>2
<1> HIDE DEF new
<1> QED
    BY <1>3, <1>4, <1>5, <1>6, CallKeeps

LEMMA AssignRoleKeeps ==
    ASSUME AdminInv, NEW r \in AdminRequests, AssignRole(r) PROVE AdminInv'
<1>1. PICK a \in LiveAdmins, roles \in Grantable :
          Call(r, [NotCalling EXCEPT !.at = "row saved", !.kind = "assign", !.on = {a},
                                     !.want = admin[a].roles \cup roles])
    BY DEF AssignRole
<1> DEFINE new == [NotCalling EXCEPT !.at = "row saved", !.kind = "assign", !.on = {a},
                                      !.want = admin[a].roles \cup roles]
<1>2. a \in Admins /\ IsUser(a) /\ admin[a].roles \cup roles \in SUBSET Nat
    BY GrantableTypes DEF AdminInv, LiveAdmins, IsUser, AdminTyped, AdminType
<1>3. new \in CallType
    BY <1>2 DEF NotCalling, CallType
<1>4. new.kind # "delete" /\ new.on = {a}
    BY DEF NotCalling
<1>5. Call(r, new)
    BY <1>1
<1> HIDE DEF new
<1> QED
    BY <1>2, <1>3, <1>4, <1>5, CallKeeps

LEMMA SoftDeleteKeeps ==
    ASSUME AdminInv, NEW r \in AdminRequests, SoftDelete(r) PROVE AdminInv'
<1>1. PICK S \in SUBSET LiveAdmins, role \in superRoles :
          /\ \A a \in S : NotSole(a, role)
          /\ Call(r, [NotCalling EXCEPT !.at = "saved", !.kind = "delete", !.on = S])
    BY DEF SoftDelete
<1> DEFINE new == [NotCalling EXCEPT !.at = "saved", !.kind = "delete", !.on = S]
<1>2. S \subseteq Admins /\ \A a \in S : IsUser(a)
    BY DEF LiveAdmins, IsUser
<1>3. new \in CallType
    BY <1>2 DEF NotCalling, CallType
<1>4. ASSUME NEW a \in S PROVE \E b \in Admins \ {a} : Effective(b)
  <2>1. PICK b \in SuperAdminsWith(role) : b # a
      BY <1>1 DEF NotSole
  <2> QED
      BY <2>1 DEF SuperAdminsWith, LiveAdmins, Effective
<1>5. new.on = S
    BY DEF NotCalling
<1>6. Call(r, new)
    BY <1>1
<1> HIDE DEF new
<1> QED
    BY <1>2, <1>3, <1>4, <1>5, <1>6, CallKeeps

\* A request that goes on as the kind it is, or is rejected.
LEMMA CallGoesOn ==
    ASSUME AdminInv, NEW r \in AdminRequests, Calling(r), NEW c \in CallType,
           calling' = [calling EXCEPT ![r] = c],
           UNCHANGED <<superRoles, admin, configured, starting, guaranteed, calm>>,
           c.kind # "delete" \/ (c.kind = calling[r].kind /\ c.on = calling[r].on),
           c.at = "loaded" \/ "user" \notin c.revives => \A a \in c.on : IsUser(a)
    PROVE  AdminInv'
<1>1. AdminTyped
    BY DEF AdminInv
<1>2. calling'[r] = c /\ \A q \in AdminRequests \ {r} : calling'[q] = calling[q]
    BY <1>1 DEF AdminTyped
<1>3. AdminTyped'
  <2>1. calling' \in [AdminRequests -> CallType]
      BY <1>1 DEF AdminTyped
  <2> QED
      BY <1>1, <2>1 DEF AdminTyped
<1>4. ConfiguredIsUser' /\ \A a \in Admins : IsUser(a) => IsUser(a)'
    BY DEF AdminInv, ConfiguredIsUser, IsUser
<1>5. CallIsOnUsers(r)'
    BY <1>2 DEF CallIsOnUsers, IsUser
<1>6. SuperadminRemains' /\ DeletionsSpare'
  <2>1. ASSUME guaranteed', NEW q \in AdminRequests PROVE Spares(q)'
    <3>1. CASE q = r
      <4>1. Spares(r)
          BY <2>1 DEF AdminInv, DeletionsSpare
      <4> QED
          BY <1>2, <3>1, <4>1 DEF Spares, Effective
    <3>2. CASE q # r
      <4>1. Spares(q)
          BY <2>1 DEF AdminInv, DeletionsSpare
      <4> QED
          BY <1>2, <3>2, <4>1 DEF Spares, Effective
    <3> QED
        BY <3>1, <3>2
  <2>2. SuperadminRemains'
      BY DEF AdminInv, SuperadminRemains, Effective
  <2> QED
      BY <2>1, <2>2 DEF DeletionsSpare
<1> QED
    BY <1>2, <1>3, <1>4, <1>5, <1>6, RequestKeeps

LEMMA SaveAdministratorKeeps ==
    ASSUME AdminInv, NEW r \in AdminRequests, SaveAdministrator(r) PROVE AdminInv'
<1>1. PICK c : c = calling[r]
    OBVIOUS
<1>2. PICK a \in c.on, at \in {"saved", "row saved"}, want \in {{}, c.want},
           revives \in SUBSET {"row"} :
          /\ c.at = "loaded"
          /\ calling' = [calling EXCEPT ![r].at = at, ![r].want = want, ![r].revives = revives]
          /\ UNCHANGED <<superRoles, admin, configured, starting, guaranteed, calm>>
  <2>1. PICK a \in c.on :
            calling' = [calling EXCEPT
               ![r].at = IF c.kind = "patch" THEN "saved" ELSE "row saved",
               ![r].want = IF c.kind = "patch" THEN {} ELSE c.want,
               ![r].revives = IF admin[a].row = "gone" THEN {"row"} ELSE {}]
      BY <1>1 DEF SaveAdministrator
  <2>2. /\ (IF c.kind = "patch" THEN "saved" ELSE "row saved") \in {"saved", "row saved"}
        /\ (IF c.kind = "patch" THEN {} ELSE c.want) \in {{}, c.want}
        /\ (IF admin[a].row = "gone" THEN {"row"} ELSE {}) \in SUBSET {"row"}
      OBVIOUS
  <2>3. /\ c.at = "loaded"
        /\ UNCHANGED <<superRoles, admin, configured, starting, guaranteed, calm>>
      BY <1>1 DEF SaveAdministrator
  <2> QED
      BY <2>1, <2>2, <2>3
<1>3. c \in CallType /\ AdminTyped
    BY <1>1 DEF AdminInv, AdminTyped
<1> DEFINE d == [c EXCEPT !.at = at, !.want = want, !.revives = revives]
<1>4. d \in CallType /\ d.kind = c.kind /\ d.on = c.on
    BY <1>3 DEF CallType
<1>5. calling' = [calling EXCEPT ![r] = d]
    BY <1>1, <1>2, <1>3 DEF AdminTyped
<1>6. Calling(r)
    BY <1>1, <1>2, NotCallingIs DEF Calling
<1>7. \A b \in c.on : IsUser(b)
    BY <1>1, <1>2 DEF AdminInv, CallsAreOnUsers, CallIsOnUsers
<1> HIDE DEF d
<1> QED
    BY <1>1, <1>2, <1>4, <1>5, <1>6, <1>7, CallGoesOn

LEMMA SaveUserOfAdministratorKeeps ==
    ASSUME AdminInv, NEW r \in AdminRequests, SaveUserOfAdministrator(r) PROVE AdminInv'
<1>1. PICK c : c = calling[r]
    OBVIOUS
<1>2. c \in CallType /\ AdminTyped
    BY <1>1 DEF AdminInv, AdminTyped
<1>3. PICK a \in c.on, revives \in SUBSET {"user"} :
          /\ c.at = "row saved"
          /\ calling' = [calling EXCEPT ![r].at = "saved", ![r].revives = c.revives \cup revives,
                                        ![r].drop = admin[a].roles \ c.want,
                                        ![r].want = c.want \ admin[a].roles]
          /\ UNCHANGED <<superRoles, admin, configured, starting, guaranteed, calm>>
  <2>1. PICK a \in c.on :
            calling' = [calling EXCEPT
               ![r].at = "saved",
               ![r].revives = c.revives \cup (IF admin[a].user = "gone" THEN {"user"} ELSE {}),
               ![r].drop = admin[a].roles \ c.want,
               ![r].want = c.want \ admin[a].roles]
      BY <1>1 DEF SaveUserOfAdministrator
  <2>2. (IF admin[a].user = "gone" THEN {"user"} ELSE {}) \in SUBSET {"user"}
      OBVIOUS
  <2>3. /\ c.at = "row saved"
        /\ UNCHANGED <<superRoles, admin, configured, starting, guaranteed, calm>>
      BY <1>1 DEF SaveUserOfAdministrator
  <2> QED
      BY <2>1, <2>2, <2>3
<1> DEFINE d == [c EXCEPT !.at = "saved", !.revives = c.revives \cup revives,
                          !.drop = admin[a].roles \ c.want, !.want = c.want \ admin[a].roles]
<1>4. /\ d.kind = c.kind /\ d.on = c.on /\ d.at = "saved" /\ c.revives \subseteq d.revives
      /\ d \in CallType
  <2>1. admin[a].roles \in SUBSET Nat
    <3>1. a \in Admins
        BY <1>2 DEF CallType
    <3> QED
        BY <1>2, <3>1 DEF AdminTyped, AdminType
  <2> QED
      BY <1>2, <2>1 DEF CallType
<1>5. calling' = [calling EXCEPT ![r] = d]
    BY <1>1, <1>2, <1>3 DEF AdminTyped
<1>6. Calling(r)
    BY <1>1, <1>3, NotCallingIs DEF Calling
<1>7. "user" \notin d.revives => \A b \in c.on : IsUser(b)
    BY <1>1, <1>4 DEF AdminInv, CallsAreOnUsers, CallIsOnUsers
<1> HIDE DEF d
<1> QED
    BY <1>1, <1>3, <1>4, <1>5, <1>6, <1>7, CallGoesOn

LEMMA CallRejectedKeeps ==
    ASSUME AdminInv, NEW r \in AdminRequests, CallRejected(r) PROVE AdminInv'
<1>1. /\ Calling(r) /\ calling' = [calling EXCEPT ![r] = NotCalling]
      /\ UNCHANGED <<superRoles, admin, configured, starting, guaranteed, calm>>
    BY DEF CallRejected
<1> QED
    BY <1>1, NotCallingIs, CallGoesOn

\* A soft deletion of one administrator, while no other is under way, leaves the
\* superadmin that its check has seen.
LEMMA CommitDeleteKeeps ==
    ASSUME AdminInv, NEW r \in AdminRequests, calling[r].at = "saved", CommitDelete(r),
           calling' = [calling EXCEPT ![r] = NotCalling],
           UNCHANGED <<superRoles, starting, calm>>
    PROVE  AdminInv'
<1>1. PICK S : S = calling[r].on
    OBVIOUS
<1>2. /\ calling[r].kind = "delete" /\ \A a \in S : admin[a].user = "live"
      /\ admin' = [a \in Admins |-> IF a \in S
                                     THEN [admin[a] EXCEPT !.row = "gone", !.user = "gone"]
                                     ELSE admin[a]]
      /\ guaranteed' = /\ guaranteed /\ \E a \in Admins : S = {a}
                       /\ \A q \in AdminRequests \ {r} : calling[q].kind # "delete"
      /\ UNCHANGED configured
    BY <1>1 DEF CommitDelete
<1>3. AdminTyped /\ ConfiguredIsUser
    BY DEF AdminInv
<1>4. /\ \A a \in Admins \ S : admin'[a] = admin[a]
      /\ \A a \in Admins : IsUser(a) => IsUser(a)'
      /\ admin' \in [Admins -> AdminType]
    BY ZenonT(60), <1>2, <1>3 DEF AdminTyped, AdminType, Standing, IsUser
<1>5. calling'[r] = NotCalling /\ \A q \in AdminRequests \ {r} : calling'[q] = calling[q]
    BY <1>3 DEF AdminTyped
<1>6. AdminTyped'
  <2>1. calling' \in [AdminRequests -> CallType]
      BY <1>3, NotCallingIs DEF AdminTyped
  <2>2. guaranteed' \in BOOLEAN
      BY <1>2
  <2> QED
      BY <1>2, <1>3, <1>4, <2>1, <2>2 DEF AdminTyped
<1>7. ConfiguredIsUser'
    BY <1>2, <1>3, <1>4 DEF ConfiguredIsUser
<1>8. CallIsOnUsers(r)'
    BY <1>5 DEF CallIsOnUsers, NotCalling
<1>9. SuperadminRemains'
  <2> SUFFICES ASSUME guaranteed' PROVE \E a \in Admins : Effective(a)'
      BY DEF SuperadminRemains
  <2>1. guaranteed
      BY <1>2
  <2>2. PICK a \in Admins : S = {a}
      BY <1>2
  <2>3. PICK b \in Admins \ {a} : Effective(b)
      BY <1>1, <1>2, <2>1, <2>2 DEF AdminInv, DeletionsSpare, Spares
  <2> QED
      BY <1>4, <2>2, <2>3 DEF Effective
<1>10. DeletionsSpare'
    BY <1>2, <1>5, NotCallingIs DEF DeletionsSpare, Spares
<1>11. Calling(r)
    BY <1>2, NotCallingIs DEF Calling
<1> QED
    BY <1>4, <1>5, <1>6, <1>7, <1>8, <1>9, <1>10, <1>11, RequestKeeps

LEMMA CommitSaveKeeps ==
    ASSUME AdminInv, NEW r \in AdminRequests, calling[r].at = "saved", CommitSave(r),
           calling' = [calling EXCEPT ![r] = NotCalling],
           UNCHANGED <<superRoles, starting, calm>>
    PROVE  AdminInv'
<1>1. PICK c : c = calling[r]
    OBVIOUS
<1>2. PICK a \in c.on :
          /\ c.kind # "delete"
          /\ admin' = [admin EXCEPT
                ![a] = [row |-> IF "row" \in c.revives THEN "live" ELSE @.row,
                        user |-> IF "user" \in c.revives THEN "live" ELSE @.user,
                        roles |-> (@.roles \ c.drop) \cup c.want]]
          /\ configured' = IF c.named = "configured" THEN a
                           ELSE IF c.named = "other" /\ configured = a THEN NoAdmin
                           ELSE configured
          /\ guaranteed' = (guaranteed /\ c.drop = {})
    BY <1>1 DEF CommitSave
<1>3. AdminTyped /\ ConfiguredIsUser /\ c \in CallType
    BY <1>1 DEF AdminInv, AdminTyped
<1>4. a \in Admins /\ admin[a] \in AdminType
    BY <1>3 DEF AdminTyped, CallType
<1> DEFINE s == [row |-> IF "row" \in c.revives THEN "live" ELSE admin[a].row,
                 user |-> IF "user" \in c.revives THEN "live" ELSE admin[a].user,
                 roles |-> (admin[a].roles \ c.drop) \cup c.want]
<1>5. s \in AdminType
    BY <1>3, <1>4 DEF AdminType, CallType, Standing
<1>6. admin'[a] = s /\ \A b \in Admins \ {a} : admin'[b] = admin[b]
    BY <1>2, <1>3, <1>4 DEF AdminTyped
<1>7. admin' \in [Admins -> AdminType]
  <2>1. admin' = [admin EXCEPT ![a] = s]
      BY <1>2
  <2> HIDE DEF s
  <2> QED
      BY <1>3, <1>5, <2>1 DEF AdminTyped
<1>8. IsUser(a)' /\ \A b \in Admins : IsUser(b) => IsUser(b)'
  <2>1. "user" \notin c.revives => IsUser(a)
      BY <1>1, <1>2 DEF AdminInv, CallsAreOnUsers, CallIsOnUsers
  <2>2. s.user # "none"
      BY <2>1 DEF IsUser
  <2> HIDE DEF s
  <2> QED
      BY <1>6, <2>2 DEF IsUser
<1>9. guaranteed' => guaranteed /\ \A b \in Admins : Effective(b) => Effective(b)'
  <2>1. c.drop = {} /\ Effective(a) => Effective(a)'
    <3>1. c.drop = {} => admin[a].roles \subseteq s.roles
        OBVIOUS
    <3>2. Effective(a) => s.row = "live" /\ s.user = "live"
        BY DEF Effective
    <3> HIDE DEF s
    <3> QED
        BY <1>6, <3>1, <3>2 DEF Effective
  <2> HIDE DEF s
  <2> QED
      BY <1>2, <1>6, <2>1 DEF Effective
<1> HIDE DEF s
<1>10. calling'[r] = NotCalling /\ \A q \in AdminRequests \ {r} : calling'[q] = calling[q]
    BY <1>3 DEF AdminTyped
<1>11. ConfiguredIsUser' /\ configured' \in Admins \cup {NoAdmin}
    BY <1>2, <1>3, <1>4, <1>8 DEF ConfiguredIsUser, AdminTyped
<1>12. AdminTyped'
  <2>1. calling' \in [AdminRequests -> CallType]
      BY <1>3, NotCallingIs DEF AdminTyped
  <2>2. guaranteed' \in BOOLEAN
      BY <1>2
  <2> QED
      BY <1>3, <1>7, <1>11, <2>1, <2>2 DEF AdminTyped
<1>13. CallIsOnUsers(r)'
    BY <1>10 DEF CallIsOnUsers, NotCalling
<1>14. SuperadminRemains'
    BY <1>9 DEF AdminInv, SuperadminRemains
<1>15. DeletionsSpare'
  <2>1. ASSUME guaranteed', NEW q \in AdminRequests PROVE Spares(q)'
    <3>1. CASE q = r
        BY <1>10, <3>1 DEF Spares, NotCalling
    <3>2. CASE q # r
      <4>1. Spares(q)
          BY <1>9, <2>1 DEF AdminInv, DeletionsSpare
      <4>2. calling[q].on \subseteq Admins
          BY <1>3 DEF AdminTyped, CallType
      <4> QED
          BY <1>9, <1>10, <2>1, <3>2, <4>1, <4>2 DEF Spares
    <3> QED
        BY <3>1, <3>2
  <2> QED
      BY <2>1 DEF DeletionsSpare
<1>16. Calling(r)
    BY NotCallingIs DEF Calling
<1> QED
    BY <1>8, <1>10, <1>11, <1>12, <1>13, <1>14, <1>15, <1>16, RequestKeeps

LEMMA AdminStep == AdminInv /\ [AdminsNext]_adminVars => AdminInv'
<1> SUFFICES ASSUME AdminInv, [AdminsNext]_adminVars PROVE AdminInv'
    OBVIOUS
<1>1. ASSUME NEW p \in Processes,
             \/ Launch(p) \/ EnsureSuperAdminRole(p) \/ CreateSuperAdminRole(p)
             \/ FindSuperAdminUser(p) \/ NewSuperAdminUser(p) \/ ReviveUser(p)
             \/ EnsureAdministrator(p) \/ LoadNewAdministrator(p) \/ EnsureRole(p)
             \/ StartFails(p)
      PROVE  AdminInv'
    BY <1>1, LaunchKeeps, RolesKeep, FindSuperAdminUserKeeps, NewSuperAdminUserKeeps,
       ReviveUserKeeps, EnsureAdministratorKeeps, LoadNewAdministratorKeeps, EnsureRoleKeeps
<1>2. ASSUME NEW r \in AdminRequests,
             \/ CreateAdministrator(r) \/ UpdateAdministrator(r) \/ AssignRole(r)
             \/ SoftDelete(r) \/ SaveAdministrator(r) \/ SaveUserOfAdministrator(r)
             \/ CommitCall(r) \/ CallRejected(r)
      PROVE  AdminInv'
  <2>1. CASE CommitCall(r)
      BY <2>1, CommitDeleteKeeps, CommitSaveKeeps DEF CommitCall
  <2> QED
      BY <1>2, <2>1, CreateAdministratorKeeps, UpdateAdministratorKeeps, AssignRoleKeeps,
         SoftDeleteKeeps, SaveAdministratorKeeps, SaveUserOfAdministratorKeeps, CallRejectedKeeps
<1>3. CASE UNCHANGED adminVars
    BY <1>3 DEF adminVars, AdminInv, AdminTyped, ConfiguredIsUser, IsUser, CallsAreOnUsers,
                CallIsOnUsers, CalmIsAlone, Calling, CalmStartsAreTrue, StartIsTrue,
                DeletionsSpare, Spares, Effective, SuperadminRemains
<1> QED
    BY <1>1, <1>2, <1>3 DEF AdminsNext

\* initSuperadmin, softDelete and update: once a server has started alone, a
\* superadmin that can log in remains, whatever requests and starts overlap
\* later, as long as no two administrators are deleted at a time and no role is
\* written away.
THEOREM SuperadminIsKept == AdminSpec => []SuperadminRemains
<1>1. AdminInv => SuperadminRemains
    BY DEF AdminInv
<1> QED
    BY InitAdmins, AdminStep, <1>1, PTL DEF AdminSpec

-----------------------------------------------------------------------------
(***************************************************************************)
(* Accounts: for any addresses, and any number of requests that overlap,   *)
(* tokens and passwords.                                                   *)
(***************************************************************************)
AccountsSpec == AccountsInit /\ [][AccountsNext]_accountVars

Kinds == {"setVerificationToken", "verifyUserByToken", "resetPasswordByToken",
          "changeIdentifierByToken", "changeUserAndNativeIdentifier",
          "setPasswordResetToken", "setIdentifierChangeToken", "updatePassword",
          "authenticate", "updateCustomer"}
Renames == {"changeIdentifierByToken", "changeUserAndNativeIdentifier"}
MailedTokens == {"verificationToken", "passwordResetToken"}

\* The values of row f in the columns C, with n secrets issued.
RowTyped(f, C, n) ==
    \A c \in C :
       /\ c \in Secret => f[c] \in 0 .. n
       /\ c = "verified" => f[c] \in BOOLEAN
       /\ c \in {"identifier", "nativeIdentifier", "emailAddress"} => f[c] \in Addresses
       /\ c = "pendingIdentifier" => f[c] \in Addresses \cup {NoAddress}

Holds(r, c) == InFlight(r) /\ c \in Saves(request[r].kind)

RequestTyped(r) ==
    /\ DOMAIN request[r] = {"at", "kind", "want", "writes", "proves"}
    /\ InFlight(r) =>
          LET q == request[r] IN
          /\ q.kind \in Kinds /\ DOMAIN q.want = Saves(q.kind)
          /\ RowTyped(q.want, Saves(q.kind), issued)
          /\ DOMAIN q.writes \subseteq Saves(q.kind)
          /\ \A c \in DOMAIN q.writes : q.writes[c] = q.want[c]

AccountsTyped ==
    /\ DOMAIN db = Column /\ RowTyped(db, Column, issued)
    /\ DOMAIN request = AccountRequests
    /\ \A r \in AccountRequests : RequestTyped(r)
    /\ issued \in Nat /\ sentTo \in Seq(Addresses \cup {NoAddress}) /\ Len(sentTo) = issued

\* What was spent is not in the row, and no request that is under way has it.
SpentIsNowhere ==
    /\ \A c, s : <<c, s>> \in spent => s \in 1 .. issued
    /\ SpentStaysSpent
    /\ \A r \in AccountRequests, c \in Secret : Holds(r, c) => <<c, request[r].want[c]>> \notin spent

\* Since the last new token for an address, t and a, a request that loads the
\* token and the pending address has loaded these or none; but one that makes a
\* new token, which will have its own.
PairOf(r, t, a) ==
    LET q == request[r] IN
    Holds(r, "identifierChangeToken") =>
       IF q.kind = "setIdentifierChangeToken"
       THEN /\ q.want["identifierChangeToken"] \in (1 .. issued) \ {t}
            /\ q.want["pendingIdentifier"] \in Addresses
            /\ sentTo[q.want["identifierChangeToken"]] = q.want["pendingIdentifier"]
            /\ q.at = "saved" =>
                  /\ "identifierChangeToken" \in DOMAIN q.writes
                  /\ \/ "pendingIdentifier" \in DOMAIN q.writes
                     \/ q.want["pendingIdentifier"] = a
       ELSE /\ q.want["identifierChangeToken"] \in {t, None}
            /\ q.want["pendingIdentifier"] \in {a, NoAddress}

PairIs(t, a) ==
    /\ t \in 0 .. issued
    /\ t # None /\ a # NoAddress => a = sentTo[t]
    /\ db["identifierChangeToken"] \in {t, None}
    /\ db["pendingIdentifier"] \in {a, NoAddress}
    /\ \A r \in AccountRequests : PairOf(r, t, a)

OnePair == "token" \notin crossed => \E t, a : PairIs(t, a)

\* The present identifier, when it was asked for or was set without asking.
IsAsked == db["identifier"] \in proven \cup trusted

\* Otherwise it is the first one, and all tokens were sent there.
SentThere(f, C) ==
    \A c \in MailedTokens \cap C : f[c] # None => sentTo[f[c]] = db["identifier"]

ProofOf(r) ==
    LET q == request[r] IN
    /\ Holds(r, "verified") /\ q.want["verified"] => IsAsked \/ db["identifier"] \in q.proves
    /\ Holds(r, "identifier") /\ q.kind \notin Renames => q.want["identifier"] = db["identifier"]
    /\ InFlight(r) /\ q.kind = "changeIdentifierByToken" => q.want["identifier"] \in q.proves
    /\ IsAsked \/ (InFlight(r) => SentThere(q.want, Saves(q.kind)))

VerifiedByNow ==
    crossed = {} =>
       /\ db["verified"] => IsAsked
       /\ IsAsked \/ SentThere(db, Column)
       /\ \A r \in AccountRequests : ProofOf(r)

SomeProof ==
    /\ db["verified"] => proven # {}
    /\ \A r \in AccountRequests :
          Holds(r, "verified") /\ request[r].want["verified"] =>
             proven # {} \/ request[r].proves # {}

AccountsInv == AccountsTyped /\ SpentIsNowhere /\ OnePair /\ VerifiedByNow /\ SomeProof

-----------------------------------------------------------------------------
LEMMA SavesAre ==
    ASSUME NEW k \in Kinds
    PROVE  /\ Saves(k) \subseteq Column
           /\ "passwordHash" \in Saves(k) =>
                 k \in {"verifyUserByToken", "resetPasswordByToken", "updatePassword"}
           /\ Saves(k) \cap Method # {} <=> "identifierChangeToken" \in Saves(k)
           /\ "pendingIdentifier" \in Saves(k) <=> "identifierChangeToken" \in Saves(k)
           /\ k = "setIdentifierChangeToken" => Saves(k) = Method
           /\ k \in Renames => "identifier" \in Saves(k)
           /\ "verified" \in Saves(k) => "identifier" \in Saves(k)
BY DEF Kinds, Saves, Column, Method, UserRow, Hash, Renames

LEMMA InitAccounts == AccountsInit => AccountsInv
<1> SUFFICES ASSUME AccountsInit PROVE AccountsInv
    OBVIOUS
<1>1. PICK a \in Addresses :
          \/ db = Registered(a, 1, None) /\ issued = 1 /\ sentTo = <<a>>
          \/ db = Registered(a, 1, 2) /\ issued = 2 /\ sentTo = <<a, NoAddress>>
    BY DEF AccountsInit
<1>2. /\ \A r \in AccountRequests : request[r] = NoRequest
      /\ DOMAIN request = AccountRequests
      /\ proven = {} /\ trusted = {} /\ spent = {} /\ crossed = {}
    BY DEF AccountsInit
<1>3. \A r \in AccountRequests : ~InFlight(r) /\ \A c : ~Holds(r, c)
    BY <1>2 DEF InFlight, Holds, NoRequest
<1>4. issued \in Nat /\ sentTo \in Seq(Addresses \cup {NoAddress}) /\ Len(sentTo) = issued
      /\ sentTo[1] = a /\ issued >= 1
  <2>1. CASE issued = 1 /\ sentTo = <<a>>
      BY <2>1
  <2>2. CASE issued = 2 /\ sentTo = <<a, NoAddress>>
      BY <2>2
  <2> QED
      BY <1>1, <2>1, <2>2
<1>5. /\ DOMAIN db = Column /\ db["verificationToken"] = 1 /\ db["passwordResetToken"] = None
      /\ db["identifierChangeToken"] = None /\ db["pendingIdentifier"] = NoAddress
      /\ db["nativeIdentifier"] = a /\ db["verified"] = FALSE /\ db["identifier"] = a
      /\ db["passwordHash"] \in {0, issued} /\ db["emailAddress"] = a
    BY <1>1 DEF Registered, Column, Method, UserRow, Hash, None
<1>6. RowTyped(db, Column, issued)
  <2>1. \A c \in Secret : db[c] \in 0 .. issued
      BY <1>4, <1>5 DEF Secret, Hash, None
  <2>2. db["verified"] \in BOOLEAN
      BY <1>5
  <2> QED
      BY <1>5, <2>1, <2>2 DEF RowTyped
<1>7. AccountsTyped
    BY <1>2, <1>3, <1>4, <1>5, <1>6 DEF AccountsTyped, RequestTyped, NoRequest
<1>8. SpentIsNowhere
    BY <1>2, <1>3 DEF SpentIsNowhere, SpentStaysSpent
<1>9. PairIs(None, NoAddress)
    BY <1>3, <1>4, <1>5 DEF PairIs, PairOf, None
<1>10. SentThere(db, Column) /\ \A r \in AccountRequests : ProofOf(r)
    BY <1>3, <1>4, <1>5 DEF SentThere, MailedTokens, ProofOf, None
<1>11. VerifiedByNow /\ SomeProof
    BY <1>3, <1>5, <1>10 DEF VerifiedByNow, SomeProof
<1> QED
    BY <1>7, <1>8, <1>9, <1>11 DEF AccountsInv, OnePair

-----------------------------------------------------------------------------
\* What a request has when it has loaded the rows.
LEMMA LoadIs ==
    ASSUME AccountsTyped, NEW r \in AccountRequests, NEW k \in Kinds, NEW changed, NEW proves,
           Load(r, k, changed, proves)
    PROVE  /\ InFlight(r)' /\ request'[r].at = "loaded" /\ request'[r].kind = k
           /\ request'[r].proves = proves /\ DOMAIN request'[r].writes = {}
           /\ DOMAIN request'[r].want = Saves(k)
           /\ \A c \in Saves(k) : request'[r].want[c] =
                 IF c \in DOMAIN changed THEN changed[c] ELSE db[c]
           /\ DOMAIN request'[r] = {"at", "kind", "want", "writes", "proves"}
           /\ DOMAIN request' = AccountRequests
           /\ \A q \in AccountRequests \ {r} : request'[q] = request[q]
           /\ UNCHANGED <<db, proven, trusted, spent, crossed>>
<1> DEFINE w == Restrict(Patched(db, changed), Saves(k))
           q == [at |-> "loaded", kind |-> k, writes |-> <<>>, proves |-> proves, want |-> w]
<1>1. request' = [request EXCEPT ![r] = q] /\ UNCHANGED <<db, proven, trusted, spent, crossed>>
    BY DEF Load
<1>2. /\ q.at = "loaded" /\ q.kind = k /\ q.proves = proves /\ q.want = w
      /\ DOMAIN q = {"at", "kind", "want", "writes", "proves"}
      /\ q.writes = <<>>
    OBVIOUS
<1>3. DOMAIN q.writes = {}
    BY <1>2
<1>4. /\ DOMAIN w = Saves(k)
      /\ \A c \in Saves(k) : w[c] = IF c \in DOMAIN changed THEN changed[c] ELSE db[c]
    BY SavesAre DEF Restrict, Patched, AccountsTyped
<1> HIDE DEF q, w
<1>5. request'[r] = q /\ DOMAIN request' = AccountRequests
      /\ \A p \in AccountRequests \ {r} : request'[p] = request[p]
    BY <1>1 DEF AccountsTyped
<1> QED
    BY <1>1, <1>2, <1>3, <1>4, <1>5 DEF InFlight

\* What is made, if anything is: a secret that was sent to an address, or to none.
Made(to) ==
    \/ UNCHANGED <<issued, sentTo>>
    \/ /\ issued' = issued + 1 /\ sentTo' = Append(sentTo, to)
       /\ to \in Addresses \cup {NoAddress}

LEMMA MadeIs ==
    ASSUME AccountsTyped, NEW to, Made(to)
    PROVE  /\ issued' \in Nat /\ issued <= issued' /\ issued' <= issued + 1
           /\ sentTo' \in Seq(Addresses \cup {NoAddress}) /\ Len(sentTo') = issued'
           /\ \A s \in 1 .. issued : sentTo'[s] = sentTo[s]
           /\ issued' = issued + 1 => sentTo'[issued'] = to
<1>1. CASE UNCHANGED <<issued, sentTo>>
    BY <1>1 DEF AccountsTyped
<1>2. CASE /\ issued' = issued + 1 /\ sentTo' = Append(sentTo, to)
           /\ to \in Addresses \cup {NoAddress}
    BY <1>2 DEF AccountsTyped
<1> QED
    BY <1>1, <1>2 DEF Made

\* A request that loads the rows keeps the types, and what was spent away.
LEMMA LoadKeepsTypes ==
    ASSUME AccountsTyped, SpentIsNowhere,
           NEW r \in AccountRequests, NEW k \in Kinds, NEW changed, NEW proves, NEW to,
           Load(r, k, changed, proves), Made(to),
           RowTyped(changed, DOMAIN changed, issued'),
           \A c \in DOMAIN changed \cap Secret : changed[c] \in {None, issued + 1}
    PROVE  AccountsTyped' /\ SpentIsNowhere'
<1>1. /\ InFlight(r)' /\ request'[r].kind = k
      /\ DOMAIN request'[r].writes = {}
      /\ DOMAIN request'[r].want = Saves(k)
      /\ \A c \in Saves(k) : request'[r].want[c] =
            IF c \in DOMAIN changed THEN changed[c] ELSE db[c]
      /\ DOMAIN request'[r] = {"at", "kind", "want", "writes", "proves"}
      /\ DOMAIN request' = AccountRequests
      /\ \A q \in AccountRequests \ {r} : request'[q] = request[q]
      /\ UNCHANGED <<db, proven, trusted, spent, crossed>>
    BY LoadIs
<1>2. /\ issued \in Nat /\ issued' \in Nat /\ issued <= issued' /\ issued' <= issued + 1
      /\ sentTo' \in Seq(Addresses \cup {NoAddress}) /\ Len(sentTo') = issued'
    BY MadeIs DEF AccountsTyped
<1>3. ASSUME NEW f, NEW C, RowTyped(f, C, issued) PROVE RowTyped(f, C, issued')
    BY <1>2, <1>3 DEF RowTyped
<1>4. RowTyped(request'[r].want, Saves(k), issued')
  <2>1. RowTyped(db, Column, issued') /\ Saves(k) \subseteq Column
      BY <1>3, SavesAre DEF AccountsTyped
  <2> QED
      BY <1>1, <2>1 DEF RowTyped
<1>5. AccountsTyped'
  <2>1. RequestTyped(r)'
      BY <1>1, <1>4 DEF RequestTyped
  <2>2. ASSUME NEW q \in AccountRequests \ {r} PROVE RequestTyped(q)'
    <3>1. RequestTyped(q) /\ request'[q] = request[q]
        BY <1>1 DEF AccountsTyped
    <3> QED
        BY <1>3, <3>1 DEF RequestTyped, InFlight
  <2>3. DOMAIN db' = Column /\ RowTyped(db', Column, issued')
      BY <1>1, <1>3 DEF AccountsTyped
  <2> QED
      BY <1>1, <1>2, <2>1, <2>2, <2>3 DEF AccountsTyped
<1>6. SpentIsNowhere'
  <2>1. \A c, s : <<c, s>> \in spent => s \in 1 .. issued
      BY DEF SpentIsNowhere
  <2>2. ASSUME NEW c \in Secret, Holds(r, c)' PROVE <<c, request'[r].want[c]>> \notin spent
    <3>1. c \in Saves(k)
        BY <1>1, <2>2 DEF Holds
    <3>2. CASE c \in DOMAIN changed
      <4>1. request'[r].want[c] \in {None, issued + 1}
          BY <1>1, <3>1, <3>2
      <4> QED
          BY <1>2, <2>1, <4>1 DEF None
    <3>3. CASE c \notin DOMAIN changed
        BY <1>1, <3>1, <3>3 DEF SpentIsNowhere, SpentStaysSpent
    <3> QED
        BY <3>2, <3>3
  <2>3. ASSUME NEW q \in AccountRequests, NEW c \in Secret, Holds(q, c)'
        PROVE  <<c, request'[q].want[c]>> \notin spent
    <3>1. CASE q = r
        BY <2>2, <2>3, <3>1
    <3>2. CASE q # r
      <4>1. request'[q] = request[q] /\ Holds(q, c)
          BY <1>1, <2>3, <3>2 DEF Holds, InFlight
      <4> QED
          BY <4>1 DEF SpentIsNowhere
    <3> QED
        BY <3>1, <3>2
  <2> QED
      BY <1>1, <1>2, <2>1, <2>3 DEF SpentIsNowhere, SpentStaysSpent
<1> QED
    BY <1>5, <1>6

\* It is of the present pair, or has a new one.
LEMMA LoadKeepsPair ==
    ASSUME AccountsTyped, AccountsTyped', NEW r \in AccountRequests, NEW k \in Kinds,
           NEW changed, NEW proves, NEW to,
           Load(r, k, changed, proves), Made(to), OnePair,
           IF k = "setIdentifierChangeToken"
           THEN /\ {"pendingIdentifier", "identifierChangeToken"} \subseteq DOMAIN changed
                /\ issued' = issued + 1 /\ changed["identifierChangeToken"] = issued'
                /\ to \in Addresses /\ changed["pendingIdentifier"] = to
           ELSE /\ "identifierChangeToken" \in DOMAIN changed =>
                      changed["identifierChangeToken"] = None
                /\ "pendingIdentifier" \in DOMAIN changed =>
                      changed["pendingIdentifier"] = NoAddress
    PROVE  OnePair'
<1>1. /\ InFlight(r)' /\ request'[r].kind = k /\ request'[r].at = "loaded"
      /\ \A c \in Saves(k) : request'[r].want[c] =
            IF c \in DOMAIN changed THEN changed[c] ELSE db[c]
      /\ \A q \in AccountRequests \ {r} : request'[q] = request[q]
      /\ UNCHANGED <<db, proven, trusted, spent, crossed>>
    BY LoadIs
<1>2. /\ issued \in Nat /\ issued' \in Nat /\ issued <= issued'
      /\ \A s \in 1 .. issued : sentTo'[s] = sentTo[s]
      /\ issued' = issued + 1 => sentTo'[issued'] = to
    BY MadeIs DEF AccountsTyped
<1> SUFFICES ASSUME "token" \notin crossed' PROVE \E t, a : PairIs(t, a)'
    BY DEF OnePair
<1>3. PICK t, a : PairIs(t, a)
    BY <1>1 DEF OnePair
<1>4. t \in 0 .. issued
    BY <1>3 DEF PairIs
<1>5. PairOf(r, t, a)'
  <2>1. "identifierChangeToken" \in Saves(k) => "pendingIdentifier" \in Saves(k)
      BY SavesAre
  <2>2. CASE k = "setIdentifierChangeToken"
      BY <1>1, <1>2, <1>4, <2>1, <2>2 DEF PairOf, Holds
  <2>3. CASE k # "setIdentifierChangeToken"
      BY <1>1, <1>3, <2>1, <2>3 DEF PairOf, Holds, PairIs
  <2> QED
      BY <2>2, <2>3
<1>6. ASSUME NEW q \in AccountRequests \ {r} PROVE PairOf(q, t, a)'
  <2>1. PairOf(q, t, a) /\ request'[q] = request[q]
      BY <1>1, <1>3 DEF PairIs
  <2> QED
      BY <1>2, <2>1 DEF PairOf, Holds, InFlight
<1>7. PairIs(t, a)'
  <2>1. t # None /\ a # NoAddress => a = sentTo'[t]
      BY <1>2, <1>3, <1>4 DEF PairIs, None
  <2> QED
      BY <1>1, <1>2, <1>3, <1>4, <1>5, <1>6, <2>1 DEF PairIs
<1> QED
    BY <1>7

\* It is verified by the address it proves, and its tokens go to the present one.
LEMMA LoadKeepsProof ==
    ASSUME AccountsTyped, NEW r \in AccountRequests, NEW k \in Kinds,
           NEW changed, NEW proves, NEW to,
           Load(r, k, changed, proves), Made(to), VerifiedByNow, SomeProof,
           "verified" \in DOMAIN changed /\ changed["verified"] =>
              proves # {} /\ (crossed = {} => IsAsked \/ db["identifier"] \in proves),
           "identifier" \in DOMAIN changed => k \in Renames,
           k = "changeIdentifierByToken" /\ crossed = {} =>
              "identifier" \in DOMAIN changed /\ changed["identifier"] \in proves,
           \A c \in MailedTokens \cap DOMAIN changed :
              \/ changed[c] = None
              \/ issued' = issued + 1 /\ changed[c] = issued' /\ to = db["identifier"]
    PROVE  VerifiedByNow' /\ SomeProof'
<1>1. /\ InFlight(r)' /\ request'[r].kind = k /\ request'[r].proves = proves
      /\ DOMAIN request'[r].want = Saves(k)
      /\ \A c \in Saves(k) : request'[r].want[c] =
            IF c \in DOMAIN changed THEN changed[c] ELSE db[c]
      /\ \A q \in AccountRequests \ {r} : request'[q] = request[q]
      /\ UNCHANGED <<db, proven, trusted, spent, crossed>>
    BY LoadIs
<1>2. /\ issued \in Nat /\ issued' \in Nat /\ issued <= issued'
      /\ \A s \in 1 .. issued : sentTo'[s] = sentTo[s]
      /\ issued' = issued + 1 => sentTo'[issued'] = to
    BY MadeIs DEF AccountsTyped
<1>3. ASSUME NEW q \in AccountRequests \ {r}
      PROVE  /\ InFlight(q)' <=> InFlight(q)
             /\ \A c : Holds(q, c)' <=> Holds(q, c)
             /\ request'[q] = request[q]
    BY <1>1 DEF Holds, InFlight
<1>4. /\ \A c : Holds(r, c)' <=> c \in Saves(k)
      /\ IsAsked' <=> IsAsked
      /\ Saves(k) \subseteq Column
      /\ k \in Renames => "identifier" \in Saves(k)
    BY <1>1, SavesAre DEF Holds, IsAsked
<1>5. SomeProof'
  <2>1. ASSUME Holds(r, "verified")', request'[r].want["verified"]
        PROVE  proven # {} \/ proves # {}
      BY <1>1, <1>4, <2>1 DEF SomeProof
  <2>2. ASSUME NEW q \in AccountRequests, Holds(q, "verified")', request'[q].want["verified"]
        PROVE  proven' # {} \/ request'[q].proves # {}
    <3>1. CASE q = r
        BY <1>1, <2>1, <2>2, <3>1
    <3>2. CASE q # r
        BY <1>1, <1>3, <2>2, <3>2 DEF SomeProof
    <3> QED
        BY <3>1, <3>2
  <2> QED
      BY <1>1, <2>2 DEF SomeProof
<1>6. ASSUME crossed = {} PROVE VerifiedByNow'
  <2>1. /\ db["verified"] => IsAsked
        /\ IsAsked \/ SentThere(db, Column)
        /\ \A q \in AccountRequests : ProofOf(q)
      BY <1>6 DEF VerifiedByNow
  <2>2. ASSUME NEW f, NEW C, RowTyped(f, C, issued), SentThere(f, C)
        PROVE  \A c \in MailedTokens \cap C :
                  f[c] # None => sentTo'[f[c]] = db["identifier"]
    <3>1. \A c \in MailedTokens \cap C : f[c] \in 0 .. issued
        BY <2>2 DEF RowTyped, MailedTokens, Secret
    <3> QED
        BY <1>2, <2>2, <3>1 DEF SentThere, None
  <2>3. IsAsked' \/ SentThere(db, Column)'
      BY <1>1, <1>4, <2>1, <2>2 DEF SentThere, AccountsTyped
  <2>4. ProofOf(r)'
    <3>1. Holds(r, "verified")' /\ request'[r].want["verified"] =>
             IsAsked' \/ db'["identifier"] \in proves
        BY <1>1, <1>4, <1>6, <2>1
    <3>2. Holds(r, "identifier")' /\ k \notin Renames =>
             request'[r].want["identifier"] = db'["identifier"]
        BY <1>1, <1>4
    <3>3. k = "changeIdentifierByToken" => request'[r].want["identifier"] \in proves
        BY <1>1, <1>4, <1>6 DEF Renames
    <3>4. IsAsked' \/ SentThere(request[r].want, Saves(request[r].kind))'
      <4> SUFFICES ASSUME ~IsAsked
                   PROVE  \A c \in MailedTokens \cap Saves(k) : request'[r].want[c] # None =>
                             sentTo'[request'[r].want[c]] = db["identifier"]
          BY <1>1, <1>4 DEF SentThere
      <4>1. \A c \in MailedTokens \cap Column :
                db[c] # None => sentTo'[db[c]] = db["identifier"]
          BY <2>1, <2>2 DEF AccountsTyped
      <4>2. ASSUME NEW c \in MailedTokens \cap Saves(k), request'[r].want[c] # None
            PROVE  sentTo'[request'[r].want[c]] = db["identifier"]
        <5>1. CASE c \in DOMAIN changed
            BY <1>1, <1>2, <4>2, <5>1
        <5>2. CASE c \notin DOMAIN changed
            BY <1>1, <1>4, <4>1, <4>2, <5>2
        <5> QED
            BY <5>1, <5>2
      <4> QED
          BY <4>2
    <3> QED
        BY <1>1, <3>1, <3>2, <3>3, <3>4 DEF ProofOf
  <2>5. ASSUME NEW q \in AccountRequests \ {r} PROVE ProofOf(q)'
    <3>1. ProofOf(q) /\ request'[q] = request[q]
        BY <1>3, <2>1
    <3>2. IsAsked' \/ (InFlight(q)' => SentThere(request[q].want, Saves(request[q].kind))')
      <4>1. InFlight(q) => RowTyped(request[q].want, Saves(request[q].kind), issued)
          BY DEF AccountsTyped, RequestTyped
      <4> QED
          BY <1>1, <1>3, <1>4, <2>2, <3>1, <4>1 DEF ProofOf, SentThere
    <3>3. /\ Holds(q, "verified")' /\ request'[q].want["verified"] =>
                IsAsked' \/ db'["identifier"] \in request'[q].proves
          /\ Holds(q, "identifier")' /\ request'[q].kind \notin Renames =>
                request'[q].want["identifier"] = db'["identifier"]
          /\ InFlight(q)' /\ request'[q].kind = "changeIdentifierByToken" =>
                request'[q].want["identifier"] \in request'[q].proves
        BY <1>1, <1>3, <1>4, <3>1 DEF ProofOf
    <3> QED
        BY <3>2, <3>3 DEF ProofOf
  <2> QED
      BY <1>1, <1>4, <2>1, <2>3, <2>4, <2>5 DEF VerifiedByNow
<1> QED
    BY <1>1, <1>5, <1>6 DEF VerifiedByNow

LEMMA LoadKeeps ==
    ASSUME AccountsInv, NEW r \in AccountRequests, NEW k \in Kinds,
           NEW changed, NEW proves, NEW to,
           Load(r, k, changed, proves), Made(to),
           RowTyped(changed, DOMAIN changed, issued'),
           \A c \in DOMAIN changed \cap Secret :
              changed[c] = None \/ (issued' = issued + 1 /\ changed[c] = issued'),
           IF k = "setIdentifierChangeToken"
           THEN /\ {"pendingIdentifier", "identifierChangeToken"} \subseteq DOMAIN changed
                /\ issued' = issued + 1 /\ changed["identifierChangeToken"] = issued'
                /\ to \in Addresses /\ changed["pendingIdentifier"] = to
           ELSE /\ "identifierChangeToken" \in DOMAIN changed =>
                      changed["identifierChangeToken"] = None
                /\ "pendingIdentifier" \in DOMAIN changed =>
                      changed["pendingIdentifier"] = NoAddress,
           "verified" \in DOMAIN changed /\ changed["verified"] =>
              proves # {} /\ (crossed = {} => IsAsked \/ db["identifier"] \in proves),
           "identifier" \in DOMAIN changed => k \in Renames,
           k = "changeIdentifierByToken" /\ crossed = {} =>
              "identifier" \in DOMAIN changed /\ changed["identifier"] \in proves,
           DOMAIN changed \cap MailedTokens # {} =>
              to = db["identifier"] \/ \A c \in MailedTokens \cap DOMAIN changed : changed[c] = None
    PROVE  AccountsInv'
<1>1. AccountsTyped /\ SpentIsNowhere /\ OnePair /\ VerifiedByNow /\ SomeProof
    BY DEF AccountsInv
<1>2. AccountsTyped' /\ SpentIsNowhere'
  <2>1. \A c \in DOMAIN changed \cap Secret : changed[c] \in {None, issued + 1}
      OBVIOUS
  <2> QED
      BY <1>1, <2>1, LoadKeepsTypes
<1>3. OnePair'
    BY <1>1, <1>2, LoadKeepsPair
<1>4. VerifiedByNow' /\ SomeProof'
  <2>1. \A c \in MailedTokens \cap DOMAIN changed :
           \/ changed[c] = None
           \/ issued' = issued + 1 /\ changed[c] = issued' /\ to = db["identifier"]
    <3>1. MailedTokens \subseteq Secret
        BY DEF MailedTokens, Secret
    <3>2. \A c \in MailedTokens \cap DOMAIN changed :
             changed[c] = None \/ (issued' = issued + 1 /\ changed[c] = issued')
        BY <3>1
    <3>3. ASSUME NEW c \in MailedTokens \cap DOMAIN changed, changed[c] # None
          PROVE  issued' = issued + 1 /\ changed[c] = issued' /\ to = db["identifier"]
      <4>1. DOMAIN changed \cap MailedTokens # {}
          OBVIOUS
      <4> QED
          BY <3>2, <3>3, <4>1
    <3> QED
        BY <3>3
  <2> QED
      BY <1>1, <2>1, LoadKeepsProof
<1> QED
    BY <1>2, <1>3, <1>4 DEF AccountsInv

\* What the row has, when the types are right.
LEMMA RowIs ==
    ASSUME AccountsTyped
    PROVE  /\ db["identifier"] \in Addresses
           /\ db["pendingIdentifier"] \in Addresses \cup {NoAddress}
           /\ \A c \in Secret : db[c] \in 0 .. issued /\ (db[c] # None => db[c] \in 1 .. issued)
           /\ issued \in Nat /\ issued + 1 \in Nat
           /\ \A s \in 1 .. issued : sentTo[s] \in Addresses \cup {NoAddress}
<1>1. DOMAIN db = Column /\ RowTyped(db, Column, issued) /\ issued \in Nat
    BY DEF AccountsTyped
<1>2. Secret \subseteq Column /\ {"identifier", "pendingIdentifier"} \subseteq Column
    BY DEF Secret, Column, Method, UserRow, Hash
<1>3. \A c \in Secret : db[c] \in 0 .. issued
    BY <1>1, <1>2 DEF RowTyped
<1>4. db["identifier"] \in Addresses /\ db["pendingIdentifier"] \in Addresses \cup {NoAddress}
    BY <1>1, <1>2 DEF RowTyped
<1>5. \A s \in 1 .. issued : sentTo[s] \in Addresses \cup {NoAddress}
    BY DEF AccountsTyped
<1> QED
    BY <1>1, <1>3, <1>4, <1>5 DEF None

LEMMA SetVerificationTokenKeeps ==
    ASSUME AccountsInv, NEW r \in AccountRequests, SetVerificationToken(r)
    PROVE  AccountsInv'
<1> DEFINE ch == [verificationToken |-> Fresh, verified |-> FALSE]
<1>1. /\ DOMAIN ch = {"verificationToken", "verified"}
      /\ ch["verificationToken"] = Fresh
      /\ ~ch["verified"] /\ ch["verified"] \in BOOLEAN
    OBVIOUS
<1>2. Load(r, "setVerificationToken", ch, NoProof) /\ Issue(db["identifier"])
    BY DEF SetVerificationToken
<1>3. Made(db["identifier"]) /\ issued' = issued + 1 /\ Fresh = issued' /\ issued' \in Nat
    BY <1>2, RowIs DEF AccountsInv, Issue, Made, Fresh
<1> HIDE DEF ch
<1>4. RowTyped(ch, DOMAIN ch, issued')
  <2>1. Fresh \in 0 .. issued'
      BY <1>3
  <2> QED
      BY <1>1, <2>1 DEF RowTyped, Secret, Hash
<1> QED
    BY <1>1, <1>2, <1>3, <1>4, LoadKeeps DEF Kinds, Secret, Hash

LEMMA SetPasswordResetTokenKeeps ==
    ASSUME AccountsInv, NEW r \in AccountRequests, SetPasswordResetToken(r)
    PROVE  AccountsInv'
<1> DEFINE ch == [passwordResetToken |-> Fresh]
<1>1. DOMAIN ch = {"passwordResetToken"} /\ ch["passwordResetToken"] = Fresh
    OBVIOUS
<1>2. Load(r, "setPasswordResetToken", ch, NoProof) /\ Issue(db["identifier"])
    BY DEF SetPasswordResetToken
<1>3. Made(db["identifier"]) /\ issued' = issued + 1 /\ Fresh = issued' /\ issued' \in Nat
    BY <1>2, RowIs DEF AccountsInv, Issue, Made, Fresh
<1> HIDE DEF ch
<1>4. RowTyped(ch, DOMAIN ch, issued')
    BY <1>1, <1>3 DEF RowTyped, Secret, Hash
<1> QED
    BY <1>1, <1>2, <1>3, <1>4, LoadKeeps DEF Kinds, Secret, Hash

LEMMA UpdatePasswordKeeps ==
    ASSUME AccountsInv, NEW r \in AccountRequests, UpdatePassword(r)
    PROVE  AccountsInv'
<1> DEFINE ch == [passwordHash |-> Fresh]
<1>1. DOMAIN ch = {"passwordHash"} /\ ch["passwordHash"] = Fresh
    OBVIOUS
<1>2. Load(r, "updatePassword", ch, NoProof) /\ Issue(NoAddress)
    BY DEF UpdatePassword
<1>3. Made(NoAddress) /\ issued' = issued + 1 /\ Fresh = issued' /\ issued' \in Nat
    BY <1>2, RowIs DEF AccountsInv, Issue, Made, Fresh
<1> HIDE DEF ch
<1>4. RowTyped(ch, DOMAIN ch, issued')
    BY <1>1, <1>3 DEF RowTyped, Secret, Hash
<1>5. DOMAIN ch \cap MailedTokens = {}
    BY <1>1 DEF MailedTokens
<1> QED
    BY <1>1, <1>2, <1>3, <1>4, <1>5, LoadKeeps DEF Kinds, Secret, Hash

LEMMA TouchKeeps ==
    ASSUME AccountsInv, NEW r \in AccountRequests, Touch(r)
    PROVE  AccountsInv'
<1> DEFINE ch == <<>>
<1>1. DOMAIN ch = {}
    OBVIOUS
<1>2. PICK k \in {"authenticate", "updateCustomer"} : Load(r, k, ch, NoProof)
    BY DEF Touch
<1>3. Made(NoAddress)
    BY DEF Touch, NoIssue, Made
<1> HIDE DEF ch
<1>4. RowTyped(ch, DOMAIN ch, issued')
    BY <1>1 DEF RowTyped
<1> QED
    BY <1>1, <1>2, <1>3, <1>4, LoadKeeps DEF Kinds, Secret, Hash

LEMMA SetIdentifierChangeTokenKeeps ==
    ASSUME AccountsInv, NEW r \in AccountRequests, SetIdentifierChangeToken(r)
    PROVE  AccountsInv'
<1>1. PICK a \in Addresses \ {db["identifier"]} :
         /\ Issue(a)
         /\ Load(r, "setIdentifierChangeToken",
                 [pendingIdentifier |-> a, identifierChangeToken |-> Fresh], NoProof)
    BY DEF SetIdentifierChangeToken, ChangeTokenGoesTo
<1> DEFINE ch == [pendingIdentifier |-> a, identifierChangeToken |-> Fresh]
<1>2. /\ DOMAIN ch = {"pendingIdentifier", "identifierChangeToken"}
      /\ ch["pendingIdentifier"] = a /\ ch["identifierChangeToken"] = Fresh
    OBVIOUS
<1>3. Made(a) /\ issued' = issued + 1 /\ Fresh = issued' /\ issued' \in Nat
    BY <1>1, RowIs DEF AccountsInv, Issue, Made, Fresh
<1>4. Load(r, "setIdentifierChangeToken", ch, NoProof)
    BY <1>1
<1> HIDE DEF ch
<1>5. RowTyped(ch, DOMAIN ch, issued')
  <2>1. Fresh \in 0 .. issued'
      BY <1>3
  <2> QED
      BY <1>2, <2>1 DEF RowTyped, Secret, Hash
<1>6. DOMAIN ch \cap MailedTokens = {}
    BY <1>2 DEF MailedTokens
<1> QED
    BY <1>2, <1>3, <1>4, <1>5, <1>6, LoadKeeps DEF Kinds, Secret, Hash

\* The columns a new address is written to.
LEMMA RenamedIs ==
    ASSUME NEW a \in Addresses, NEW n \in Nat
    PROVE  /\ DOMAIN Renamed(a) = {"identifier", "nativeIdentifier", "emailAddress",
                                   "identifierChangeToken", "pendingIdentifier"}
           /\ Renamed(a)["identifier"] = a
           /\ Renamed(a)["identifierChangeToken"] = None
           /\ Renamed(a)["pendingIdentifier"] = NoAddress
           /\ RowTyped(Renamed(a), DOMAIN Renamed(a), n)
           /\ DOMAIN Renamed(a) \cap MailedTokens = {}
           /\ DOMAIN Renamed(a) \cap Secret = {"identifierChangeToken"}
<1>1. /\ DOMAIN Renamed(a) = {"identifier", "nativeIdentifier", "emailAddress",
                                   "identifierChangeToken", "pendingIdentifier"}
      /\ Renamed(a)["identifier"] = a
      /\ Renamed(a)["nativeIdentifier"] = a
      /\ Renamed(a)["emailAddress"] = a
      /\ Renamed(a)["identifierChangeToken"] = None
      /\ Renamed(a)["pendingIdentifier"] = NoAddress
    BY DEF Renamed
<1> QED
    BY <1>1 DEF RowTyped, MailedTokens, Secret, Hash, None

LEMMA ChangeUserAndNativeIdentifierKeeps ==
    ASSUME AccountsInv, NEW r \in AccountRequests, ChangeUserAndNativeIdentifier(r)
    PROVE  AccountsInv'
<1>1. PICK a \in Addresses : Load(r, "changeUserAndNativeIdentifier", Renamed(a), NoProof)
    BY DEF ChangeUserAndNativeIdentifier
<1>2. Made(NoAddress) /\ issued' \in Nat
    BY RowIs DEF AccountsInv, ChangeUserAndNativeIdentifier, NoIssue, Made
<1> QED
    BY <1>1, <1>2, RenamedIs, LoadKeeps DEF Kinds, Secret, Hash, Renames

LEMMA ChangeIdentifierByTokenKeeps ==
    ASSUME AccountsInv, NEW r \in AccountRequests, ChangeIdentifierByToken(r)
    PROVE  AccountsInv'
<1> DEFINE a == db["pendingIdentifier"]
           p == {sentTo[db["identifierChangeToken"]]}
<1>1. /\ db["identifierChangeToken"] # None /\ a # NoAddress /\ a \in Addresses
      /\ Load(r, "changeIdentifierByToken", Renamed(a), p)
      /\ Made(NoAddress) /\ issued' \in Nat
    BY RowIs DEF AccountsInv, ChangeIdentifierByToken, NoIssue, Made
<1>2. crossed = {} => a \in p
    BY <1>1 DEF AccountsInv, OnePair, PairIs
<1> HIDE DEF a, p
<1> QED
    BY <1>1, <1>2, RenamedIs, LoadKeeps DEF Kinds, Secret, Hash, Renames

LEMMA ResetPasswordByTokenKeeps ==
    ASSUME AccountsInv, NEW r \in AccountRequests, ResetPasswordByToken(r)
    PROVE  AccountsInv'
<1> DEFINE ch == [passwordHash |-> Fresh, passwordResetToken |-> None, verified |-> TRUE]
           p == {sentTo[db["passwordResetToken"]]}
<1>1. /\ DOMAIN ch = {"passwordHash", "passwordResetToken", "verified"}
      /\ ch["passwordHash"] = Fresh /\ ch["passwordResetToken"] = None
    OBVIOUS
<1>2. Load(r, "resetPasswordByToken", ch, p) /\ Issue(NoAddress)
    BY DEF ResetPasswordByToken
<1>3. Made(NoAddress) /\ issued' = issued + 1 /\ Fresh = issued' /\ issued' \in Nat
    BY <1>2, RowIs DEF AccountsInv, Issue, Made, Fresh
<1>4. crossed = {} => IsAsked \/ db["identifier"] \in p
  <2>1. "passwordResetToken" \in MailedTokens \cap Column /\ db["passwordResetToken"] # None
      BY DEF ResetPasswordByToken, MailedTokens, Column, Method
  <2> QED
      BY <2>1 DEF AccountsInv, VerifiedByNow, SentThere
<1>5. p # {} /\ ch["verified"] \in BOOLEAN
    OBVIOUS
<1> HIDE DEF ch, p
<1>6. RowTyped(ch, DOMAIN ch, issued')
  <2>1. Fresh \in 0 .. issued' /\ None \in 0 .. issued'
      BY <1>3 DEF None
  <2> QED
      BY <1>1, <1>5, <2>1 DEF RowTyped, Secret, Hash
<1>7. \A c \in MailedTokens \cap DOMAIN ch : ch[c] = None
    BY <1>1 DEF MailedTokens
<1> QED
    BY <1>1, <1>2, <1>3, <1>4, <1>5, <1>6, <1>7, LoadKeeps DEF Kinds, Secret, Hash

LEMMA VerifyUserByTokenKeeps ==
    ASSUME AccountsInv, NEW r \in AccountRequests, VerifyUserByToken(r)
    PROVE  AccountsInv'
<1> DEFINE first == [verificationToken |-> None, verified |-> TRUE, passwordHash |-> Fresh]
           later == [verificationToken |-> None, verified |-> TRUE]
           p == {sentTo[db["verificationToken"]]}
<1>1. /\ DOMAIN first = {"verificationToken", "verified", "passwordHash"}
      /\ first["verificationToken"] = None /\ first["passwordHash"] = Fresh
      /\ first["verified"] \in BOOLEAN
      /\ DOMAIN later = {"verificationToken", "verified"}
      /\ later["verificationToken"] = None /\ later["verified"] \in BOOLEAN
      /\ p # {}
    OBVIOUS
<1>2. crossed = {} => IsAsked \/ db["identifier"] \in p
  <2>1. "verificationToken" \in MailedTokens \cap Column /\ db["verificationToken"] # None
      BY DEF VerifyUserByToken, MailedTokens, Column, Method
  <2> QED
      BY <2>1 DEF AccountsInv, VerifiedByNow, SentThere
<1>3. \/ Issue(NoAddress) /\ Load(r, "verifyUserByToken", first, p)
      \/ NoIssue /\ Load(r, "verifyUserByToken", later, p)
    BY DEF VerifyUserByToken
<1> HIDE DEF first, later, p
<1>4. CASE Issue(NoAddress) /\ Load(r, "verifyUserByToken", first, p)
  <2>1. Made(NoAddress) /\ issued' = issued + 1 /\ Fresh = issued' /\ issued' \in Nat
      BY <1>4, RowIs DEF AccountsInv, Issue, Made, Fresh
  <2>2. RowTyped(first, DOMAIN first, issued')
    <3>1. Fresh \in 0 .. issued' /\ None \in 0 .. issued'
        BY <2>1, RowIs DEF AccountsInv, None
    <3> QED
        BY <1>1, <3>1 DEF RowTyped, Secret, Hash
  <2>3. \A c \in MailedTokens \cap DOMAIN first : first[c] = None
      BY <1>1 DEF MailedTokens
  <2> QED
      BY <1>1, <1>2, <1>4, <2>1, <2>2, <2>3, LoadKeeps DEF Kinds, Secret, Hash
<1>5. CASE NoIssue /\ Load(r, "verifyUserByToken", later, p)
  <2>1. Made(NoAddress) /\ issued' \in Nat
      BY <1>5, RowIs DEF AccountsInv, NoIssue, Made
  <2>2. RowTyped(later, DOMAIN later, issued')
    <3>1. None \in 0 .. issued'
        BY <2>1 DEF None
    <3> QED
        BY <1>1, <3>1 DEF RowTyped, Secret, Hash
  <2>3. \A c \in MailedTokens \cap DOMAIN later : later[c] = None
      BY <1>1 DEF MailedTokens
  <2>4. \A c \in Secret \cap DOMAIN later : later[c] = None
      BY <1>1 DEF Secret, Hash
  <2> QED
      BY <1>1, <1>2, <1>5, <2>1, <2>2, <2>3, <2>4, LoadKeeps DEF Kinds, Secret, Hash
<1> QED
    BY <1>3, <1>4, <1>5

-----------------------------------------------------------------------------
\* What a request has when it has saved a row.
LEMMA SaveIs ==
    ASSUME AccountsTyped, NEW r \in AccountRequests, InFlight(r), NEW cols, NEW to,
           to \in {"method", "saved"}, SaveRow(r, cols, to)
    PROVE  /\ InFlight(r)' /\ request'[r].at = to
           /\ request'[r].kind = request[r].kind
           /\ request'[r].want = request[r].want
           /\ request'[r].proves = request[r].proves
           /\ DOMAIN request'[r].writes = DOMAIN request[r].writes \cup Differ(r, cols)
           /\ Differ(r, cols) \subseteq DOMAIN request[r].want
           /\ \A c \in DOMAIN request'[r].writes : request'[r].writes[c] = request[r].want[c]
           /\ DOMAIN request'[r] = {"at", "kind", "want", "writes", "proves"}
           /\ DOMAIN request' = AccountRequests
           /\ \A q \in AccountRequests \ {r} : request'[q] = request[q]
           /\ UNCHANGED <<db, begun, issued, sentTo, proven, trusted, spent, crossed>>
<1> DEFINE w == Restrict(request[r].want, DOMAIN request[r].writes \cup Differ(r, cols))
<1>1. /\ DOMAIN request = AccountRequests
      /\ DOMAIN request[r] = {"at", "kind", "want", "writes", "proves"}
    BY DEF AccountsTyped, RequestTyped
<1>2. /\ request' = [request EXCEPT ![r].at = to, ![r].writes = w]
      /\ UNCHANGED <<db, begun, issued, sentTo, proven, trusted, spent, crossed>>
    BY DEF SaveRow
<1>3. /\ DOMAIN w = DOMAIN request[r].writes \cup Differ(r, cols)
      /\ \A c \in DOMAIN w : w[c] = request[r].want[c]
      /\ Differ(r, cols) \subseteq DOMAIN request[r].want
    BY DEF Restrict, Differ
<1> HIDE DEF w
<1>4. /\ request'[r].at = to /\ request'[r].writes = w
      /\ request'[r].kind = request[r].kind
      /\ request'[r].want = request[r].want
      /\ request'[r].proves = request[r].proves
      /\ DOMAIN request'[r] = {"at", "kind", "want", "writes", "proves"}
      /\ DOMAIN request' = AccountRequests
      /\ \A q \in AccountRequests \ {r} : request'[q] = request[q]
    BY <1>1, <1>2
<1> QED
    BY <1>2, <1>3, <1>4 DEF InFlight

LEMMA SaveKeeps ==
    ASSUME AccountsInv, NEW r \in AccountRequests, InFlight(r), NEW cols, NEW to,
           to \in {"method", "saved"}, SaveRow(r, cols, to),
           request[r].kind = "setIdentifierChangeToken" => Method \subseteq cols
    PROVE  AccountsInv'
<1>1. AccountsTyped /\ SpentIsNowhere /\ OnePair /\ VerifiedByNow /\ SomeProof
    BY DEF AccountsInv
<1>2. /\ InFlight(r)' /\ request'[r].at = to
      /\ request'[r].kind = request[r].kind
      /\ request'[r].want = request[r].want
      /\ request'[r].proves = request[r].proves
      /\ DOMAIN request'[r].writes = DOMAIN request[r].writes \cup Differ(r, cols)
      /\ Differ(r, cols) \subseteq DOMAIN request[r].want
      /\ \A c \in DOMAIN request'[r].writes : request'[r].writes[c] = request[r].want[c]
      /\ DOMAIN request'[r] = {"at", "kind", "want", "writes", "proves"}
      /\ DOMAIN request' = AccountRequests
      /\ \A q \in AccountRequests \ {r} : request'[q] = request[q]
      /\ UNCHANGED <<db, begun, issued, sentTo, proven, trusted, spent, crossed>>
    BY <1>1, SaveIs
<1>3. ASSUME NEW q \in AccountRequests
      PROVE  /\ InFlight(q)' <=> InFlight(q)
             /\ \A c : Holds(q, c)' <=> Holds(q, c)
             /\ request'[q].kind = request[q].kind
             /\ request'[q].want = request[q].want
             /\ request'[q].proves = request[q].proves
  <2>1. CASE q = r
      BY <1>2, <2>1 DEF Holds
  <2>2. CASE q # r
      BY <1>2, <2>2 DEF Holds, InFlight
  <2> QED
      BY <2>1, <2>2
<1>4. AccountsTyped'
  <2>1. RequestTyped(r)'
    <3>1. RequestTyped(r)
        BY <1>1 DEF AccountsTyped
    <3> QED
        BY <1>2, <3>1 DEF RequestTyped
  <2>2. ASSUME NEW q \in AccountRequests \ {r} PROVE RequestTyped(q)'
    <3>1. RequestTyped(q) /\ request'[q] = request[q]
        BY <1>1, <1>2 DEF AccountsTyped
    <3> QED
        BY <1>2, <3>1 DEF RequestTyped, InFlight
  <2> QED
      BY <1>1, <1>2, <2>1, <2>2 DEF AccountsTyped
<1>5. SpentIsNowhere'
    BY <1>1, <1>2, <1>3 DEF SpentIsNowhere, SpentStaysSpent
<1>6. SomeProof'
    BY <1>1, <1>2, <1>3 DEF SomeProof
<1>7. VerifiedByNow'
  <2> SUFFICES ASSUME crossed = {} PROVE VerifiedByNow'
      BY <1>2 DEF VerifiedByNow
  <2>1. /\ db["verified"] => IsAsked
        /\ IsAsked \/ SentThere(db, Column)
        /\ \A q \in AccountRequests : ProofOf(q)
      BY <1>1 DEF VerifiedByNow
  <2>2. ASSUME NEW q \in AccountRequests PROVE ProofOf(q)'
    <3>1. ProofOf(q)
        BY <2>1
    <3> QED
        BY <1>2, <1>3, <3>1 DEF ProofOf, IsAsked, SentThere
  <2> QED
      BY <1>2, <2>1, <2>2 DEF VerifiedByNow, IsAsked, SentThere
<1>8. OnePair'
  <2> SUFFICES ASSUME "token" \notin crossed PROVE \E t, a : PairIs(t, a)'
      BY <1>2 DEF OnePair
  <2>1. PICK t, a : PairIs(t, a)
      BY <1>1 DEF OnePair
  <2>2. PairOf(r, t, a)'
    <3>1. PairOf(r, t, a)
        BY <2>1 DEF PairIs
    <3>2. CASE request[r].kind = "setIdentifierChangeToken" /\ Holds(r, "identifierChangeToken")
      <4>1. /\ "identifierChangeToken" \in DOMAIN request[r].want \cap cols
            /\ "pendingIdentifier" \in DOMAIN request[r].want \cap cols
        <5>1. DOMAIN request[r].want = Method
            BY <1>1, <3>2, SavesAre DEF AccountsTyped, RequestTyped, Kinds
        <5> QED
            BY <3>2, <5>1 DEF Method
      <4>2. "identifierChangeToken" \in Differ(r, cols)
          BY <2>1, <3>1, <3>2, <4>1 DEF Differ, PairIs, PairOf, None
      <4>3. "pendingIdentifier" \in Differ(r, cols) \/ request[r].want["pendingIdentifier"] = a
          BY <2>1, <3>1, <3>2, <4>1, AccountsAssumption DEF Differ, PairIs, PairOf
      <4> QED
          BY <1>2, <1>3, <3>1, <3>2, <4>2, <4>3 DEF PairOf
    <3>3. CASE ~(request[r].kind = "setIdentifierChangeToken" /\ Holds(r, "identifierChangeToken"))
        BY <1>2, <1>3, <3>1, <3>3 DEF PairOf
    <3> QED
        BY <3>2, <3>3
  <2>3. ASSUME NEW q \in AccountRequests \ {r} PROVE PairOf(q, t, a)'
    <3>1. PairOf(q, t, a) /\ request'[q] = request[q]
        BY <1>2, <2>1 DEF PairIs
    <3> QED
        BY <1>2, <1>3, <3>1 DEF PairOf
  <2>4. PairIs(t, a)'
      BY <1>2, <2>1, <2>2, <2>3 DEF PairIs
  <2> QED
      BY <2>4
<1> QED
    BY <1>4, <1>5, <1>6, <1>7, <1>8 DEF AccountsInv

LEMMA SaveMethodKeeps ==
    ASSUME AccountsInv, NEW r \in AccountRequests, SaveMethod(r)
    PROVE  AccountsInv'
<1> DEFINE to == IF Loaded(r, OtherRows) THEN "method" ELSE "saved"
<1>1. InFlight(r) /\ SaveRow(r, Method \cup Hash, to) /\ to \in {"method", "saved"}
    BY DEF SaveMethod, InFlight
<1> HIDE DEF to
<1> QED
    BY <1>1, SaveKeeps

LEMMA SaveUserKeeps ==
    ASSUME AccountsInv, NEW r \in AccountRequests, SaveUser(r)
    PROVE  AccountsInv'
<1>1. InFlight(r) /\ SaveRow(r, OtherRows, "saved")
    BY DEF SaveUser, InFlight
<1>2. request[r].kind # "setIdentifierChangeToken"
  <2> SUFFICES ASSUME request[r].kind = "setIdentifierChangeToken" PROVE FALSE
      OBVIOUS
  <2>1. DOMAIN request[r].want = Method
      BY <1>1, SavesAre DEF AccountsInv, AccountsTyped, RequestTyped, Kinds
  <2>2. Method \cap OtherRows = {}
      BY DEF Method, OtherRows, UserRow
  <2> QED
      BY <2>1, <2>2 DEF SaveUser, Loaded
<1> QED
    BY <1>1, <1>2, SaveKeeps

-----------------------------------------------------------------------------
\* A request that is gone holds nothing.
LEMMA GoneIs ==
    ASSUME AccountsTyped, NEW r \in AccountRequests,
           request' = [request EXCEPT ![r] = NoRequest]
    PROVE  /\ ~InFlight(r)' /\ \A c : ~Holds(r, c)'
           /\ DOMAIN request'[r] = {"at", "kind", "want", "writes", "proves"}
           /\ DOMAIN request' = AccountRequests
           /\ \A q \in AccountRequests \ {r} :
                 /\ request'[q] = request[q]
                 /\ InFlight(q)' <=> InFlight(q)
                 /\ \A c : Holds(q, c)' <=> Holds(q, c)
<1>1. DOMAIN request = AccountRequests
    BY DEF AccountsTyped
<1>2. NoRequest.at = "idle" /\ DOMAIN NoRequest = {"at", "kind", "want", "writes", "proves"}
    BY DEF NoRequest
<1> HIDE DEF NoRequest
<1>3. /\ request'[r] = NoRequest /\ DOMAIN request' = AccountRequests
      /\ \A q \in AccountRequests \ {r} : request'[q] = request[q]
    BY <1>1
<1> QED
    BY <1>2, <1>3 DEF InFlight, Holds

LEMMA RequestFailsKeeps ==
    ASSUME AccountsInv, NEW r \in AccountRequests, RequestFails(r)
    PROVE  AccountsInv'
<1>1. AccountsTyped /\ SpentIsNowhere /\ OnePair /\ VerifiedByNow /\ SomeProof
    BY DEF AccountsInv
<1>2. UNCHANGED <<db, begun, issued, sentTo, proven, trusted, spent, crossed>>
    BY DEF RequestFails
<1>3. /\ ~InFlight(r)' /\ \A c : ~Holds(r, c)'
      /\ DOMAIN request'[r] = {"at", "kind", "want", "writes", "proves"}
      /\ DOMAIN request' = AccountRequests
      /\ \A q \in AccountRequests \ {r} :
            /\ request'[q] = request[q]
            /\ InFlight(q)' <=> InFlight(q)
            /\ \A c : Holds(q, c)' <=> Holds(q, c)
    BY <1>1, GoneIs DEF RequestFails
<1>4. AccountsTyped'
  <2>1. ASSUME NEW q \in AccountRequests PROVE RequestTyped(q)'
    <3>1. CASE q = r
        BY <1>3, <3>1 DEF RequestTyped
    <3>2. CASE q # r
        BY <1>1, <1>2, <1>3, <3>2 DEF AccountsTyped, RequestTyped
    <3> QED
        BY <3>1, <3>2
  <2> QED
      BY <1>1, <1>2, <1>3, <2>1 DEF AccountsTyped
<1>5. SpentIsNowhere'
    BY <1>1, <1>2, <1>3 DEF SpentIsNowhere, SpentStaysSpent
<1>6. SomeProof'
    BY <1>1, <1>2, <1>3 DEF SomeProof
<1>7. VerifiedByNow'
  <2> SUFFICES ASSUME crossed = {} PROVE VerifiedByNow'
      BY <1>2 DEF VerifiedByNow
  <2>1. /\ db["verified"] => IsAsked
        /\ IsAsked \/ SentThere(db, Column)
        /\ \A q \in AccountRequests : ProofOf(q)
      BY <1>1 DEF VerifiedByNow
  <2>2. ASSUME NEW q \in AccountRequests PROVE ProofOf(q)'
    <3>1. ProofOf(q)
        BY <2>1
    <3>2. CASE q = r
        BY <1>3, <3>2 DEF ProofOf
    <3>3. CASE q # r
        BY <1>2, <1>3, <3>1, <3>3 DEF ProofOf, IsAsked, SentThere
    <3> QED
        BY <3>2, <3>3
  <2> QED
      BY <1>2, <2>1, <2>2 DEF VerifiedByNow, IsAsked, SentThere
<1>8. OnePair'
  <2> SUFFICES ASSUME "token" \notin crossed PROVE \E t, a : PairIs(t, a)'
      BY <1>2 DEF OnePair
  <2>1. PICK t, a : PairIs(t, a)
      BY <1>1 DEF OnePair
  <2>2. ASSUME NEW q \in AccountRequests PROVE PairOf(q, t, a)'
    <3>1. PairOf(q, t, a)
        BY <2>1 DEF PairIs
    <3>2. CASE q = r
        BY <1>3, <3>2 DEF PairOf
    <3>3. CASE q # r
        BY <1>2, <1>3, <3>1, <3>3 DEF PairOf
    <3> QED
        BY <3>2, <3>3
  <2>3. PairIs(t, a)'
      BY <1>2, <2>1, <2>2 DEF PairIs
  <2> QED
      BY <2>3
<1> QED
    BY <1>4, <1>5, <1>6, <1>7, <1>8 DEF AccountsInv

-----------------------------------------------------------------------------
LEMMA CommitIs ==
    ASSUME AccountsTyped, NEW r \in AccountRequests, CommitRequest(r)
    PROVE  /\ InFlight(r) /\ request[r].at = "saved" /\ request[r].kind \in Kinds
           /\ DOMAIN request[r].writes \subseteq Saves(request[r].kind)
           /\ DOMAIN db' = Column
           /\ \A c \in Column : db'[c] =
                 IF c \in DOMAIN request[r].writes THEN request[r].want[c] ELSE db[c]
           /\ UNCHANGED <<begun, issued, sentTo>>
           /\ ~InFlight(r)' /\ \A c : ~Holds(r, c)'
           /\ DOMAIN request'[r] = {"at", "kind", "want", "writes", "proves"}
           /\ DOMAIN request' = AccountRequests
           /\ \A q \in AccountRequests \ {r} :
                 /\ request'[q] = request[q]
                 /\ InFlight(q)' <=> InFlight(q)
                 /\ \A c : Holds(q, c)' <=> Holds(q, c)
<1>1. InFlight(r) /\ request[r].at = "saved"
    BY DEF CommitRequest, InFlight
<1>2. /\ request[r].kind \in Kinds
      /\ DOMAIN request[r].writes \subseteq Saves(request[r].kind)
      /\ \A c \in DOMAIN request[r].writes : request[r].writes[c] = request[r].want[c]
    BY <1>1 DEF AccountsTyped, RequestTyped
<1>3. /\ db' = Patched(db, request[r].writes) /\ UNCHANGED <<begun, issued, sentTo>>
      /\ request' = [request EXCEPT ![r] = NoRequest]
    BY DEF CommitRequest
<1>4. /\ DOMAIN db' = Column
      /\ \A c \in Column : db'[c] =
            IF c \in DOMAIN request[r].writes THEN request[r].want[c] ELSE db[c]
    BY <1>2, <1>3 DEF Patched, AccountsTyped
<1> QED
    BY <1>1, <1>2, <1>3, <1>4, GoneIs

\* A column that another request holds is meant by one.
LEMMA HeldByOther ==
    ASSUME AccountsTyped, NEW r \in AccountRequests, NEW q \in AccountRequests \ {r}
    PROVE  /\ Holds(q, "identifierChangeToken") => MethodHeld(r)
           /\ Holds(q, "identifier") \/ Holds(q, "verified") => IdentifierHeld(r)
           /\ \A c \in Secret : Holds(q, c) => MeantByOther(r, c)
<1> SUFFICES ASSUME InFlight(q)
             PROVE  /\ Holds(q, "identifierChangeToken") => MethodHeld(r)
                    /\ Holds(q, "identifier") \/ Holds(q, "verified") => IdentifierHeld(r)
                    /\ \A c \in Secret : Holds(q, c) => MeantByOther(r, c)
    BY DEF Holds
<1> DEFINE k == request[q].kind
<1>1. k \in OtherKinds(r) /\ k \in Kinds
    BY DEF OtherKinds, AccountsTyped, RequestTyped
<1>2. /\ "passwordHash" \in Saves(k) =>
            k \in {"verifyUserByToken", "resetPasswordByToken", "updatePassword"}
      /\ "verified" \in Saves(k) => "identifier" \in Saves(k)
    BY <1>1, SavesAre
<1>3. \A c \in Method : Holds(q, c) => MethodHeld(r)
    BY <1>1 DEF MethodHeld, Holds
<1>4. Holds(q, "identifier") \/ Holds(q, "verified") => IdentifierHeld(r)
    BY <1>1, <1>2 DEF IdentifierHeld, Holds
<1>5. ASSUME NEW c \in Secret, Holds(q, c) PROVE MeantByOther(r, c)
  <2>1. CASE c \in Hash
      BY <1>1, <1>2, <1>5, <2>1 DEF MeantByOther, Holds, Hash
  <2>2. CASE c \notin Hash
    <3>1. c \in Method
        BY <2>2 DEF Secret, Method
    <3> QED
        BY <1>3, <1>5, <2>2, <3>1 DEF MeantByOther
  <2> QED
      BY <2>1, <2>2
<1> QED
    BY <1>3, <1>4, <1>5 DEF Method

LEMMA CommitKeepsTypes ==
    ASSUME AccountsTyped, NEW r \in AccountRequests, CommitRequest(r)
    PROVE  AccountsTyped'
<1>1. /\ InFlight(r) /\ request[r].kind \in Kinds
      /\ DOMAIN request[r].writes \subseteq Saves(request[r].kind)
      /\ DOMAIN db' = Column
      /\ \A c \in Column : db'[c] =
            IF c \in DOMAIN request[r].writes THEN request[r].want[c] ELSE db[c]
      /\ UNCHANGED <<begun, issued, sentTo>>
      /\ ~InFlight(r)'
      /\ DOMAIN request'[r] = {"at", "kind", "want", "writes", "proves"}
      /\ DOMAIN request' = AccountRequests
      /\ \A q \in AccountRequests \ {r} : request'[q] = request[q]
    BY CommitIs
<1>2. RowTyped(db', Column, issued)
    BY <1>1 DEF AccountsTyped, RequestTyped, RowTyped
<1>3. ASSUME NEW q \in AccountRequests PROVE RequestTyped(q)'
  <2>1. CASE q = r
      BY <1>1, <2>1 DEF RequestTyped
  <2>2. CASE q # r
      BY <1>1, <2>2 DEF AccountsTyped, RequestTyped, InFlight
  <2> QED
      BY <2>1, <2>2
<1> QED
    BY <1>1, <1>2, <1>3 DEF AccountsTyped

LEMMA CommitKeepsSpent ==
    ASSUME AccountsTyped, SpentIsNowhere, NEW r \in AccountRequests, CommitRequest(r)
    PROVE  SpentIsNowhere'
<1> DEFINE q == request[r]
           gone == {d \in DOMAIN q.writes \cap Secret :
                       q.writes[d] # db[d] /\ db[d] # None /\ ~MeantByOther(r, d)}
<1>1. /\ InFlight(r) /\ DOMAIN q.writes \subseteq Saves(q.kind)
      /\ \A c \in Column : db'[c] = IF c \in DOMAIN q.writes THEN q.want[c] ELSE db[c]
      /\ UNCHANGED <<begun, issued, sentTo>>
      /\ \A c : ~Holds(r, c)'
      /\ \A p \in AccountRequests \ {r} :
            request'[p] = request[p] /\ \A c : Holds(p, c)' <=> Holds(p, c)
    BY CommitIs
<1>2. \A c \in DOMAIN q.writes : q.writes[c] = q.want[c]
    BY <1>1 DEF AccountsTyped, RequestTyped
<1>3. spent' = spent \cup {<<c, db[c]>> : c \in gone}
    BY DEF CommitRequest
<1>4. \A c, s : <<c, s>> \in spent' <=> <<c, s>> \in spent \/ (c \in gone /\ s = db[c])
    BY <1>3
<1>5. Secret \subseteq Column
    BY DEF Secret, Column, Method, Hash
<1>6. \A c \in gone : c \in Secret /\ db[c] \in 1 .. issued /\ c \in DOMAIN q.writes
                      /\ q.want[c] # db[c] /\ ~MeantByOther(r, c)
    BY <1>2, RowIs
<1> HIDE DEF gone
<1>7. \A c, s : <<c, s>> \in spent' => s \in 1 .. issued
    BY <1>4, <1>6 DEF SpentIsNowhere
<1>8. ASSUME NEW c \in Secret PROVE <<c, db'[c]>> \notin spent'
  <2>1. <<c, db'[c]>> \notin spent
      BY <1>1, <1>5 DEF SpentIsNowhere, SpentStaysSpent, Holds
  <2>2. c \in gone => db'[c] # db[c]
      BY <1>1, <1>5, <1>6
  <2> QED
      BY <1>4, <2>1, <2>2
<1>9. ASSUME NEW p \in AccountRequests, NEW c \in Secret, Holds(p, c)'
      PROVE  <<c, request'[p].want[c]>> \notin spent'
  <2>1. p # r
      BY <1>1, <1>9
  <2>2. Holds(p, c) /\ request'[p] = request[p]
      BY <1>1, <1>9, <2>1
  <2>3. <<c, request[p].want[c]>> \notin spent /\ MeantByOther(r, c)
      BY <2>1, <2>2, HeldByOther DEF SpentIsNowhere
  <2> QED
      BY <1>4, <1>6, <2>2, <2>3
<1> QED
    BY <1>1, <1>7, <1>8, <1>9 DEF SpentIsNowhere, SpentStaysSpent

LEMMA CommitKeepsPair ==
    ASSUME AccountsTyped, OnePair, NEW r \in AccountRequests, CommitRequest(r)
    PROVE  OnePair'
<1> DEFINE q == request[r]
<1>1. /\ InFlight(r) /\ q.at = "saved" /\ q.kind \in Kinds
      /\ DOMAIN q.writes \subseteq Saves(q.kind)
      /\ \A c \in Column : db'[c] = IF c \in DOMAIN q.writes THEN q.want[c] ELSE db[c]
      /\ UNCHANGED <<begun, issued, sentTo>>
      /\ \A c : ~Holds(r, c)'
      /\ \A p \in AccountRequests \ {r} :
            request'[p] = request[p] /\ \A c : Holds(p, c)' <=> Holds(p, c)
    BY CommitIs
<1> SUFFICES ASSUME "token" \notin crossed' PROVE \E t, a : PairIs(t, a)'
    BY DEF OnePair
<1>2. "token" \notin crossed /\ ~(q.kind = "setIdentifierChangeToken" /\ MethodHeld(r))
    BY DEF CommitRequest
<1>3. PICK t, a : PairIs(t, a)
    BY <1>2 DEF OnePair
<1>4. /\ db'["identifierChangeToken"] =
            IF "identifierChangeToken" \in DOMAIN q.writes
            THEN q.want["identifierChangeToken"] ELSE db["identifierChangeToken"]
      /\ db'["pendingIdentifier"] =
            IF "pendingIdentifier" \in DOMAIN q.writes
            THEN q.want["pendingIdentifier"] ELSE db["pendingIdentifier"]
    BY <1>1 DEF Column, Method
<1>5. /\ "pendingIdentifier" \in DOMAIN q.writes => Holds(r, "identifierChangeToken")
      /\ "identifierChangeToken" \in DOMAIN q.writes => Holds(r, "identifierChangeToken")
      /\ q.kind = "setIdentifierChangeToken" => Holds(r, "identifierChangeToken")
    BY <1>1, SavesAre DEF Holds, Method
<1>6. PairOf(r, t, a)
    BY <1>3 DEF PairIs
<1>7. CASE q.kind = "setIdentifierChangeToken"
  <2> PICK new, b : new = q.want["identifierChangeToken"] /\ b = q.want["pendingIdentifier"]
      OBVIOUS
  <2>1. /\ new \in 0 .. issued /\ b = sentTo[new]
        /\ db'["identifierChangeToken"] = new
        /\ db'["pendingIdentifier"] \in {b, NoAddress}
      BY <1>1, <1>3, <1>4, <1>5, <1>6, <1>7 DEF PairOf, PairIs, None
  <2>2. ASSUME NEW p \in AccountRequests PROVE ~Holds(p, "identifierChangeToken")'
      BY <1>1, <1>2, <1>7, HeldByOther
  <2>3. PairIs(new, b)'
      BY <1>1, <2>1, <2>2 DEF PairIs, PairOf
  <2> QED
      BY <2>3
<1>8. CASE q.kind # "setIdentifierChangeToken"
  <2>1. /\ db'["identifierChangeToken"] \in {t, None}
        /\ db'["pendingIdentifier"] \in {a, NoAddress}
      BY <1>3, <1>4, <1>5, <1>6, <1>8 DEF PairIs, PairOf
  <2>2. ASSUME NEW p \in AccountRequests PROVE PairOf(p, t, a)'
    <3>1. CASE p = r
        BY <1>1, <3>1 DEF PairOf
    <3>2. CASE p # r
        BY <1>1, <1>3, <3>2 DEF PairOf, PairIs
    <3> QED
        BY <3>1, <3>2
  <2>3. PairIs(t, a)'
      BY <1>1, <1>3, <2>1, <2>2 DEF PairIs
  <2> QED
      BY <2>3
<1> QED
    BY <1>7, <1>8

LEMMA CommitKeepsProof ==
    ASSUME AccountsTyped, VerifiedByNow, SomeProof, NEW r \in AccountRequests, CommitRequest(r)
    PROVE  VerifiedByNow' /\ SomeProof'
<1> DEFINE q == request[r]
<1>1. /\ InFlight(r) /\ q.kind \in Kinds
      /\ DOMAIN q.writes \subseteq Saves(q.kind)
      /\ \A c \in Column : db'[c] = IF c \in DOMAIN q.writes THEN q.want[c] ELSE db[c]
      /\ UNCHANGED <<begun, issued, sentTo>>
      /\ ~InFlight(r)' /\ \A c : ~Holds(r, c)'
      /\ \A p \in AccountRequests \ {r} :
            /\ request'[p] = request[p]
            /\ InFlight(p)' <=> InFlight(p)
            /\ \A c : Holds(p, c)' <=> Holds(p, c)
    BY CommitIs
<1>2. /\ proven' = proven \cup q.proves
      /\ trusted \subseteq trusted'
      /\ q.kind = "changeUserAndNativeIdentifier" => q.want["identifier"] \in trusted'
    BY DEF CommitRequest
<1>3. /\ db'["verified"] = IF "verified" \in DOMAIN q.writes THEN q.want["verified"]
                           ELSE db["verified"]
      /\ db'["identifier"] = IF "identifier" \in DOMAIN q.writes THEN q.want["identifier"]
                             ELSE db["identifier"]
      /\ "verified" \in DOMAIN q.writes => Holds(r, "verified")
      /\ "identifier" \in DOMAIN q.writes => Holds(r, "identifier")
    BY <1>1 DEF Column, UserRow, Holds
<1>4. SomeProof'
  <2>1. db'["verified"] => proven' # {}
      BY <1>2, <1>3 DEF SomeProof
  <2>2. ASSUME NEW p \in AccountRequests, Holds(p, "verified")', request'[p].want["verified"]
        PROVE  proven' # {} \/ request'[p].proves # {}
      BY <1>1, <1>2, <2>2 DEF SomeProof
  <2> QED
      BY <2>1, <2>2 DEF SomeProof
<1>5. ASSUME crossed' = {} PROVE VerifiedByNow'
  <2>1. crossed = {} /\ ~("identifier" \in DOMAIN q.writes /\ IdentifierHeld(r))
      BY <1>5 DEF CommitRequest
  <2>2. /\ db["verified"] => IsAsked
        /\ IsAsked \/ SentThere(db, Column)
        /\ \A p \in AccountRequests : ProofOf(p)
      BY <2>1 DEF VerifiedByNow
  <2>3. ProofOf(r)
      BY <2>2
  <2>4. ASSUME NEW p \in AccountRequests \ {r}
        PROVE  /\ ProofOf(p) /\ request'[p] = request[p]
               /\ InFlight(p)' <=> InFlight(p)
               /\ \A c : Holds(p, c)' <=> Holds(p, c)
      BY <1>1, <2>2
  <2>5. ProofOf(r)'
      BY <1>1 DEF ProofOf
  <2>6. CASE "identifier" \in DOMAIN q.writes /\ q.kind \in Renames
    <3>1. IsAsked'
        BY <1>1, <1>2, <1>3, <2>3, <2>6 DEF IsAsked, ProofOf, Renames
    <3>2. ASSUME NEW p \in AccountRequests \ {r} PROVE ProofOf(p)'
      <4>1. ~Holds(p, "identifier") /\ ~Holds(p, "verified")
          BY <2>1, <2>6, HeldByOther
      <4> QED
          BY <2>4, <3>1, <4>1 DEF ProofOf
    <3> QED
        BY <2>5, <3>1, <3>2 DEF VerifiedByNow
  <2>7. CASE ~("identifier" \in DOMAIN q.writes /\ q.kind \in Renames)
    <3>1. db'["identifier"] = db["identifier"]
        BY <1>3, <2>3, <2>7 DEF ProofOf
    <3>2. IsAsked => IsAsked'
        BY <1>2, <3>1 DEF IsAsked
    <3>3. db'["verified"] => IsAsked'
      <4>1. db["identifier"] \in q.proves => IsAsked'
          BY <1>2, <3>1 DEF IsAsked
      <4> QED
          BY <1>3, <2>2, <2>3, <3>2, <4>1 DEF ProofOf
    <3>4. IsAsked' \/ SentThere(db, Column)'
      <4>1. \A c \in MailedTokens : c \in Column
          BY DEF MailedTokens, Column, Method
      <4> QED
          BY <1>1, <2>2, <2>3, <3>1, <3>2, <4>1 DEF SentThere, ProofOf
    <3>5. ASSUME NEW p \in AccountRequests \ {r} PROVE ProofOf(p)'
        BY <1>1, <2>4, <3>1, <3>2 DEF ProofOf, SentThere
    <3> QED
        BY <2>5, <3>3, <3>4, <3>5 DEF VerifiedByNow
  <2> QED
      BY <2>6, <2>7
<1> QED
    BY <1>4, <1>5 DEF VerifiedByNow

-----------------------------------------------------------------------------
LEMMA AccountsStep == AccountsInv /\ [AccountsNext]_accountVars => AccountsInv'
<1> SUFFICES ASSUME AccountsInv, [AccountsNext]_accountVars PROVE AccountsInv'
    OBVIOUS
<1>1. ASSUME NEW r \in AccountRequests, CommitRequest(r) PROVE AccountsInv'
    BY <1>1, CommitKeepsTypes, CommitKeepsSpent, CommitKeepsPair, CommitKeepsProof
       DEF AccountsInv
<1>2. CASE UNCHANGED accountVars
  <2>1. UNCHANGED <<db, request, begun, issued, sentTo, proven, trusted, spent, crossed>>
      BY <1>2 DEF accountVars
  <2>2. AccountsTyped' /\ SpentIsNowhere'
      BY <2>1 DEF AccountsInv, AccountsTyped, RequestTyped, InFlight, SpentIsNowhere,
                  SpentStaysSpent, Holds
  <2>3. OnePair'
      BY <2>1 DEF AccountsInv, OnePair, PairIs, PairOf, Holds, InFlight
  <2>4. VerifiedByNow' /\ SomeProof'
      BY <2>1 DEF AccountsInv, VerifiedByNow, SomeProof, ProofOf, IsAsked, SentThere, Holds,
                  InFlight
  <2> QED
      BY <2>2, <2>3, <2>4 DEF AccountsInv
<1>3. CASE AccountsNext
    BY <1>1, <1>3, SetVerificationTokenKeeps, VerifyUserByTokenKeeps, SetPasswordResetTokenKeeps,
       ResetPasswordByTokenKeeps, SetIdentifierChangeTokenKeeps, ChangeIdentifierByTokenKeeps,
       ChangeUserAndNativeIdentifierKeeps, UpdatePasswordKeeps, TouchKeeps, SaveMethodKeeps,
       SaveUserKeeps, RequestFailsKeeps DEF AccountsNext
<1> QED
    BY <1>2, <1>3

\* Whatever the invariant says holds in every state of the accounts.
THEOREM AccountsInvariance == AccountsSpec => []AccountsInv
<1>1. AccountsInit => AccountsInv
    BY InitAccounts
<1>2. AccountsInv /\ [AccountsNext]_accountVars => AccountsInv'
    BY AccountsStep
<1> QED
    BY <1>1, <1>2, PTL DEF AccountsSpec

\* A token sets the address it was sent to and no other, whatever the requests
\* that overlap write back, unless a new token was committed while another
\* request held the old one (setIdentifierChangeToken, changeIdentifierByToken).
THEOREM PendingGoesWithToken == AccountsSpec => []PendingIsWhereTokenWent
<1>1. AccountsInv => PendingIsWhereTokenWent
    BY DEF AccountsInv, OnePair, PairIs, PendingIsWhereTokenWent
<1> QED
    BY <1>1, AccountsInvariance, PTL

\* A verified user has proven an address, the present one unless it was set by
\* CustomerService.update or requests crossed each other.
THEOREM VerificationIsProven == AccountsSpec => []VerifiedByProof
<1>1. AccountsInv => VerifiedByProof
    BY DEF AccountsInv, VerifiedByNow, SomeProof, VerifiedByProof, IsAsked
<1> QED
    BY <1>1, AccountsInvariance, PTL

\* A token or password that was used or replaced while no other request worked
\* on its column is never in the row again, whatever is saved later.
THEOREM SpentIsGone == AccountsSpec => []SpentStaysSpent
<1>1. AccountsInv => SpentStaysSpent
    BY DEF AccountsInv, SpentIsNowhere
<1> QED
    BY <1>1, AccountsInvariance, PTL

-----------------------------------------------------------------------------
(***************************************************************************)
(* Sums of amounts: MapThenSumSet for any finite set.                      *)
(***************************************************************************)
LEMMA NaturalsFrom0 ==
    ASSUME NEW T \in SUBSET Nat, 0 \in T, \A n \in T : n + 1 \in T
    PROVE  T = Nat
<1> SUFFICES ASSUME T # Nat PROVE FALSE
    OBVIOUS
<1>1. PICK k \in Nat \ T : \A y \in Nat \ T : k <= y
  <2>1. Nat \ T \in SUBSET Nat /\ Nat \ T # {}
      OBVIOUS
  <2> QED
      BY <2>1, LeastNatural
<1>2. k - 1 \in Nat /\ k - 1 \notin T
    BY <1>1
<1> QED
    BY <1>1, <1>2

Pick(s) == CHOOSE x \in s : TRUE
Total(g, S) == MapThenSumSet(LAMBDA f : g[f].amount, S)

IsSum(it, g, C) ==
    it = [s \in C |-> IF s = {} THEN 0 ELSE g[Pick(s)].amount + it[s \ {Pick(s)}]]

LEMMA PickIs == \A s : s # {} => Pick(s) \in s
BY DEF Pick

LEMMA TotalIs ==
    ASSUME NEW g, NEW S
    PROVE  Total(g, S) = (CHOOSE it : IsSum(it, g, SUBSET S))[S]
BY Zenon DEF Total, MapThenSumSet, MapThenFoldSet, IsSum, Pick

\* The subsets of S with at most n elements.
Small(S, n) == {s \in SUBSET S : Cardinality(s) <= n}

LEMMA SmallIs ==
    ASSUME NEW S, IsFiniteSet(S), NEW n \in Nat
    PROVE  /\ \A s \in Small(S, n + 1) \ {{}} :
                 /\ Pick(s) \in s /\ s \ {Pick(s)} \in Small(S, n)
                 /\ \A y \in s : s \ {y} \in Small(S, n)
           /\ Small(S, n) \subseteq Small(S, n + 1)
           /\ Small(S, 0) = {{}}
           /\ \A s \in SUBSET S : IsFiniteSet(s) /\ Cardinality(s) \in Nat
<1>1. \A s \in SUBSET S : IsFiniteSet(s) /\ Cardinality(s) \in Nat
    BY FS_Subset, FS_CardinalityType
<1>2. ASSUME NEW s \in Small(S, n + 1), NEW y \in s PROVE s \ {y} \in Small(S, n)
  <2>1. Cardinality(s \ {y}) = Cardinality(s) - 1
      BY <1>1, FS_RemoveElement DEF Small
  <2> QED
      BY <1>1, <2>1 DEF Small
<1>3. Small(S, n) \subseteq Small(S, n + 1)
    BY <1>1 DEF Small
<1>4. Small(S, 0) = {{}}
  <2>1. \A s \in SUBSET S : Cardinality(s) = 0 <=> s = {}
      BY <1>1, FS_EmptySet
  <2> QED
      BY <1>1, <2>1 DEF Small
<1> QED
    BY <1>1, <1>2, <1>3, <1>4, PickIs

LEMMA SumExists ==
    ASSUME NEW g, NEW S, IsFiniteSet(S)
    PROVE  \E it : IsSum(it, g, SUBSET S)
<1> DEFINE T == {n \in Nat : \E it : IsSum(it, g, Small(S, n))}
<1>1. 0 \in T
  <2> DEFINE it == [s \in Small(S, 0) |-> 0]
  <2>1. IsSum(it, g, Small(S, 0))
      BY SmallIs DEF IsSum
  <2> QED
      BY <2>1
<1>2. ASSUME NEW n \in T PROVE n + 1 \in T
  <2>1. PICK it : IsSum(it, g, Small(S, n))
      OBVIOUS
  <2> DEFINE more == [s \in Small(S, n + 1) |->
                        IF s = {} THEN 0 ELSE g[Pick(s)].amount + it[s \ {Pick(s)}]]
  <2>2. ASSUME NEW s \in Small(S, n) PROVE more[s] = it[s]
      BY <2>1, SmallIs DEF IsSum
  <2>3. \A s \in Small(S, n + 1) \ {{}} : s \ {Pick(s)} \in Small(S, n)
      BY SmallIs
  <2>4. more = [s \in Small(S, n + 1) |->
                  IF s = {} THEN 0 ELSE g[Pick(s)].amount + more[s \ {Pick(s)}]]
    <3> DEFINE body == [s \in Small(S, n + 1) |->
                  IF s = {} THEN 0 ELSE g[Pick(s)].amount + more[s \ {Pick(s)}]]
    <3>1. ASSUME NEW s \in Small(S, n + 1) PROVE more[s] = body[s]
      <4>1. CASE s = {}
          BY <4>1
      <4>2. CASE s # {}
        <5>1. more[s \ {Pick(s)}] = it[s \ {Pick(s)}]
            BY <2>2, <2>3, <4>2
        <5> QED
            BY <4>2, <5>1
      <4> QED
          BY <4>1, <4>2
    <3> QED
        BY <3>1
  <2> HIDE DEF more
  <2>5. IsSum(more, g, Small(S, n + 1))
      BY <2>4 DEF IsSum
  <2> QED
      BY <2>5
<1> HIDE DEF T
<1>3. T = Nat
  <2>1. T \in SUBSET Nat
      BY DEF T
  <2> QED
      BY <1>1, <1>2, <2>1, NaturalsFrom0
<1>4. SUBSET S = Small(S, Cardinality(S))
  <2>1. \A s \in SUBSET S : Cardinality(s) <= Cardinality(S)
      BY FS_Subset
  <2> QED
      BY <2>1 DEF Small
<1>5. Cardinality(S) \in T
    BY <1>3, FS_CardinalityType
<1> QED
    BY <1>4, <1>5 DEF T

Amount(g, e) == g[e].amount

\* The sums of the subsets, which Total takes the last one of.
Sums(g, S) == CHOOSE it : IsSum(it, g, SUBSET S)

LEMMA SumsAre ==
    ASSUME NEW g, NEW S, IsFiniteSet(S)
    PROVE  /\ Total(g, S) = Sums(g, S)[S]
           /\ Sums(g, S)[{}] = 0
           /\ \A s \in (SUBSET S) \ {{}} :
                 Sums(g, S)[s] = Amount(g, Pick(s)) + Sums(g, S)[s \ {Pick(s)}]
<1>1. IsSum(Sums(g, S), g, SUBSET S)
    BY SumExists DEF Sums
<1>2. Total(g, S) = Sums(g, S)[S]
    BY TotalIs DEF Sums
<1> QED
    BY <1>1, <1>2 DEF IsSum, Amount

\* Any element may be taken out of a sum first.
LEMMA SumOfAny ==
    ASSUME NEW g, NEW S, IsFiniteSet(S), \A e \in S : Amount(g, e) \in Int,
           NEW s \in SUBSET S
    PROVE  /\ Sums(g, S)[s] \in Int
           /\ \A y \in s : Sums(g, S)[s] = Amount(g, y) + Sums(g, S)[s \ {y}]
<1> DEFINE it == Sums(g, S)
           Good(t) == /\ it[t] \in Int
                      /\ \A y \in t : it[t] = Amount(g, y) + it[t \ {y}]
           T == {n \in Nat : \A t \in Small(S, n) : Good(t)}
<1>1. /\ it[{}] = 0
      /\ \A t \in (SUBSET S) \ {{}} : it[t] = Amount(g, Pick(t)) + it[t \ {Pick(t)}]
    BY SumsAre
<1> HIDE DEF it
<1>0. Good({})
    BY <1>1
<1>2. 0 \in T
    BY <1>0, SmallIs
<1>3. ASSUME NEW n \in T PROVE n + 1 \in T
  <2>1. ASSUME NEW t \in Small(S, n + 1), t # {} PROVE Good(t)
    <3> DEFINE x == Pick(t)
    <3>1. x \in t /\ t \in SUBSET S /\ x \in S /\ Amount(g, x) \in Int
        BY <2>1, PickIs DEF Small
    <3>2. \A y \in t : t \ {y} \in Small(S, n) /\ Good(t \ {y})
        BY <2>1, SmallIs
    <3>3. it[t] = Amount(g, x) + it[t \ {x}] /\ it[t \ {x}] \in Int
        BY <1>1, <2>1, <3>1, <3>2
    <3> HIDE DEF x
    <3>4. ASSUME NEW y \in t, y # x PROVE it[t] = Amount(g, y) + it[t \ {y}]
      <4>1. it[t \ {x}] = Amount(g, y) + it[(t \ {x}) \ {y}]
          BY <3>1, <3>2, <3>4
      <4>2. it[t \ {y}] = Amount(g, x) + it[(t \ {y}) \ {x}]
          BY <3>1, <3>2, <3>4
      <4>3. (t \ {x}) \ {y} = (t \ {y}) \ {x}
          OBVIOUS
      <4>4. it[(t \ {x}) \ {y}] \in Int
        <5>1. (t \ {x}) \ {y} \in Small(S, n)
          <6>1. t \ {x} \in Small(S, n + 1)
              BY <3>1, <3>2, SmallIs
          <6> QED
              BY <3>4, <6>1, SmallIs
        <5> QED
            BY <5>1
      <4>5. Amount(g, y) \in Int
          BY <3>1
      <4> QED
        <5>1. \A a, b, w \in Int : a + (b + w) = b + (a + w)
            OBVIOUS
        <5>2. PICK a, b, w : /\ a = Amount(g, x) /\ b = Amount(g, y)
                             /\ w = it[(t \ {x}) \ {y}]
            OBVIOUS
        <5>3. a \in Int /\ b \in Int /\ w \in Int
            BY <3>1, <4>4, <4>5, <5>2
        <5>4. it[t] = a + (b + w)
            BY <3>3, <4>1, <5>2
        <5>5. it[t \ {y}] = a + w
            BY <4>2, <4>3, <5>2
        <5> QED
            BY <5>1, <5>2, <5>3, <5>4, <5>5
    <3>5. it[t] \in Int
        BY <3>1, <3>3
    <3>6. \A y \in t : it[t] = Amount(g, y) + it[t \ {y}]
        BY <3>3, <3>4
    <3> QED
        BY <3>5, <3>6
  <2>2. ASSUME NEW t \in Small(S, n + 1) PROVE Good(t)
    <3>1. CASE t = {}
        BY <1>0, <3>1
    <3>2. CASE t # {}
        BY <2>1, <3>2
    <3> QED
        BY <3>1, <3>2
  <2>3. n + 1 \in Nat
      OBVIOUS
  <2> HIDE DEF Good
  <2> QED
      BY <2>2, <2>3
<1>4. T = Nat
  <2> HIDE DEF Good
  <2>1. T \in SUBSET Nat
      OBVIOUS
  <2> HIDE DEF T
  <2> QED
      BY <1>2, <1>3, <2>1, NaturalsFrom0
<1>5. s \in Small(S, Cardinality(s)) /\ Cardinality(s) \in Nat
    BY SmallIs DEF Small
<1>6. Good(s)
    BY <1>4, <1>5
<1> QED
    BY <1>6 DEF it

\* The sum of a set does not depend on what it is a part of.
LEMMA SumOfPart ==
    ASSUME NEW g, NEW h, NEW S, NEW R \in SUBSET S, IsFiniteSet(S),
           \A e \in R : Amount(h, e) = Amount(g, e),
           NEW s \in SUBSET R
    PROVE  Sums(h, S)[s] = Sums(g, R)[s]
<1> DEFINE T == {n \in Nat : \A t \in Small(R, n) : Sums(h, S)[t] = Sums(g, R)[t]}
<1>1. IsFiniteSet(R)
    BY FS_Subset
<1>2. /\ Sums(g, R)[{}] = 0 /\ Sums(h, S)[{}] = 0
      /\ \A t \in (SUBSET R) \ {{}} :
            /\ Sums(g, R)[t] = Amount(g, Pick(t)) + Sums(g, R)[t \ {Pick(t)}]
            /\ Sums(h, S)[t] = Amount(h, Pick(t)) + Sums(h, S)[t \ {Pick(t)}]
    BY <1>1, SumsAre
<1>3. 0 \in T
    BY <1>1, <1>2, SmallIs
<1>4. ASSUME NEW n \in T PROVE n + 1 \in T
  <2>1. ASSUME NEW t \in Small(R, n + 1), t # {} PROVE Sums(h, S)[t] = Sums(g, R)[t]
    <3>1. Pick(t) \in R /\ t \in SUBSET R
        BY <2>1, PickIs DEF Small
    <3>2. t \ {Pick(t)} \in Small(R, n)
        BY <1>1, <2>1, SmallIs
    <3> QED
        BY <1>2, <2>1, <3>1, <3>2
  <2>2. ASSUME NEW t \in Small(R, n + 1) PROVE Sums(h, S)[t] = Sums(g, R)[t]
    <3>1. CASE t = {}
        BY <1>2, <3>1
    <3>2. CASE t # {}
        BY <2>1, <3>2
    <3> QED
        BY <3>1, <3>2
  <2>3. n + 1 \in Nat
      OBVIOUS
  <2> QED
      BY <2>2, <2>3
<1>5. T = Nat
  <2>1. T \in SUBSET Nat
      OBVIOUS
  <2> HIDE DEF T
  <2> QED
      BY <1>3, <1>4, <2>1, NaturalsFrom0
<1>6. s \in Small(R, Cardinality(s)) /\ Cardinality(s) \in Nat
    BY <1>1, SmallIs DEF Small
<1> QED
    BY <1>5, <1>6

\* One more element adds its amount.
LEMMA TotalGrows ==
    ASSUME NEW g, NEW h, NEW S, NEW e, IsFiniteSet(S), e \notin S,
           \A f \in S : Amount(h, f) = Amount(g, f) /\ Amount(g, f) \in Int,
           Amount(h, e) \in Int
    PROVE  Total(h, S \cup {e}) = Amount(h, e) + Total(g, S)
<1> DEFINE U == S \cup {e}
<1>1. IsFiniteSet(U) /\ \A f \in U : Amount(h, f) \in Int
    BY FS_AddElement
<1>2. U \ {e} = S /\ e \in U /\ S \in SUBSET U
    OBVIOUS
<1> HIDE DEF U
<1>3. Sums(h, U)[U] = Amount(h, e) + Sums(h, U)[S]
    BY <1>1, <1>2, SumOfAny
<1>4. Sums(h, U)[S] = Sums(g, S)[S]
    BY <1>1, <1>2, SumOfPart
<1>5. Total(h, U) = Sums(h, U)[U] /\ Total(g, S) = Sums(g, S)[S]
    BY <1>1, SumsAre
<1> QED
    BY <1>3, <1>4, <1>5 DEF U

LEMMA TotalStands ==
    ASSUME NEW g, NEW h, NEW S, IsFiniteSet(S), \A f \in S : Amount(h, f) = Amount(g, f)
    PROVE  Total(h, S) = Total(g, S)
BY SumOfPart, SumsAre

LEMMA TotalOfNone == \A g : Total(g, {}) = 0
BY SumsAre, FS_EmptySet

-----------------------------------------------------------------------------
(***************************************************************************)
(* The ledger again: as long as no two settlements overlap.                *)
(***************************************************************************)
\* One at a time reads what is the latest still when it is written.
OneAtATime ==
    /\ LatestIsTotal
    /\ ~overlapped => \A e \in Settling : settling[e].prev \in Previous /\ Settling = {e}

LedgerTotal == IsFiniteSet(Settled) /\ OneAtATime

\* The latest of what is settled: there is one if there is any.
LEMMA SomeLatest ==
    ASSUME LedgerTypeOK, Settled # {}
    PROVE  Latest # {}
<1> DEFINE T == {MaxClock - entry[e].settledAt : e \in Settled}
<1>1. \A e \in Settled : entry[e].settledAt \in -1 .. MaxClock
    BY DEF LedgerTypeOK, Settled
<1>2. T \in SUBSET Nat /\ T # {}
    BY <1>1, LedgerAssumption
<1>3. PICK t \in T : \A u \in T : t <= u
  <2> HIDE DEF T
  <2> QED
      BY <1>2, LeastNatural
<1>4. PICK e \in Settled : t = MaxClock - entry[e].settledAt
    BY <1>3
<1>5. \A f \in Settled : MaxClock - entry[e].settledAt <= MaxClock - entry[f].settledAt
    BY <1>3, <1>4
<1>6. e \in Latest
    BY <1>1, <1>4, <1>5, LedgerAssumption DEF Latest
<1> QED
    BY <1>6

\* What a settlement reads of it.
LEMMA PreviousOfAll ==
    ASSUME LedgerTypeOK, LatestIsTotal, ~overlapped, NEW p \in Previous
    PROVE  /\ p \in Reading /\ p.balance = Total(entry, Settled)
           /\ \A f \in Settled : entry[f].settledAt <= p.settledAt
<1>1. p \in Reading
    BY PreviousIsShown
<1>2. CASE Latest = {}
  <2>1. Settled = {} /\ p = Null
      BY <1>2, SomeLatest DEF Previous
  <2> QED
      BY <1>1, <2>1, TotalOfNone DEF Null
<1>3. CASE Latest # {}
  <2>1. PICK f \in Latest : p = [balance |-> entry[f].balance, settledAt |-> entry[f].settledAt]
      BY <1>3 DEF Previous
  <2>2. entry[f].balance = Total(entry, Settled)
      BY <2>1 DEF LatestIsTotal, Total
  <2> QED
      BY <1>1, <2>1, <2>2 DEF Latest
<1> QED
    BY <1>2, <1>3

\* A step that settles nothing, and begins no second settlement.
LEMMA NothingSettled ==
    ASSUME LedgerTypeOK, LedgerTotal, Settled' = Settled,
           \A f \in Settled : entry'[f] = entry[f],
           overlapped => overlapped',
           ~overlapped' =>
              \/ \A e \in Settling' : e \in Settling /\ settling'[e].prev = settling[e].prev
              \/ \E e : Settling' = {e} /\ settling'[e].prev \in Previous
    PROVE  LedgerTotal'
<1>1. IsFiniteSet(Settled)
    BY DEF LedgerTotal
<1>2. Latest' = Latest /\ Previous' = Previous
    BY DEF Latest, Previous
<1>3. Total(entry, Settled)' = Total(entry, Settled)
  <2>1. \A f \in Settled : Amount(entry', f) = Amount(entry, f)
      BY DEF Amount
  <2>2. Total(entry', Settled) = Total(entry, Settled)
      BY <1>1, <2>1, TotalStands
  <2> QED
      BY <2>2
<1>4. LatestIsTotal'
  <2>1. ASSUME ~overlapped', NEW e \in Latest' PROVE entry'[e].balance = Total(entry, Settled)'
    <3>1. e \in Latest /\ entry'[e] = entry[e] /\ ~overlapped
        BY <1>2, <2>1 DEF Latest
    <3>2. entry[e].balance = Total(entry, Settled)
        BY <3>1 DEF LedgerTotal, OneAtATime, LatestIsTotal, Total
    <3> QED
        BY <1>3, <3>1, <3>2
  <2> QED
      BY <2>1 DEF LatestIsTotal, Total
<1>5. ASSUME ~overlapped', NEW e \in Settling'
      PROVE  settling'[e].prev \in Previous /\ Settling' = {e}
  <2>1. CASE \A f \in Settling' : f \in Settling /\ settling'[f].prev = settling[f].prev
      BY <1>5, <2>1 DEF LedgerTotal, OneAtATime
  <2>2. CASE \E f : Settling' = {f} /\ settling'[f].prev \in Previous
      BY <1>5, <2>2
  <2> QED
      BY <1>5, <2>1, <2>2
<1> QED
    BY <1>1, <1>2, <1>4, <1>5 DEF LedgerTotal, OneAtATime

LEMMA CommitKeepsTotal ==
    ASSUME LedgerInv, LedgerTotal, NEW e \in Entries, CommitSettlement(e)
    PROVE  LedgerTotal'
<1>0. PICK p : p = settling[e].prev
    OBVIOUS
<1>1. PICK now \in settling[e].since .. clock :
         /\ p.settledAt < now
         /\ entry' = [entry EXCEPT ![e].at = "settled", ![e].prev = p,
                                   ![e].balance = p.balance + entry[e].amount,
                                   ![e].settledAt = now]
    BY <1>0 DEF CommitSettlement, InOrder
<1>2. /\ e \in Settling /\ settling' = [settling EXCEPT ![e] = NotSettling]
      /\ overlapped' = overlapped
    BY DEF CommitSettlement, Settling
<1>3. entry[e].at = "new"
    BY <1>2 DEF LedgerInv, SettlingIsSound, Settling
<1>4. /\ entry'[e].at = "settled" /\ entry'[e].balance = p.balance + entry[e].amount
      /\ entry'[e].amount = entry[e].amount /\ entry'[e].settledAt = now
      /\ \A f \in Entries \ {e} : entry'[f] = entry[f]
    BY <1>1 DEF LedgerInv, LedgerTypeOK
<1>5. /\ Settled' = Settled \cup {e} /\ e \notin Settled
      /\ \A f \in Settled : entry'[f] = entry[f] /\ f \in Entries
    BY <1>3, <1>4 DEF Settled
<1>6. /\ \A f \in Entries : entry[f].amount \in Int /\ entry[f].settledAt \in -1 .. MaxClock
      /\ settling[e].since \in 0 .. MaxClock /\ clock \in 0 .. MaxClock
    BY DEF LedgerInv, LedgerTypeOK
<1>7. IsFiniteSet(Settled) /\ IsFiniteSet(Settled')
    BY <1>5, FS_AddElement DEF LedgerTotal
<1>8. ASSUME ~overlapped PROVE LatestIsTotal' /\ Settling' = {}
  <2>1. /\ p \in Reading /\ p.balance = Total(entry, Settled)
        /\ \A f \in Settled : entry[f].settledAt <= p.settledAt
    <3>1. p \in Previous /\ LatestIsTotal /\ LedgerTypeOK
        BY <1>0, <1>2, <1>8 DEF LedgerInv, LedgerTotal, OneAtATime
    <3> QED
        BY <1>8, <3>1, PreviousOfAll
  <2>2. Latest' = {e}
    <3>1. p.settledAt \in Int /\ now \in Int
        BY <1>1, <1>6, <2>1, LedgerAssumption DEF Reading
    <3>2. ASSUME NEW f \in Settled
          PROVE  entry'[f].settledAt < now /\ entry'[f].settledAt \in Int
      <4>1. entry'[f].settledAt = entry[f].settledAt /\ entry[f].settledAt \in Int
          BY <1>5, <1>6, LedgerAssumption
      <4>2. entry[f].settledAt <= p.settledAt
          BY <2>1
      <4> QED
          BY <1>1, <3>1, <4>1, <4>2
    <3> QED
        BY <1>4, <1>5, <3>1, <3>2 DEF Latest
  <2>3. entry'[e].balance = Total(entry', Settled \cup {e})
    <3>1. /\ \A f \in Settled : Amount(entry', f) = Amount(entry, f) /\ Amount(entry, f) \in Int
          /\ Amount(entry', e) = entry[e].amount /\ entry[e].amount \in Int
        BY <1>4, <1>5, <1>6 DEF Amount
    <3>2. Total(entry', Settled \cup {e}) = entry[e].amount + Total(entry, Settled)
        BY <1>5, <1>7, <3>1, TotalGrows
    <3>3. Total(entry, Settled) \in Int
        BY <2>1 DEF Reading
    <3> QED
        BY <1>4, <2>1, <3>1, <3>2, <3>3
  <2>4. LatestIsTotal'
    <3>1. Total(entry, Settled)' = Total(entry', Settled \cup {e})
        BY <1>5
    <3>2. \A f \in Latest' : entry'[f].balance = Total(entry, Settled)'
        BY <2>2, <2>3, <3>1
    <3> QED
        BY <3>2 DEF LatestIsTotal, Total
  <2>5. Settling' = {}
    <3>1. Settling = {e}
        BY <1>2, <1>8 DEF LedgerTotal, OneAtATime
    <3> QED
        BY <1>2, <3>1 DEF Settling, LedgerInv, LedgerTypeOK, NotSettling
  <2> QED
      BY <2>4, <2>5
<1>9. OneAtATime'
  <2>1. CASE overlapped
      BY <1>2, <2>1 DEF OneAtATime, LatestIsTotal
  <2>2. CASE ~overlapped
      BY <1>8, <2>2 DEF OneAtATime
  <2> QED
      BY <2>1, <2>2
<1> QED
    BY <1>7, <1>9 DEF LedgerTotal

LEMMA TotalStep == LedgerInv /\ LedgerTotal /\ [LedgerNext]_ledgerVars => LedgerTotal'
<1> SUFFICES ASSUME LedgerInv, LedgerTotal, [LedgerNext]_ledgerVars PROVE LedgerTotal'
    OBVIOUS
<1>0. LedgerTypeOK
    BY DEF LedgerInv
<1>1. ASSUME NEW e \in Entries, CreateEntry(e) PROVE LedgerTotal'
  <2>1. Settled' = Settled /\ \A f \in Settled : entry'[f] = entry[f]
      BY <1>1 DEF CreateEntry, Settled, LedgerInv, LedgerTypeOK
  <2>2. UNCHANGED <<settling, overlapped>>
      BY <1>1 DEF CreateEntry
  <2> QED
      BY <1>0, <2>1, <2>2, NothingSettled DEF Settling
<1>2. ASSUME NEW e \in Entries, BeginSettlement(e) PROVE LedgerTotal'
  <2>1. PICK p \in Previous :
           settling' = [settling EXCEPT ![e] = [on |-> TRUE, prev |-> p, since |-> clock]]
      BY <1>2 DEF BeginSettlement
  <2>2. entry' = entry /\ (overlapped' = (overlapped \/ Settling # {}))
      BY <1>2 DEF BeginSettlement
  <2>3. Settled' = Settled /\ \A f \in Settled : entry'[f] = entry[f]
      BY <2>2 DEF Settled
  <2>4. ASSUME ~overlapped' PROVE Settling' = {e} /\ settling'[e].prev = p
    <3>1. Settling = {}
        BY <2>2, <2>4
    <3> QED
        BY <1>0, <2>1, <3>1 DEF Settling, LedgerTypeOK
  <2>5. overlapped => overlapped'
      BY <2>2
  <2> QED
      BY <1>0, <2>1, <2>3, <2>4, <2>5, NothingSettled
<1>3. ASSUME NEW e \in Entries, SettlementFails(e) PROVE LedgerTotal'
  <2>1. Settled' = Settled /\ \A f \in Settled : entry'[f] = entry[f]
      BY <1>3 DEF SettlementFails, Settled, LedgerInv, LedgerTypeOK
  <2>2. settling' = [settling EXCEPT ![e] = NotSettling] /\ overlapped' = overlapped
      BY <1>3 DEF SettlementFails
  <2>3. \A f \in Settling' : f \in Settling /\ settling'[f].prev = settling[f].prev
      BY <1>0, <2>2 DEF Settling, LedgerTypeOK, NotSettling
  <2> QED
      BY <1>0, <2>1, <2>2, <2>3, NothingSettled
<1>4. ASSUME UNCHANGED <<entry, settling, overlapped>> PROVE LedgerTotal'
  <2>1. Settled' = Settled /\ \A f \in Settled : entry'[f] = entry[f]
      BY <1>4 DEF Settled
  <2> QED
      BY <1>0, <1>4, <2>1, NothingSettled DEF Settling
<1> QED
    BY <1>1, <1>2, <1>3, <1>4, CommitKeepsTotal DEF LedgerNext, ClockTicks, ledgerVars

\* getLatestSettledEntry: as long as no two settlements overlap, the latest
\* balance is the sum of all amounts that were settled, for any number of them.
THEOREM LatestBalanceIsTotal == LedgerSpec => []LatestIsTotal
<1>1. LedgerInit => LedgerTotal
  <2> SUFFICES ASSUME LedgerInit PROVE LedgerTotal
      OBVIOUS
  <2>1. Settled = {} /\ Settling = {}
      BY DEF LedgerInit, Settled, Settling, NoEntry, NotSettling
  <2>2. IsFiniteSet(Settled)
      BY <2>1, FS_EmptySet
  <2>3. OneAtATime
      BY <2>1 DEF OneAtATime, LatestIsTotal, Latest
  <2> QED
      BY <2>2, <2>3 DEF LedgerTotal
<1>2. LedgerTotal => LatestIsTotal
    BY DEF LedgerTotal, OneAtATime
<1> QED
    BY <1>1, <1>2, LedgerInvariance, TotalStep, PTL DEF LedgerSpec

-----------------------------------------------------------------------------
(***************************************************************************)
(* Collections.  What the service reads of the tree, said of any rows R.   *)
(***************************************************************************)
TreeSpec == TreeInit /\ [][TreeNext]_treeVars

ExistsIn(R, c) == c \in Nodes /\ R[c].parent \notin {Absent, Gone}

IsWalk(up, R, c) ==
    up = [n \in Nat |->
            IF n = 0 THEN <<c>>
            ELSE LET p == R[Last(up[n - 1])].parent
                 IN  IF ExistsIn(R, p) THEN Append(up[n - 1], p) ELSE up[n - 1]]

Walk(R, c) == CHOOSE up : IsWalk(up, R, c)
Line(R, c) == Walk(R, c)[Cardinality(Nodes)]
OwnIn(R, c) == {<<c, R[c].filters>>} \cap (Nodes \X (1 .. MaxFilters))
AboveLine(R, line) ==
    UNION {OwnIn(R, line[i]) : i \in {k \in 2 .. Len(line) :
                                          \A j \in 2 .. k - 1 : R[line[j]].inherits}}
Above(R, c, inherits) ==
    UNION {AboveLine(R, line) : line \in IF inherits THEN {Line(R, c)} ELSE {}}
ForceIn(R, c) == OwnIn(R, c) \cup Above(R, c, R[c].inherits)

LEMMA LineUpIs ==
    ASSUME NEW c
    PROVE  LineUp(c) = Line(row, c) /\ LineUp(c)' = Line(row', c)
<1>1. LineUp(c) = Line(row, c)
    BY Zenon DEF LineUp, Line, Walk, IsWalk, Exists, ExistsIn
<1>2. LineUp(c)' = Line(row', c)
    BY Zenon DEF LineUp, Line, Walk, IsWalk, Exists, ExistsIn
<1> QED
    BY <1>1, <1>2

LEMMA AncestorFiltersIs ==
    ASSUME NEW c, NEW inherits
    PROVE  /\ AncestorFilters(c, inherits) = Above(row, c, inherits)
           /\ AncestorFilters(c, inherits)' = Above(row', c, inherits)
<1>1. AncestorFilters(c, inherits) = Above(row, c, inherits)
    BY LineUpIs, Zenon DEF AncestorFilters, FiltersAlong, Above, AboveLine, Own, OwnIn
<1>2. AncestorFilters(c, inherits)' = Above(row', c, inherits)
    BY LineUpIs, Zenon DEF AncestorFilters, FiltersAlong, Above, AboveLine, Own, OwnIn
<1> QED
    BY <1>1, <1>2

LEMMA InForceIs ==
    ASSUME NEW c
    PROVE  /\ InForce(c) = ForceIn(row, c) /\ InForce(c)' = ForceIn(row', c)
           /\ Own(c) = OwnIn(row, c) /\ Own(c)' = OwnIn(row', c)
<1>1. Own(c) = OwnIn(row, c) /\ Own(c)' = OwnIn(row', c)
    BY DEF Own, OwnIn
<1>2. InForce(c) = ForceIn(row, c)
    BY <1>1, AncestorFiltersIs DEF InForce, ForceIn
<1>3. InForce(c)' = ForceIn(row', c)
  <2> DEFINE i == row'[c].inherits
  <2>1. AncestorFilters(c, row[c].inherits)' = Above(row', c, i)
      BY LineUpIs, Zenon DEF AncestorFilters, FiltersAlong, Above, AboveLine, Own, OwnIn
  <2> QED
      BY <1>1, <2>1 DEF InForce, ForceIn
<1> QED
    BY <1>1, <1>2, <1>3

\* A collection's own filters are those in force that are named after it.
LEMMA OwnOfForce ==
    ASSUME NEW R, NEW c
    PROVE  OwnIn(R, c) = {x \in ForceIn(R, c) : x[1] = c}
<1>1. \A d : \A x \in OwnIn(R, d) : x[1] = d
    BY DEF OwnIn
<1>2. ASSUME NEW x \in Above(R, c, R[c].inherits), x[1] = c PROVE x \in OwnIn(R, c)
  <2>1. PICK line : x \in AboveLine(R, line)
      BY <1>2 DEF Above
  <2>2. PICK d : x \in OwnIn(R, d)
      BY <2>1 DEF AboveLine
  <2> QED
      BY <1>1, <1>2, <2>2
<1> QED
    BY <1>1, <1>2 DEF ForceIn

\* A walk stays where its start and every next step lie.
LEMMA WalkStaysIn ==
    ASSUME NEW R, NEW c, NEW up, IsWalk(up, R, c), NEW G, c \in G,
           \A x \in G : ExistsIn(R, R[x].parent) => R[x].parent \in G
    PROVE  \A n \in Nat : up[n] \in Seq(G) /\ up[n] # <<>> /\ Last(up[n]) \in G
<1> DEFINE T == {n \in Nat : up[n] \in Seq(G) /\ up[n] # <<>> /\ Last(up[n]) \in G}
<1>1. 0 \in T
  <2>1. up[0] = <<c>>
      BY DEF IsWalk
  <2> QED
      BY <2>1 DEF Last
<1>2. ASSUME NEW n \in T PROVE n + 1 \in T
  <2>1. n + 1 \in Nat /\ n + 1 # 0 /\ (n + 1) - 1 = n
      OBVIOUS
  <2> DEFINE p == R[Last(up[n])].parent
  <2>2. up[n + 1] = IF ExistsIn(R, p) THEN Append(up[n], p) ELSE up[n]
      BY <2>1 DEF IsWalk
  <2>3. CASE ExistsIn(R, p)
    <3>1. p \in G /\ up[n] \in Seq(G) /\ up[n + 1] = Append(up[n], p)
        BY <2>2, <2>3
    <3> HIDE DEF p
    <3>2. Append(up[n], p) \in Seq(G) /\ Append(up[n], p) # <<>> /\ Last(Append(up[n], p)) = p
        BY <3>1 DEF Last
    <3> QED
        BY <2>1, <3>1, <3>2
  <2>4. CASE ~ExistsIn(R, p)
      BY <2>1, <2>2, <2>4
  <2> QED
      BY <2>3, <2>4
<1>3. T = Nat
  <2> HIDE DEF T
  <2>1. T \in SUBSET Nat
      BY DEF T
  <2> QED
      BY <1>1, <1>2, <2>1, NaturalsFrom0
<1> QED
    BY <1>3

\* Where two tables have the same parents, the same walks lead.
LEMMA WalksAgree ==
    ASSUME NEW R, NEW S, NEW c, NEW G, c \in G,
           \A x \in G : /\ R[x].parent = S[x].parent
                        /\ ExistsIn(R, R[x].parent) <=> ExistsIn(S, R[x].parent)
                        /\ ExistsIn(R, R[x].parent) => R[x].parent \in G
    PROVE  Line(R, c) = Line(S, c)
<1>1. ASSUME NEW up, IsWalk(up, R, c) PROVE IsWalk(up, S, c)
  <2>1. \A n \in Nat : Last(up[n]) \in G
      BY <1>1, WalkStaysIn
  <2> DEFINE step(X, n) ==
        IF n = 0 THEN <<c>>
        ELSE LET p == X[Last(up[n - 1])].parent
             IN  IF ExistsIn(X, p) THEN Append(up[n - 1], p) ELSE up[n - 1]
  <2>2. ASSUME NEW n \in Nat PROVE step(R, n) = step(S, n)
    <3>1. CASE n = 0
        BY <3>1
    <3>2. CASE n # 0
      <4>1. n - 1 \in Nat
          BY <3>2
      <4> HIDE DEF step
      <4>2. PICK x : x = Last(up[n - 1])
          OBVIOUS
      <4>3. /\ x \in G /\ R[x].parent = S[x].parent
            /\ ExistsIn(R, R[x].parent) <=> ExistsIn(S, R[x].parent)
          BY <2>1, <4>1, <4>2
      <4> QED
          BY <3>2, <4>2, <4>3 DEF step
    <3> QED
        BY <3>1, <3>2
  <2>3. up = [n \in Nat |-> step(R, n)]
      BY <1>1 DEF IsWalk
  <2>4. up = [n \in Nat |-> step(S, n)]
    <3> HIDE DEF step
    <3> QED
        BY <2>2, <2>3
  <2> QED
      BY <2>4 DEF IsWalk
<1>2. ASSUME NEW up, IsWalk(up, S, c) PROVE IsWalk(up, R, c)
  <2>1. \A n \in Nat : Last(up[n]) \in G
      BY <1>2, WalkStaysIn
  <2> DEFINE step(X, n) ==
        IF n = 0 THEN <<c>>
        ELSE LET p == X[Last(up[n - 1])].parent
             IN  IF ExistsIn(X, p) THEN Append(up[n - 1], p) ELSE up[n - 1]
  <2>2. ASSUME NEW n \in Nat PROVE step(R, n) = step(S, n)
    <3>1. CASE n = 0
        BY <3>1
    <3>2. CASE n # 0
      <4>1. n - 1 \in Nat
          BY <3>2
      <4> HIDE DEF step
      <4>2. PICK x : x = Last(up[n - 1])
          OBVIOUS
      <4>3. /\ x \in G /\ R[x].parent = S[x].parent
            /\ ExistsIn(R, R[x].parent) <=> ExistsIn(S, R[x].parent)
          BY <2>1, <4>1, <4>2
      <4> QED
          BY <3>2, <4>2, <4>3 DEF step
    <3> QED
        BY <3>1, <3>2
  <2>3. up = [n \in Nat |-> step(S, n)]
      BY <1>2 DEF IsWalk
  <2>4. up = [n \in Nat |-> step(R, n)]
    <3> HIDE DEF step
    <3> QED
        BY <2>2, <2>3
  <2> QED
      BY <2>4 DEF IsWalk
<1>3. \A up : IsWalk(up, R, c) <=> IsWalk(up, S, c)
    BY <1>1, <1>2
<1>4. Walk(R, c) = Walk(S, c)
    BY <1>3 DEF Walk
<1> QED
    BY <1>4 DEF Line

\* There is a walk: the steps so far are the same however far it goes.
Further(R, s) ==
    IF ExistsIn(R, R[Last(s)].parent) THEN Append(s, R[Last(s)].parent) ELSE s

IsWalkTo(up, R, c, n) ==
    up = [k \in 0 .. n |-> IF k = 0 THEN <<c>> ELSE Further(R, up[k - 1])]

LEMMA WalkByStep ==
    ASSUME NEW R, NEW c, NEW up
    PROVE  IsWalk(up, R, c) <=> up = [n \in Nat |-> IF n = 0 THEN <<c>> ELSE Further(R, up[n - 1])]
BY DEF IsWalk, Further

LEMMA WalksBegin ==
    ASSUME NEW R, NEW c, NEW n \in Nat, NEW m \in Nat, NEW u, NEW v,
           IsWalkTo(u, R, c, n), IsWalkTo(v, R, c, m)
    PROVE  \A k \in Nat : k <= n /\ k <= m => u[k] = v[k]
<1> DEFINE T == {k \in Nat : k <= n /\ k <= m => u[k] = v[k]}
<1>1. 0 \in T
    BY DEF IsWalkTo
<1>2. ASSUME NEW k \in T PROVE k + 1 \in T
  <2> SUFFICES ASSUME k + 1 <= n, k + 1 <= m PROVE u[k + 1] = v[k + 1]
      OBVIOUS
  <2>1. k + 1 \in 0 .. n /\ k + 1 \in 0 .. m /\ k + 1 # 0 /\ (k + 1) - 1 = k
      OBVIOUS
  <2>2. u[k] = v[k]
      OBVIOUS
  <2>3. u[k + 1] = Further(R, u[k]) /\ v[k + 1] = Further(R, v[k])
      BY <2>1 DEF IsWalkTo
  <2> QED
      BY <2>2, <2>3
<1>3. T = Nat
  <2> HIDE DEF T
  <2>1. T \in SUBSET Nat
      BY DEF T
  <2> QED
      BY <1>1, <1>2, <2>1, NaturalsFrom0
<1> QED
    BY <1>3

LEMMA WalkToExists ==
    ASSUME NEW R, NEW c
    PROVE  \A n \in Nat : \E up : IsWalkTo(up, R, c, n)
<1> DEFINE T == {n \in Nat : \E up : IsWalkTo(up, R, c, n)}
<1>1. 0 \in T
  <2>1. IsWalkTo([k \in 0 .. 0 |-> <<c>>], R, c, 0)
      BY DEF IsWalkTo
  <2> QED
      BY <2>1
<1>2. ASSUME NEW n \in T PROVE n + 1 \in T
  <2>1. PICK u : IsWalkTo(u, R, c, n)
      OBVIOUS
  <2> DEFINE v == [k \in 0 .. n + 1 |-> IF k = n + 1 THEN Further(R, u[n]) ELSE u[k]]
  <2>2. ASSUME NEW k \in 0 .. n + 1
        PROVE  v[k] = IF k = 0 THEN <<c>> ELSE Further(R, v[k - 1])
    <3>1. CASE k = 0
        BY <2>1, <3>1 DEF IsWalkTo
    <3>2. CASE k # 0
      <4>1. k - 1 \in 0 .. n /\ k - 1 \in 0 .. n + 1 /\ k - 1 # n + 1
          BY <3>2
      <4>2. v[k - 1] = u[k - 1]
          BY <4>1
      <4>3. v[k] = Further(R, u[k - 1])
        <5>1. CASE k = n + 1
            BY <5>1
        <5>2. CASE k # n + 1
          <6>1. k \in 0 .. n
              BY <5>2
          <6> QED
              BY <2>1, <3>2, <5>2, <6>1 DEF IsWalkTo
        <5> QED
            BY <5>1, <5>2
      <4> QED
          BY <3>2, <4>2, <4>3
    <3> QED
        BY <3>1, <3>2
  <2>3. v = [k \in 0 .. n + 1 |-> v[k]]
      OBVIOUS
  <2>4. IsWalkTo(v, R, c, n + 1)
    <3> HIDE DEF v
    <3> QED
        BY <2>2, <2>3 DEF IsWalkTo
  <2> QED
      BY <2>4
<1>3. T = Nat
  <2> HIDE DEF T
  <2>1. T \in SUBSET Nat
      BY DEF T
  <2> QED
      BY <1>1, <1>2, <2>1, NaturalsFrom0
<1> QED
    BY <1>3

LEMMA WalkExists == \A R, c : IsWalk(Walk(R, c), R, c)
<1> SUFFICES ASSUME NEW R, NEW c PROVE \E up : IsWalk(up, R, c)
    BY DEF Walk
<1> DEFINE to(n) == CHOOSE u : IsWalkTo(u, R, c, n)
           up == [n \in Nat |-> to(n)[n]]
<1>1. \A n \in Nat : IsWalkTo(to(n), R, c, n)
    BY WalkToExists
<1> HIDE DEF to
<1>2. ASSUME NEW n \in Nat PROVE up[n] = IF n = 0 THEN <<c>> ELSE Further(R, up[n - 1])
  <2>1. n \in 0 .. n /\ to(n)[n] = IF n = 0 THEN <<c>> ELSE Further(R, to(n)[n - 1])
      BY <1>1 DEF IsWalkTo
  <2>2. ASSUME n # 0 PROVE to(n)[n - 1] = to(n - 1)[n - 1]
    <3>1. n - 1 \in Nat /\ n - 1 <= n
        BY <2>2
    <3> QED
        BY <1>1, <3>1, WalksBegin
  <2>3. n # 0 => n - 1 \in Nat
      OBVIOUS
  <2> QED
      BY <2>1, <2>2, <2>3
<1>3. up = [n \in Nat |-> IF n = 0 THEN <<c>> ELSE Further(R, up[n - 1])]
  <2>1. up = [n \in Nat |-> up[n]]
      OBVIOUS
  <2> HIDE DEF up
  <2> QED
      BY <1>2, <2>1
<1>4. IsWalk(up, R, c)
  <2> HIDE DEF up
  <2> QED
      BY <1>3, WalkByStep
<1> QED
    BY <1>4

LEMMA LineStaysIn ==
    ASSUME NEW R, NEW c, NEW G, c \in G,
           \A x \in G : ExistsIn(R, R[x].parent) => R[x].parent \in G
    PROVE  Line(R, c) \in Seq(G)
<1>1. Cardinality(Nodes) \in Nat
    BY TreeAssumption, FS_CardinalityType
<1> QED
    BY <1>1, WalkExists, WalkStaysIn DEF Line

LEMMA ForceStands ==
    ASSUME NEW R, NEW S, NEW c \in Nodes, Line(R, c) = Line(S, c),
           \A x \in Nodes : R[x].filters = S[x].filters /\ R[x].inherits = S[x].inherits
    PROVE  ForceIn(R, c) = ForceIn(S, c)
<1>1. Line(R, c) \in Seq(Nodes)
    BY LineStaysIn DEF ExistsIn
<1>2. \A x \in Nodes : OwnIn(R, x) = OwnIn(S, x)
    BY DEF OwnIn
<1>3. PICK line \in Seq(Nodes) : line = Line(R, c)
    BY <1>1
<1> DEFINE heardR(i) == \A j \in 2 .. i - 1 : R[line[j]].inherits
           heardS(i) == \A j \in 2 .. i - 1 : S[line[j]].inherits
<1>4. ASSUME NEW i \in 2 .. Len(line)
      PROVE  (heardR(i) <=> heardS(i)) /\ OwnIn(R, line[i]) = OwnIn(S, line[i])
  <2>1. \A j \in 2 .. i : line[j] \in Nodes
      BY <1>3
  <2> QED
      BY <1>2, <2>1
<1>5. {k \in 2 .. Len(line) : heardR(k)} = {k \in 2 .. Len(line) : heardS(k)}
    BY <1>4
<1>6. AboveLine(R, line) = AboveLine(S, line)
  <2>1. AboveLine(R, line) = UNION {OwnIn(R, line[i]) : i \in {k \in 2 .. Len(line) : heardR(k)}}
      BY DEF AboveLine
  <2>2. AboveLine(S, line) = UNION {OwnIn(S, line[i]) : i \in {k \in 2 .. Len(line) : heardS(k)}}
      BY DEF AboveLine
  <2> HIDE DEF heardR, heardS
  <2>3. UNION {OwnIn(R, line[i]) : i \in {k \in 2 .. Len(line) : heardR(k)}}
        = UNION {OwnIn(S, line[i]) : i \in {k \in 2 .. Len(line) : heardS(k)}}
      BY <1>4, <1>5
  <2> QED
      BY <2>1, <2>2, <2>3
<1>7. Above(R, c, R[c].inherits) = Above(S, c, S[c].inherits)
  <2>1. R[c].inherits = S[c].inherits /\ line = Line(R, c) /\ line = Line(S, c)
      BY <1>3
  <2>2. ASSUME NEW b
        PROVE  UNION {AboveLine(R, l) : l \in IF b THEN {line} ELSE {}}
               = UNION {AboveLine(S, l) : l \in IF b THEN {line} ELSE {}}
      BY <1>6
  <2> QED
      BY <2>1, <2>2 DEF Above
<1> QED
    BY <1>2, <1>7 DEF ForceIn

-----------------------------------------------------------------------------
\* The invariants of the tree's members, and the types they need.
LinkSets == SUBSET ((Nodes \X (1 .. MaxFilters)) \cup Partly)
Tables == UNION {[D -> Row] : D \in SUBSET Nodes}
TreeCallType == [at : {"idle", "create", "move", "delete", "enqueue"}, on : Nodes \cup {Root},
             to : Nodes \cup {Root}, rows : Tables]
TreeJobType == [at : {"idle", "loaded", "compared"}, on : Nodes \cup {Root}, own : LinkSets,
            inherits : BOOLEAN, target : LinkSets, was : LinkSets]

TreeTyped ==
    /\ row \in [Nodes -> Row] /\ members \in [Nodes -> LinkSets]
    /\ call \in [TreeRequests -> TreeCallType] /\ job \in TreeJobType
    /\ \A q \in TreeRequests : call[q].at # "idle" => call[q].on \in Nodes
    /\ job.at = "idle" <=> job.on = Root
    /\ pending \subseteq Nodes /\ stale \subseteq Nodes
    /\ changes \in 0 .. MaxChanges /\ unchecked \in BOOLEAN

\* An application to c is ahead, or what is in c is known to be stale.
Due(c) ==
    c \in stale \/ c \in pending \/ \E q \in TreeRequests : call[q].at = "enqueue" /\ call[q].on = c

\* What the worker has read so far is what holds now.
LoadedIsCurrent ==
    job.at = "loaded" /\ job.on \in Alive /\ ~Due(job.on) =>
       job.own = Own(job.on) /\ job.inherits = row[job.on].inherits
ComparedIsCurrent ==
    job.at = "compared" /\ job.on \in Alive /\ ~Due(job.on) => job.target = InForce(job.on)

MembersInv == TreeTyped /\ LoadedIsCurrent /\ ComparedIsCurrent /\ MembersFollowFilters

\* Nothing that decides what belongs to c has changed.
Stood(c) ==
    /\ c \in Alive /\ ~Due(c)
    /\ InForce(c)' = InForce(c) /\ row'[c].inherits = row[c].inherits

LEMMA NoCallTypes == NoCall \in TreeCallType /\ NoJob \in TreeJobType
<1>1. <<>> \in Tables
  <2>1. <<>> \in [{} -> Row]
      OBVIOUS
  <2> QED
      BY <2>1 DEF Tables
<1> QED
    BY <1>1 DEF NoCall, TreeCallType, NoJob, TreeJobType, LinkSets

LEMMA ForceTypes ==
    ASSUME NEW c, NEW inherits
    PROVE  /\ Own(c) \in LinkSets /\ AncestorFilters(c, inherits) \in LinkSets /\ InForce(c) \in LinkSets
<1>1. Own(c) \in LinkSets /\ \A x : OwnIn(row, x) \in LinkSets
    BY DEF Own, OwnIn, LinkSets
<1>2. \A i : Above(row, c, i) \in LinkSets
  <2>1. \A line : AboveLine(row, line) \in LinkSets
      BY <1>1 DEF AboveLine, LinkSets
  <2> QED
      BY <2>1 DEF Above, LinkSets
<1> QED
    BY <1>1, <1>2, AncestorFiltersIs DEF InForce, LinkSets

LEMMA TableTypes ==
    ASSUME NEW t \in Tables
    PROVE  DOMAIN t \in SUBSET Nodes /\ t \in [DOMAIN t -> Row]
<1>1. PICK D \in SUBSET Nodes : t \in [D -> Row]
    BY Zenon DEF Tables
<1> QED
    BY <1>1

LEMMA OneTable ==
    ASSUME NEW c \in Nodes, NEW x \in Row
    PROVE  [d \in {c} |-> x] \in Tables
<1>1. [d \in {c} |-> x] \in [{c} -> Row]
    OBVIOUS
<1> QED
    BY <1>1 DEF Tables

LEMMA LineWithin == \A c \in Nodes : LineUp(c) \in Seq(Nodes)
BY LineStaysIn, LineUpIs DEF ExistsIn

LEMMA InitTypes == TreeInit => TreeTyped
<1> SUFFICES ASSUME TreeInit PROVE TreeTyped
    OBVIOUS
<1>0. Root \notin Nodes
    BY TreeAssumption
<1>1. members \in [Nodes -> LinkSets]
    BY ForceTypes DEF TreeInit
<1>2. /\ call \in [TreeRequests -> TreeCallType] /\ \A q \in TreeRequests : call[q].at = "idle"
      /\ job \in TreeJobType /\ (job.at = "idle" <=> job.on = Root)
    BY NoCallTypes DEF TreeInit, NoJob, NoCall
<1>3. changes \in 0 .. MaxChanges
    BY TreeAssumption DEF TreeInit
<1> QED
    BY <1>0, <1>1, <1>2, <1>3 DEF TreeInit, TreeTyped

LEMMA TypesStep == TreeTyped /\ [TreeNext]_treeVars => TreeTyped'
<1> SUFFICES ASSUME TreeTyped, [TreeNext]_treeVars PROVE TreeTyped'
    OBVIOUS
<1>0. changes < MaxChanges /\ changes' = changes + 1 => changes' \in 0 .. MaxChanges
    BY TreeAssumption DEF TreeTyped
<1>a. /\ row \in [Nodes -> Row] /\ members \in [Nodes -> LinkSets]
      /\ call \in [TreeRequests -> TreeCallType] /\ job \in TreeJobType
      /\ \A q \in TreeRequests : call[q].at # "idle" => call[q].on \in Nodes
      /\ (job.at = "idle" <=> job.on = Root) /\ Root \notin Nodes
      /\ pending \subseteq Nodes /\ stale \subseteq Nodes
      /\ changes \in 0 .. MaxChanges /\ unchecked \in BOOLEAN
    BY TreeAssumption DEF TreeTyped
<1>b. \A on : LeftStale(on) \subseteq Nodes
    BY DEF LeftStale, Alive
<1>c. \A c : (NoCall \in TreeCallType /\ NoJob \in TreeJobType)
             /\ NoCall.at = "idle" /\ NoJob.on = Root /\ NoJob.at = "idle"
             /\ (c \in Nodes => /\ [NoCall EXCEPT !.at = "enqueue", !.on = c] \in TreeCallType
                               /\ [NoCall EXCEPT !.at = "enqueue", !.on = c].on = c)
  <2>0. NoCall.at = "idle" /\ NoJob.on = Root /\ NoJob.at = "idle"
      BY DEF NoCall, NoJob
  <2> SUFFICES ASSUME NEW c \in Nodes
               PROVE  /\ [NoCall EXCEPT !.at = "enqueue", !.on = c] \in TreeCallType
                      /\ [NoCall EXCEPT !.at = "enqueue", !.on = c].on = c
      BY <2>0, NoCallTypes
  <2>1. NoCall.rows \in Tables
      BY NoCallTypes DEF TreeCallType
  <2> QED
      BY <2>1, NoCallTypes DEF TreeCallType
<1>1. ASSUME NEW r \in TreeRequests, CreateCollection(r) PROVE TreeTyped'
  <2>1. PICK c \in Nodes, p \in Alive \cup {Root}, f \in 0 .. MaxFilters, i \in BOOLEAN :
           call' = [call EXCEPT ![r] =
              [at |-> "create", on |-> c, to |-> p,
               rows |-> [d \in {c} |-> [parent |-> p, filters |-> f, inherits |-> i]]]]
      BY ZenonT(60), <1>1 DEF CreateCollection
  <2>2. p \in Nodes \cup {Root}
      BY DEF Alive
  <2>3. [parent |-> p, filters |-> f, inherits |-> i] \in Row
      BY <2>2 DEF Row
  <2>4. PICK t \in Tables : t = [d \in {c} |-> [parent |-> p, filters |-> f, inherits |-> i]]
      BY <2>3, OneTable
  <2>5. [at |-> "create", on |-> c, to |-> p, rows |-> t] \in TreeCallType
      BY <2>2 DEF TreeCallType
  <2>6. /\ call' \in [TreeRequests -> TreeCallType]
        /\ \A q \in TreeRequests : call'[q].at # "idle" => call'[q].on \in Nodes
      BY <1>a, <2>1, <2>4, <2>5
  <2> QED
      BY <1>0, <1>1, <1>a, <2>6 DEF CreateCollection, Begin, TreeTyped
<1>2. ASSUME NEW r \in TreeRequests, MoveCollection(r) PROVE TreeTyped'
  <2>1. PICK c \in Alive, p \in Alive \cup {Root} :
           call' = [call EXCEPT ![r] =
              [at |-> "move", on |-> c, to |-> p,
               rows |-> [d \in {c} \cup {s \in Alive : row[s].parent = p} |->
                            [row[d] EXCEPT !.parent = p]]]]
      BY <1>2 DEF MoveCollection
  <2>2. c \in Nodes /\ p \in Nodes \cup {Root}
      BY DEF Alive
  <2> DEFINE D == {c} \cup {s \in Alive : row[s].parent = p}
  <2>3. D \in SUBSET Nodes
      BY <2>2 DEF Alive
  <2>4. \A d \in D : [row[d] EXCEPT !.parent = p] \in Row
      BY <1>a, <2>2, <2>3 DEF Row
  <2>5. [d \in D |-> [row[d] EXCEPT !.parent = p]] \in Tables
    <3> HIDE DEF D
    <3>1. [d \in D |-> [row[d] EXCEPT !.parent = p]] \in [D -> Row]
        BY <2>4
    <3> QED
        BY <2>3, <3>1 DEF Tables
  <2>6. PICK t \in Tables : t = [d \in D |-> [row[d] EXCEPT !.parent = p]]
      BY <2>5
  <2>7. [at |-> "move", on |-> c, to |-> p, rows |-> t] \in TreeCallType
      BY <2>2 DEF TreeCallType
  <2>8. /\ call' \in [TreeRequests -> TreeCallType]
        /\ \A q \in TreeRequests : call'[q].at # "idle" => call'[q].on \in Nodes
      BY <1>a, <2>1, <2>2, <2>6, <2>7
  <2>9. unchecked' \in BOOLEAN
      BY <1>2, <1>a DEF MoveCollection
  <2> QED
      BY <1>0, <1>2, <1>a, <2>8, <2>9 DEF MoveCollection, Begin, TreeTyped
<1>3. ASSUME NEW r \in TreeRequests, SaveRows(r) PROVE TreeTyped'
  <2>1. PICK t \in Tables : t = call[r].rows
      BY <1>a DEF TreeCallType
  <2>2. row' = [d \in Nodes |-> IF d \in DOMAIN t THEN t[d] ELSE row[d]]
      BY <1>3, <2>1 DEF SaveRows
  <2>3. row' \in [Nodes -> Row]
      BY <1>a, <2>2, TableTypes
  <2>4. call[r].on \in Nodes
      BY <1>3, <1>a DEF SaveRows
  <2>5. /\ call' \in [TreeRequests -> TreeCallType] /\ stale' \subseteq Nodes
        /\ \A q \in TreeRequests : call'[q].at # "idle" => call'[q].on \in Nodes
      BY <1>3, <1>a, <1>b, <1>c, <2>4 DEF SaveRows
  <2> QED
      BY <1>3, <1>a, <2>3, <2>5 DEF SaveRows, TreeTyped
<1>4. ASSUME NEW r \in TreeRequests, UpdateCollection(r) PROVE TreeTyped'
  <2>1. PICK c \in Alive, p \in Alive \cup {Root}, f \in 0 .. MaxFilters, i \in BOOLEAN,
             given \in BOOLEAN :
           /\ row' = [row EXCEPT ![c] = [parent |-> p, filters |-> f, inherits |-> i]]
           /\ call' = IF given
                      THEN [call EXCEPT ![r] = [NoCall EXCEPT !.at = "enqueue", !.on = c]]
                      ELSE call
           /\ stale' = stale \cup LeftStale(IF given THEN {c} ELSE {})
           /\ unchecked' = \/ unchecked \/ p \in {c} \cup Descendants(c)
                           \/ p # row[c].parent /\ Moving # {}
      BY <1>4 DEF UpdateCollection
  <2>2. c \in Nodes /\ p \in Nodes \cup {Root}
      BY DEF Alive
  <2>3. row' \in [Nodes -> Row]
    <3>1. [parent |-> p, filters |-> f, inherits |-> i] \in Row
        BY <2>2 DEF Row
    <3> QED
        BY <1>a, <2>1, <2>2, <3>1
  <2>4. /\ call' \in [TreeRequests -> TreeCallType]
        /\ \A q \in TreeRequests : call'[q].at # "idle" => call'[q].on \in Nodes
    <3>1. CASE given
      <4>1. PICK y \in TreeCallType : y = [NoCall EXCEPT !.at = "enqueue", !.on = c] /\ y.on = c
          BY <1>c, <2>2
      <4>2. call' = [call EXCEPT ![r] = y]
          BY <2>1, <3>1, <4>1
      <4> QED
          BY <1>a, <2>2, <4>1, <4>2
    <3>2. CASE ~given
        BY <1>a, <2>1, <3>2
    <3> QED
        BY <3>1, <3>2
  <2>5. stale' \subseteq Nodes
      BY <1>a, <1>b, <2>1
  <2>6. unchecked' \in BOOLEAN
      BY <2>1
  <2> QED
      BY <1>0, <1>4, <1>a, <2>3, <2>4, <2>5, <2>6 DEF UpdateCollection, Begin, TreeTyped
<1>6. ASSUME NEW r \in TreeRequests, Enqueue(r) PROVE TreeTyped'
  <2>1. call[r].on \in Nodes
      BY <1>6, <1>a DEF Enqueue
  <2>2. /\ call' \in [TreeRequests -> TreeCallType]
        /\ \A q \in TreeRequests : call'[q].at # "idle" => call'[q].on \in Nodes
      BY <1>6, <1>a, <1>c DEF Enqueue
  <2>3. pending' \subseteq Nodes
      BY <1>6, <1>a, <2>1 DEF Enqueue, FollowUp
  <2> QED
      BY <1>6, <1>a, <2>2, <2>3 DEF Enqueue, TreeTyped
<1>7. ASSUME NEW r \in TreeRequests, DeleteCollection(r) PROVE TreeTyped'
  <2>1. PICK c \in Alive :
           call' = [call EXCEPT ![r] = [at |-> "delete", on |-> c, to |-> c,
                                        rows |-> [d \in {c} \cup Descendants(c) |-> row[d]]]]
      BY <1>7 DEF DeleteCollection
  <2>2. c \in Nodes /\ {c} \cup Descendants(c) \in SUBSET Nodes
      BY DEF Alive, Descendants
  <2>3. [d \in {c} \cup Descendants(c) |-> row[d]] \in Tables
    <3>1. PICK D \in SUBSET Nodes : D = {c} \cup Descendants(c)
        BY <2>2
    <3>2. [d \in D |-> row[d]] \in [D -> Row]
        BY <1>a, <3>1
    <3> QED
        BY <3>1, <3>2 DEF Tables
  <2>4. PICK t \in Tables : t = [d \in {c} \cup Descendants(c) |-> row[d]]
      BY <2>3
  <2>5. [at |-> "delete", on |-> c, to |-> c, rows |-> t] \in TreeCallType
      BY <2>2 DEF TreeCallType
  <2>6. /\ call' \in [TreeRequests -> TreeCallType]
        /\ \A q \in TreeRequests : call'[q].at # "idle" => call'[q].on \in Nodes
      BY <1>a, <2>1, <2>2, <2>4, <2>5
  <2> QED
      BY <1>0, <1>7, <1>a, <2>6 DEF DeleteCollection, Begin, TreeTyped
<1>8. ASSUME NEW r \in TreeRequests, RemoveOne(r) PROVE TreeTyped'
  <2>1. call[r].rows \in Tables /\ call[r].on \in Nodes
      BY <1>8, <1>a DEF RemoveOne, TreeCallType
  <2> DEFINE t == call[r].rows
             c == call[r].on
  <2>2. PICK d \in DOMAIN t :
           /\ row' = [row EXCEPT ![d].parent = Gone]
           /\ members' = [members EXCEPT
                 ![c] = IF members[d] = {} \/ @ = {} THEN @ ELSE Partly,
                 ![d] = {}]
           /\ stale' = stale \cup {c}
           /\ call' = [call EXCEPT ![r] =
                  IF d = c THEN NoCall
                  ELSE [@ EXCEPT !.rows = [e \in DOMAIN t \ {d} |-> t[e]]]]
      BY <1>8 DEF RemoveOne
  <2>3. d \in Nodes
      BY <2>1, TableTypes
  <2>4. row' \in [Nodes -> Row]
    <3>1. [row[d] EXCEPT !.parent = Gone] \in Row
        BY <1>a, <2>3 DEF Row
    <3> QED
        BY <1>a, <2>2, <2>3, <3>1
  <2>5. members' \in [Nodes -> LinkSets]
      BY <1>a, <2>1, <2>2, <2>3 DEF LinkSets
  <2>6. [e \in DOMAIN t \ {d} |-> t[e]] \in Tables
    <3>1. PICK D \in SUBSET Nodes : D = DOMAIN t \ {d}
        BY <2>1, TableTypes
    <3>2. [e \in D |-> t[e]] \in [D -> Row]
        BY <2>1, <3>1, TableTypes
    <3> QED
        BY <3>1, <3>2 DEF Tables
  <2>7. /\ [call[r] EXCEPT !.rows = [e \in DOMAIN t \ {d} |-> t[e]]] \in TreeCallType
        /\ [call[r] EXCEPT !.rows = [e \in DOMAIN t \ {d} |-> t[e]]].on = c
    <3>1. PICK u \in Tables : u = [e \in DOMAIN t \ {d} |-> t[e]]
        BY <2>6
    <3> QED
        BY <1>a, <2>1, <3>1 DEF TreeCallType
  <2>8. /\ call' \in [TreeRequests -> TreeCallType]
        /\ \A q \in TreeRequests : call'[q].at # "idle" => call'[q].on \in Nodes
      BY <1>a, <1>c, <2>1, <2>2, <2>7
  <2>9. stale' \subseteq Nodes
      BY <1>a, <2>1, <2>2
  <2> QED
      BY <1>8, <1>a, <2>4, <2>5, <2>8, <2>9 DEF RemoveOne, TreeTyped
<1>9. ASSUME NEW r \in TreeRequests, CallFails(r) PROVE TreeTyped'
  <2>1. /\ call' \in [TreeRequests -> TreeCallType]
        /\ \A q \in TreeRequests : call'[q].at # "idle" => call'[q].on \in Nodes
      BY <1>9, <1>a, <1>c DEF CallFails
  <2> QED
      BY <1>9, <1>a, <2>1 DEF CallFails, TreeTyped
<1>10. ASSUME JobPostsChange PROVE TreeTyped'
    BY <1>0, <1>10, <1>a DEF JobPostsChange, TreeTyped, Alive
<1>11. ASSUME LoadCollection PROVE TreeTyped'
  <2>1. PICK c \in pending :
           /\ pending' = pending \ {c}
           /\ job' = IF Exists(c)
                     THEN [NoJob EXCEPT !.at = "loaded", !.on = c, !.own = Own(c),
                                        !.inherits = row[c].inherits]
                     ELSE NoJob
           /\ stale' = stale \ {c}
      BY <1>11 DEF LoadCollection
  <2>2. c \in Nodes /\ row[c].inherits \in BOOLEAN /\ Own(c) \in LinkSets
      BY <1>a, ForceTypes DEF Row
  <2>3. job' \in TreeJobType /\ (job'.at = "idle" <=> job'.on = Root)
    <3>1. PICK own \in LinkSets, i \in BOOLEAN : own = Own(c) /\ i = row[c].inherits
        BY <2>2
    <3>2. /\ [NoJob EXCEPT !.at = "loaded", !.on = c, !.own = own, !.inherits = i] \in TreeJobType
          /\ [NoJob EXCEPT !.at = "loaded", !.on = c, !.own = own, !.inherits = i].at = "loaded"
          /\ [NoJob EXCEPT !.at = "loaded", !.on = c, !.own = own, !.inherits = i].on = c
        BY <2>2, NoCallTypes DEF TreeJobType, NoJob
    <3>3. CASE Exists(c)
        BY <1>a, <2>1, <2>2, <3>1, <3>2, <3>3
    <3>4. CASE ~Exists(c)
        BY <1>c, <2>1, <3>4
    <3> QED
        BY <3>3, <3>4
  <2> QED
      BY <1>11, <1>a, <2>1, <2>3 DEF LoadCollection, TreeTyped
<1>12. ASSUME CompareMembers PROVE TreeTyped'
  <2>1. PICK tgt \in LinkSets : tgt = job.own \cup AncestorFilters(job.on, job.inherits)
    <3>1. job.own \in LinkSets /\ AncestorFilters(job.on, job.inherits) \in LinkSets
        BY <1>a, ForceTypes DEF TreeJobType
    <3> QED
        BY <3>1 DEF LinkSets
  <2>2. PICK was \in LinkSets : was = members[job.on]
      BY <1>12, <1>a DEF CompareMembers, TreeJobType
  <2>3. job' = [job EXCEPT !.at = "compared", !.was = was, !.target = tgt]
      BY <1>12, <2>1, <2>2 DEF CompareMembers
  <2>4. job' \in TreeJobType /\ job'.at = "compared" /\ job'.on = job.on
      BY <1>a, <2>3 DEF TreeJobType
  <2> QED
      BY <1>12, <1>a, <2>4 DEF CompareMembers, TreeTyped
<1>13. ASSUME ApplyMembers PROVE TreeTyped'
  <2>1. job.on \in Nodes /\ Partly \in LinkSets /\ job.target \in LinkSets
      BY <1>13, <1>a DEF ApplyMembers, Exists, TreeJobType, LinkSets
  <2>2. members' \in [Nodes -> LinkSets]
      BY <1>13, <1>a, <2>1 DEF ApplyMembers
  <2>3. stale' \subseteq Nodes
      BY <1>13, <1>a, <2>1 DEF ApplyMembers
  <2> QED
      BY <1>13, <1>a, <1>c, <2>2, <2>3 DEF ApplyMembers, TreeTyped
<1>14. ASSUME ApplyFails PROVE TreeTyped'
  <2>1. job.on \in Nodes
      BY <1>14, <1>a DEF ApplyFails, TreeJobType
  <2> QED
      BY <1>14, <1>a, <1>c, <2>1 DEF ApplyFails, TreeTyped
<1>15. ASSUME UNCHANGED treeVars PROVE TreeTyped'
    BY <1>15, <1>a DEF treeVars, TreeTyped
<1> QED
    BY <1>1, <1>2, <1>3, <1>4, <1>6, <1>7, <1>8, <1>9, <1>10, <1>11, <1>12, <1>13,
       <1>14, <1>15 DEF TreeNext

\* While the rows stand, so does what is read of them.
LEMMA SameRows ==
    ASSUME UNCHANGED row
    PROVE  /\ Alive' = Alive
           /\ \A c : /\ InForce(c)' = InForce(c) /\ Own(c)' = Own(c) /\ LineUp(c)' = LineUp(c)
                     /\ row'[c].inherits = row[c].inherits
<1>1. Alive' = Alive
    BY DEF Alive, Exists
<1>2. ASSUME NEW c PROVE InForce(c)' = InForce(c) /\ Own(c)' = Own(c) /\ LineUp(c)' = LineUp(c)
    BY InForceIs, LineUpIs
<1> QED
    BY <1>1, <1>2

LEMMA DueStays ==
    ASSUME stale \subseteq stale', pending \subseteq pending',
           \A q \in TreeRequests : call[q].at = "enqueue" =>
              call'[q] = call[q] \/ call[q].on \in pending' \cup stale',
           NEW c, Due(c)
    PROVE  Due(c)'
BY DEF Due

\* A leaf that is removed is on no other walk.
LEMMA RemovalStands ==
    ASSUME TreeTyped, NEW d \in Nodes, \A e \in Alive \ {d} : row[e].parent # d,
           row' = [row EXCEPT ![d].parent = Gone]
    PROVE  /\ Alive' = Alive \ {d}
           /\ \A c \in Alive' : /\ c \in Alive /\ LineUp(c)' = LineUp(c) /\ InForce(c)' = InForce(c)
                                /\ row'[c].parent = row[c].parent
                                /\ row'[c].inherits = row[c].inherits
<1>1. /\ \A x \in Nodes : row'[x].filters = row[x].filters /\ row'[x].inherits = row[x].inherits
      /\ \A x \in Nodes : row'[x].parent = IF x = d THEN Gone ELSE row[x].parent
    BY DEF TreeTyped, Row
<1>2. Alive' = Alive \ {d}
    BY <1>1 DEF Alive, Exists
<1>3. ASSUME NEW c \in Alive'
      PROVE  LineUp(c)' = LineUp(c) /\ InForce(c)' = InForce(c)
  <2>1. \A x : ExistsIn(row, x) <=> x \in Alive
      BY DEF Alive, Exists, ExistsIn
  <2>2. \A x : ExistsIn(row', x) <=> x \in Alive \ {d}
      BY <1>1, <1>2 DEF Alive, Exists, ExistsIn
  <2>3. c \in Alive \ {d}
      BY <1>2
  <2>4. PICK G : G = Alive \ {d}
      OBVIOUS
  <2>5. \A x \in G : /\ row[x].parent = row'[x].parent
                     /\ ExistsIn(row, row[x].parent) <=> ExistsIn(row', row[x].parent)
                     /\ ExistsIn(row, row[x].parent) => row[x].parent \in G
    <3> SUFFICES ASSUME NEW x \in G
                 PROVE  /\ row[x].parent = row'[x].parent
                        /\ ExistsIn(row, row[x].parent) <=> ExistsIn(row', row[x].parent)
                        /\ ExistsIn(row, row[x].parent) => row[x].parent \in G
        OBVIOUS
    <3>1. x \in Alive /\ x \in Nodes /\ x # d
        BY <2>4 DEF Alive
    <3> QED
        BY <1>1, <2>1, <2>2, <2>4, <3>1
  <2>6. Line(row, c) = Line(row', c)
    <3>1. c \in G
        BY <2>3, <2>4
    <3>2. ASSUME NEW R, NEW S, c \in G,
                 \A x \in G : /\ R[x].parent = S[x].parent
                              /\ ExistsIn(R, R[x].parent) <=> ExistsIn(S, R[x].parent)
                              /\ ExistsIn(R, R[x].parent) => R[x].parent \in G
          PROVE  Line(R, c) = Line(S, c)
        BY <3>2, WalksAgree
    <3> QED
        BY <2>5, <3>1, <3>2
  <2>7. ForceIn(row, c) = ForceIn(row', c)
    <3>1. c \in Nodes
        BY <2>3 DEF Alive
    <3> QED
        BY ZenonT(60), <1>1, <2>6, <3>1, ForceStands
  <2> QED
      BY <2>6, <2>7, LineUpIs, InForceIs
<1> QED
    BY <1>1, <1>2, <1>3 DEF Alive

\* What decides about a collection changes only when an application is due.
LEMMA TreeStands ==
    ASSUME TreeTyped, TreeNext, NEW c, c \in Alive', ~Due(c)',
           ~(LoadCollection /\ job'.on = c)
    PROVE  Stood(c)
<1>a. call \in [TreeRequests -> TreeCallType] /\ \A q \in TreeRequests : call[q].at # "idle" => call[q] # NoCall
    BY DEF TreeTyped, NoCall
<1>b. NoCall.at = "idle"
    BY DEF NoCall
<1>1. ASSUME UNCHANGED row, ~Due(c) PROVE Stood(c)
    BY <1>1, SameRows DEF Stood
<1>2. ASSUME NEW on, stale' = stale \cup LeftStale(on), c \notin on, ~Due(c) PROVE Stood(c)
  <2>1. c \notin LeftStale(on)
      BY <1>2 DEF Due
  <2> QED
      BY <1>2, <2>1 DEF LeftStale, Stood
<1>3. CASE \E r \in TreeRequests :
              CreateCollection(r) \/ MoveCollection(r) \/ DeleteCollection(r) \/ Enqueue(r) \/ CallFails(r)
  <2>1. UNCHANGED row
      BY <1>3 DEF CreateCollection, MoveCollection, DeleteCollection, Enqueue, CallFails
  <2>2. ~Due(c)
    <3>1. PICK r \in TreeRequests :
              CreateCollection(r) \/ MoveCollection(r) \/ DeleteCollection(r) \/ Enqueue(r) \/ CallFails(r)
        BY <1>3
    <3>2. CASE CreateCollection(r) \/ MoveCollection(r) \/ DeleteCollection(r)
      <4>1. call[r] = NoCall /\ UNCHANGED <<pending, stale>>
          BY <3>2 DEF CreateCollection, MoveCollection, DeleteCollection, Begin
      <4>2. \A q \in TreeRequests \ {r} : call'[q] = call[q]
          BY <1>a, <3>2 DEF CreateCollection, MoveCollection, DeleteCollection
      <4> QED
          BY <1>b, <4>1, <4>2, DueStays
    <3>3. CASE Enqueue(r)
      <4>1. call[r].on \in pending' /\ pending \subseteq pending' /\ UNCHANGED stale
          BY <3>3 DEF Enqueue, FollowUp
      <4>2. \A q \in TreeRequests \ {r} : call'[q] = call[q]
          BY <1>a, <3>3 DEF Enqueue
      <4> QED
          BY <4>1, <4>2, DueStays
    <3>4. CASE CallFails(r)
      <4>1. /\ call[r].at = "enqueue" => call[r].on \in stale'
            /\ stale \subseteq stale' /\ UNCHANGED pending
          BY <3>4 DEF CallFails
      <4>2. \A q \in TreeRequests \ {r} : call'[q] = call[q]
          BY <1>a, <3>4 DEF CallFails
      <4> QED
          BY <4>1, <4>2, DueStays
    <3> QED
        BY <3>1, <3>2, <3>3, <3>4
  <2> QED
      BY <1>1, <2>1, <2>2
<1>4. ASSUME NEW r \in TreeRequests, SaveRows(r) PROVE Stood(c)
  <2>1. /\ stale' = stale \cup LeftStale({call[r].on}) /\ UNCHANGED pending
        /\ call' = [call EXCEPT ![r] = [NoCall EXCEPT !.at = "enqueue", !.on = call[r].on]]
        /\ call[r].at # "enqueue"
      BY <1>4 DEF SaveRows
  <2>2. /\ call'[r].at = "enqueue" /\ call'[r].on = call[r].on
        /\ \A q \in TreeRequests \ {r} : call'[q] = call[q]
      BY <1>a, <2>1 DEF NoCall
  <2>3. ~Due(c)
      BY <2>1, <2>2, DueStays
  <2>4. c # call[r].on
      BY <2>2 DEF Due
  <2> QED
      BY <1>2, <2>1, <2>3, <2>4
<1>5. ASSUME NEW r \in TreeRequests, UpdateCollection(r) PROVE Stood(c)
  <2>1. PICK b \in Alive, given \in BOOLEAN :
           /\ stale' = stale \cup LeftStale(IF given THEN {b} ELSE {}) /\ UNCHANGED pending
           /\ call' = IF given
                      THEN [call EXCEPT ![r] = [NoCall EXCEPT !.at = "enqueue", !.on = b]]
                      ELSE call
           /\ call[r].at # "enqueue"
      BY <1>5, <1>b DEF UpdateCollection, Begin
  <2>2. CASE given
    <3>1. /\ call'[r].at = "enqueue" /\ call'[r].on = b
          /\ \A q \in TreeRequests \ {r} : call'[q] = call[q]
        BY <1>a, <2>1, <2>2 DEF NoCall
    <3>2. ~Due(c)
        BY <2>1, <3>1, DueStays
    <3>3. c # b
        BY <3>1 DEF Due
    <3> QED
        BY <1>2, <2>1, <2>2, <3>2, <3>3
  <2>3. CASE ~given
    <3>1. ~Due(c)
        BY <2>1, <2>3, DueStays
    <3> QED
        BY <1>2, <2>1, <2>3, <3>1
  <2> QED
      BY <2>2, <2>3
<1>7. ASSUME NEW r \in TreeRequests, RemoveOne(r) PROVE Stood(c)
  <2>1. PICK d \in DOMAIN call[r].rows :
           /\ \A e \in Alive \ {d} : row[e].parent # d
           /\ row' = [row EXCEPT ![d].parent = Gone]
           /\ stale' = stale \cup {call[r].on}
           /\ UNCHANGED pending
           /\ call' = [call EXCEPT ![r] =
                 IF d = call[r].on THEN NoCall
                 ELSE [@ EXCEPT !.rows = [e \in DOMAIN call[r].rows \ {d} |-> call[r].rows[e]]]]
           /\ call[r].at = "delete"
      BY <1>7 DEF RemoveOne
  <2>2. d \in Nodes
      BY <1>a, <2>1, TableTypes DEF TreeCallType
  <2>3. \A q \in TreeRequests \ {r} : call'[q] = call[q]
      BY <1>a, <2>1
  <2>4. ~Due(c)
      BY <2>1, <2>3, DueStays
  <2> QED
      BY <2>1, <2>2, <2>4, RemovalStands DEF Stood
<1>8. CASE JobPostsChange \/ CompareMembers \/ ApplyMembers \/ ApplyFails
  <2>1. /\ stale \subseteq stale' /\ pending \subseteq pending' /\ UNCHANGED <<row, call>>
      BY <1>8 DEF JobPostsChange, CompareMembers, ApplyMembers, ApplyFails
  <2> QED
      BY <1>1, <2>1, DueStays
<1>9. CASE LoadCollection
  <2>1. PICK b \in pending :
           /\ pending' = pending \ {b} /\ stale' = stale \ {b} /\ UNCHANGED <<row, call>>
           /\ job' = IF Exists(b)
                     THEN [NoJob EXCEPT !.at = "loaded", !.on = b, !.own = Own(b),
                                        !.inherits = row[b].inherits]
                     ELSE NoJob
      BY <1>9 DEF LoadCollection
  <2>2. c \in Alive
      BY <2>1, SameRows
  <2>3. c # b
    <3> SUFFICES ASSUME c = b PROVE FALSE
        OBVIOUS
    <3>1. Exists(b)
        BY <2>2 DEF Alive
    <3>2. job'.on = b
        BY <2>1, <3>1 DEF NoJob
    <3> QED
        BY <1>9, <3>2
  <2>4. ~Due(c)
      BY <2>1, <2>3 DEF Due
  <2> QED
      BY <1>1, <2>1, <2>4
<1> QED
    BY <1>3, <1>4, <1>5, <1>7, <1>8, <1>9 DEF TreeNext

LEMMA InitMembers == TreeInit => MembersInv
<1> SUFFICES ASSUME TreeInit PROVE MembersInv
    OBVIOUS
<1>1. job.at = "idle" /\ members = [c \in Nodes |-> InForce(c)]
    BY DEF TreeInit, NoJob
<1>2. MembersFollowFilters
    BY <1>1 DEF MembersFollowFilters, Alive
<1> QED
    BY <1>1, <1>2, InitTypes DEF MembersInv, LoadedIsCurrent, ComparedIsCurrent

LEMMA MembersStep == MembersInv /\ [TreeNext]_treeVars => MembersInv'
<1> SUFFICES ASSUME MembersInv, [TreeNext]_treeVars PROVE MembersInv'
    OBVIOUS
<1>a. TreeTyped /\ TreeTyped'
    BY TypesStep DEF MembersInv
<1>1. CASE UNCHANGED treeVars
  <2>1. /\ UNCHANGED <<row, members, job>> /\ \A c : Due(c)' <=> Due(c)
        /\ Alive' = Alive /\ \A c : InForce(c)' = InForce(c) /\ Own(c)' = Own(c)
      BY <1>1, SameRows DEF treeVars, Due
  <2>2. LoadedIsCurrent' /\ ComparedIsCurrent'
      BY <2>1 DEF MembersInv, LoadedIsCurrent, ComparedIsCurrent
  <2>3. MembersFollowFilters'
    <3>1. MembersFollowFilters <=> \A c \in Alive : ~Due(c) /\ c # job.on => members[c] = InForce(c)
        BY DEF MembersFollowFilters, Due
    <3>2. MembersFollowFilters' <=> \A c \in Alive' : ~Due(c)' /\ c # job'.on => members'[c] = InForce(c)'
        BY DEF MembersFollowFilters, Due
    <3> QED
        BY <2>1, <3>1, <3>2 DEF MembersInv
  <2> QED
      BY <1>a, <2>2, <2>3 DEF MembersInv
<1>2. CASE TreeNext
  <2>1. ASSUME NEW c \in Alive', ~Due(c)', ~(LoadCollection /\ job'.on = c)
        PROVE  /\ c \in Alive /\ ~Due(c) /\ InForce(c)' = InForce(c)
               /\ row'[c].inherits = row[c].inherits /\ Own(c)' = Own(c)
    <3>1. Stood(c)
        BY <1>2, <1>a, <2>1, TreeStands
    <3>2. OwnIn(row, c) = {x \in ForceIn(row, c) : x[1] = c}
        BY OwnOfForce
    <3>3. OwnIn(row', c) = {x \in ForceIn(row', c) : x[1] = c}
        BY OwnOfForce
    <3>4. InForce(c) = ForceIn(row, c) /\ InForce(c)' = ForceIn(row', c)
          /\ Own(c) = OwnIn(row, c) /\ Own(c)' = OwnIn(row', c)
        BY InForceIs
    <3> QED
        BY <3>1, <3>2, <3>3, <3>4 DEF Stood
  <2>2. ASSUME ~LoadCollection, ~CompareMembers, ~ApplyMembers, ~ApplyFails
        PROVE  UNCHANGED job
      BY <1>2, <2>2 DEF TreeNext, CreateCollection, MoveCollection, SaveRows,
         UpdateCollection, Enqueue, DeleteCollection, RemoveOne, CallFails, JobPostsChange
  <2>3. LoadedIsCurrent'
    <3> SUFFICES ASSUME job'.at = "loaded", job'.on \in Alive', ~Due(job.on)'
                 PROVE  job'.own = Own(job.on)' /\ job'.inherits = row'[job'.on].inherits
        BY DEF LoadedIsCurrent
    <3>1. CASE LoadCollection
      <4>1. PICK b \in pending :
               /\ job' = IF Exists(b)
                         THEN [NoJob EXCEPT !.at = "loaded", !.on = b, !.own = Own(b),
                                            !.inherits = row[b].inherits]
                         ELSE NoJob
               /\ UNCHANGED row
          BY <3>1 DEF LoadCollection
      <4>2. job'.on = b /\ job'.own = Own(b) /\ job'.inherits = row[b].inherits
        <5>1. Exists(b)
            BY <4>1 DEF NoJob
        <5>2. PICK own, i : own = Own(b) /\ i = row[b].inherits
            OBVIOUS
        <5>3. job' = [NoJob EXCEPT !.at = "loaded", !.on = b, !.own = own, !.inherits = i]
            BY <4>1, <5>1, <5>2
        <5> QED
            BY <5>2, <5>3 DEF NoJob
      <4>3. \A c : Own(c)' = Own(c)
          BY <4>1, SameRows
      <4> QED
          BY <4>1, <4>2, <4>3
    <3>2. CASE CompareMembers \/ ApplyMembers \/ ApplyFails
      <4>1. job'.at # "loaded"
        <5>1. CASE CompareMembers
          <6>1. PICK was, tgt : job' = [job EXCEPT !.at = "compared", !.was = was, !.target = tgt]
              BY <5>1 DEF CompareMembers
          <6> QED
              BY <1>a, <6>1 DEF TreeTyped, TreeJobType
        <5>2. CASE ApplyMembers \/ ApplyFails
          <6>1. job' = NoJob
              BY <5>2 DEF ApplyMembers, ApplyFails
          <6> QED
              BY <6>1 DEF NoJob
        <5> QED
            BY <3>2, <5>1, <5>2
      <4> QED
          BY <4>1
    <3>3. CASE ~(LoadCollection \/ CompareMembers \/ ApplyMembers \/ ApplyFails)
      <4>1. job' = job
          BY <2>2, <3>3
      <4>2. PICK c : c = job.on
          OBVIOUS
      <4>3. c \in Alive' /\ ~Due(c)'
        <5>1. job'.on = c
            BY <4>1, <4>2
        <5> QED
            BY <5>1 DEF Due
      <4>4. job.own = Own(c) /\ job.inherits = row[c].inherits
          BY <2>1, <3>3, <4>1, <4>2, <4>3 DEF MembersInv, LoadedIsCurrent
      <4>5. job'.own = Own(c)' /\ job'.inherits = row'[c].inherits
          BY <2>1, <3>3, <4>1, <4>3, <4>4
      <4> QED
          BY <4>1, <4>2, <4>5 DEF Own
    <3> QED
        BY <3>1, <3>2, <3>3
  <2>4. ComparedIsCurrent'
    <3> SUFFICES ASSUME job'.at = "compared", job'.on \in Alive', ~Due(job.on)'
                 PROVE  job'.target = InForce(job.on)'
        BY DEF ComparedIsCurrent
    <3>1. CASE CompareMembers
      <4>1. PICK c : c = job.on
          OBVIOUS
      <4>2. /\ job' = [job EXCEPT !.at = "compared", !.was = members[job.on],
                                  !.target = job.own \cup AncestorFilters(job.on, job.inherits)]
            /\ job.at = "loaded" /\ UNCHANGED <<row, call, pending, stale>>
          BY <3>1 DEF CompareMembers
      <4>3. /\ job'.on = c
            /\ job'.target = job.own \cup AncestorFilters(job.on, job.inherits)
        <5>1. PICK was, tgt : was = members[job.on]
                              /\ tgt = job.own \cup AncestorFilters(job.on, job.inherits)
            OBVIOUS
        <5>2. job' = [job EXCEPT !.at = "compared", !.was = was, !.target = tgt]
            BY <4>2, <5>1
        <5> QED
            BY <1>a, <4>1, <5>1, <5>2 DEF TreeTyped, TreeJobType
      <4>4. c \in Alive /\ ~Due(c)
          BY <4>2, <4>3, SameRows DEF Due
      <4>5. job.own = Own(c) /\ job.inherits = row[c].inherits
          BY <4>1, <4>2, <4>4 DEF MembersInv, LoadedIsCurrent
      <4>6. job'.target = InForce(c)
          BY <4>1, <4>3, <4>5 DEF InForce
      <4>7. InForce(c)' = InForce(c)
          BY <4>2, SameRows
      <4>8. InForce(job.on)' = InForce(c)'
          BY <4>3, InForceIs
      <4> QED
          BY <4>6, <4>7, <4>8
    <3>2. CASE LoadCollection \/ ApplyMembers \/ ApplyFails
      <4>1. job'.at # "compared"
        <5>1. CASE LoadCollection
          <6>1. \/ job' = NoJob
                \/ \E c, own, i : job' = [NoJob EXCEPT !.at = "loaded", !.on = c, !.own = own,
                                                     !.inherits = i]
              BY <5>1 DEF LoadCollection
          <6>2. ASSUME NEW c, NEW own, NEW i
                PROVE  [NoJob EXCEPT !.at = "loaded", !.on = c, !.own = own, !.inherits = i].at = "loaded"
              BY DEF NoJob
          <6>3. NoJob.at = "idle"
              BY DEF NoJob
          <6>4. CASE job' = NoJob
              BY <6>3, <6>4
          <6>5. ASSUME NEW c, NEW own, NEW i,
                       job' = [NoJob EXCEPT !.at = "loaded", !.on = c, !.own = own, !.inherits = i]
                PROVE  job'.at = "loaded"
              BY <6>2, <6>5
          <6> QED
              BY <6>1, <6>4, <6>5
        <5>2. CASE ApplyMembers \/ ApplyFails
          <6>1. job' = NoJob
              BY <5>2 DEF ApplyMembers, ApplyFails
          <6> QED
              BY <6>1 DEF NoJob
        <5> QED
            BY <3>2, <5>1, <5>2
      <4> QED
          BY <4>1
    <3>3. CASE ~(LoadCollection \/ CompareMembers \/ ApplyMembers \/ ApplyFails)
      <4>1. job' = job
          BY <2>2, <3>3
      <4>2. PICK c : c = job.on
          OBVIOUS
      <4>3. c \in Alive' /\ ~Due(c)'
        <5>1. job'.on = c
            BY <4>1, <4>2
        <5> QED
            BY <5>1 DEF Due
      <4>4. job.target = InForce(c)
          BY <2>1, <3>3, <4>1, <4>2, <4>3 DEF MembersInv, ComparedIsCurrent
      <4>5. job'.target = InForce(c)'
          BY <2>1, <3>3, <4>1, <4>3, <4>4
      <4>6. InForce(job.on)' = InForce(c)'
          BY <4>1, <4>2, InForceIs
      <4> QED
          BY <4>5, <4>6
    <3> QED
        BY <3>1, <3>2, <3>3
  <2>5. MembersFollowFilters'
    <3>1. MembersFollowFilters <=> \A c \in Alive : ~Due(c) /\ c # job.on => members[c] = InForce(c)
        BY DEF MembersFollowFilters, Due
    <3>2. MembersFollowFilters' <=> \A c \in Alive' : ~Due(c)' /\ c # job'.on => members'[c] = InForce(c)'
        BY DEF MembersFollowFilters, Due
    <3> SUFFICES ASSUME NEW c \in Alive', ~Due(c)', c # job'.on
                 PROVE  members'[c] = InForce(c)'
        BY <3>2
    <3>3. /\ c \in Alive /\ c \in Nodes /\ ~Due(c) /\ InForce(c)' = InForce(c)
          /\ c # job.on => members[c] = InForce(c)
        BY <2>1, <3>1 DEF MembersInv, Alive
    <3>4. CASE ApplyMembers
      <4>1. members' = [members EXCEPT ![job.on] = IF @ = job.was THEN job.target ELSE Partly]
            /\ stale' = (IF members[job.on] = job.was THEN stale ELSE stale \cup {job.on})
            /\ job.at = "compared" /\ job.on \in Nodes
          BY <3>4 DEF ApplyMembers, Exists
      <4>2. CASE c # job.on
          BY <3>3, <4>1, <4>2, <1>a DEF TreeTyped
      <4>3. CASE c = job.on
        <5>1. members[c] = job.was
            BY <4>1, <4>3 DEF Due
        <5>2. members'[c] = job.target
            BY <1>a, <4>1, <4>3, <5>1 DEF TreeTyped
        <5>3. job.target = InForce(job.on)
            BY <3>3, <4>1, <4>3 DEF MembersInv, ComparedIsCurrent
        <5> QED
            BY <3>3, <4>3, <5>2, <5>3
      <4> QED
          BY <4>2, <4>3
    <3>5. CASE ApplyFails
      <4>1. c # job.on /\ members' = members
          BY <3>5 DEF ApplyFails, Due
      <4> QED
          BY <3>3, <4>1
    <3>6. CASE LoadCollection \/ CompareMembers
      <4>1. members' = members
          BY <3>6 DEF LoadCollection, CompareMembers
      <4>2. c # job.on
        <5>1. job = NoJob \/ job'.on = job.on
            BY <1>a, <3>6 DEF LoadCollection, CompareMembers, TreeTyped, TreeJobType
        <5>2. Root \notin Nodes
            BY TreeAssumption
        <5> QED
            BY <3>3, <5>1, <5>2 DEF NoJob
      <4> QED
          BY <3>3, <4>1, <4>2
    <3>7. ASSUME NEW r \in TreeRequests, RemoveOne(r) PROVE members'[c] = InForce(c)'
      <4>1. PICK d \in DOMAIN call[r].rows :
               /\ members' = [members EXCEPT
                     ![call[r].on] = IF members[d] = {} \/ @ = {} THEN @ ELSE Partly,
                     ![d] = {}]
               /\ stale' = stale \cup {call[r].on} /\ UNCHANGED job
               /\ \A e \in Alive \ {d} : row[e].parent # d
               /\ row' = [row EXCEPT ![d].parent = Gone]
          BY <3>7 DEF RemoveOne
      <4>2. d \in Nodes
          BY <1>a, <4>1, TableTypes DEF TreeTyped, TreeCallType
      <4>3. c # d /\ c # call[r].on
          BY <1>a, <4>1, <4>2, RemovalStands DEF Due
      <4> QED
          BY <1>a, <3>3, <4>1, <4>3 DEF TreeTyped
    <3>8. CASE ~(ApplyMembers \/ ApplyFails \/ LoadCollection \/ CompareMembers
                 \/ \E r \in TreeRequests : RemoveOne(r))
      <4>1. UNCHANGED <<members, job>>
          BY <1>2, <3>8 DEF TreeNext, CreateCollection, MoveCollection, SaveRows,
             UpdateCollection, Enqueue, DeleteCollection, CallFails, JobPostsChange
      <4> QED
          BY <3>3, <4>1
    <3> QED
        BY <3>4, <3>5, <3>6, <3>7, <3>8
  <2> QED
      BY <1>a, <2>3, <2>4, <2>5 DEF MembersInv
<1> QED
    BY <1>1, <1>2

LEMMA MembersInvariance == TreeSpec => []MembersInv
BY InitMembers, MembersStep, PTL DEF TreeSpec

\* Whatever calls and applications overlap, updates of the parent among them: a
\* collection with no application ahead holds the job posts that pass the filters
\* in force for it, unless an application failed or came too late, or what was in
\* force changed by a call that adds no job for it (CollectionService,
\* applyCollectionFiltersInternal).
THEOREM MembersFollow == TreeSpec => []MembersFollowFilters
<1>1. MembersInv => MembersFollowFilters
    BY DEF MembersInv
<1> QED
    BY <1>1, MembersInvariance, PTL

-----------------------------------------------------------------------------
(***************************************************************************)
(* Every walk up the tree ends: no collections are each other's ancestors. *)
(***************************************************************************)
Acyclic == \A S \in SUBSET Alive : S # {} => \E x \in S : row[x].parent \notin S

ParentsStand == \A c \in Alive : row[c].parent \in Alive \cup {Root}

\* What a save writes hangs below the parent the call found.
SavesLeadTo ==
    \A r \in TreeRequests : call[r].at \in {"create", "move"} =>
       \A d \in DOMAIN call[r].rows : call[r].rows[d].parent = call[r].to

\* A collection being created is in no other call's way.
CreatesAreNew ==
    \A r \in TreeRequests : call[r].at = "create" =>
       /\ DOMAIN call[r].rows = {call[r].on} /\ row[call[r].on].parent = Absent
       /\ call[r].on # call[r].to
       /\ \A q \in TreeRequests : call[q].at = "create" /\ call[q].on = call[r].on => q = r
WritesAreOld ==
    \A r \in TreeRequests :
       /\ call[r].at \in {"move", "delete"} =>
             \A d \in DOMAIN call[r].rows : row[d].parent # Absent
       /\ call[r].at = "move" /\ call[r].to \in Nodes => row[call[r].to].parent # Absent

\* A set of collections with all their ancestors.
ClosedUp(U) == \A x \in U : row[x].parent \in Alive => row[x].parent \in U

\* The only move in progress: the rows it will write are still where it read
\* them, and what it moves is still no ancestor of where it moves it to.
OneMove ==
    \A r \in TreeRequests : call[r].at = "move" =>
       /\ \A q \in TreeRequests : call[q].at = "move" => q = r
       /\ \A s \in DOMAIN call[r].rows \ {call[r].on} : row[s].parent \in {call[r].to, Gone}
       /\ call[r].to \in Alive =>
             \E U \in SUBSET Alive : call[r].to \in U /\ call[r].on \notin U /\ ClosedUp(U)

WalksInv ==
    /\ TreeTyped /\ ParentsStand /\ SavesLeadTo /\ CreatesAreNew /\ WritesAreOld
    /\ ~unchecked => Acyclic /\ OneMove

\* s goes from c up to n parents, and less far only if there are no more.
LeadsUp(s, R, c, n) ==
    /\ s \in Seq(Nodes) /\ Len(s) \in 1 .. n + 1 /\ s[1] = c
    /\ Len(s) = n + 1 \/ ~ExistsIn(R, R[s[Len(s)]].parent)
    /\ \A i \in 1 .. Len(s) - 1 : s[i + 1] = R[s[i]].parent /\ ExistsIn(R, s[i + 1])

LEMMA WalkLeadsUp ==
    ASSUME NEW R, NEW c \in Nodes, NEW up, IsWalk(up, R, c)
    PROVE  \A n \in Nat : LeadsUp(up[n], R, c, n)
<1> DEFINE T == {n \in Nat : LeadsUp(up[n], R, c, n)}
<1>1. 0 \in T
  <2>1. PICK s : s = up[0] /\ s = <<c>>
      BY DEF IsWalk
  <2>2. s \in Seq(Nodes) /\ Len(s) = 1 /\ s[1] = c /\ 1 .. Len(s) - 1 = {}
      BY <2>1
  <2>3. LeadsUp(s, R, c, 0)
      BY <2>2 DEF LeadsUp
  <2> QED
      BY <2>1, <2>3
<1>2. ASSUME NEW n \in T PROVE n + 1 \in T
  <2>1. PICK s : s = up[n] /\ LeadsUp(s, R, c, n)
      OBVIOUS
  <2>2. PICK p : p = R[s[Len(s)]].parent
      OBVIOUS
  <2>3. up[n + 1] = IF ExistsIn(R, p) THEN Append(s, p) ELSE s
    <3>1. n + 1 \in Nat /\ n + 1 # 0 /\ (n + 1) - 1 = n
        OBVIOUS
    <3>2. up[n + 1] = IF ExistsIn(R, R[Last(s)].parent) THEN Append(s, R[Last(s)].parent) ELSE s
        BY <2>1, <3>1 DEF IsWalk
    <3> QED
        BY <2>2, <3>2 DEF Last
  <2>4. CASE ExistsIn(R, p)
    <3>1. PICK t : t = Append(s, p)
        OBVIOUS
    <3>2. s \in Seq(Nodes) /\ p \in Nodes /\ Len(s) = n + 1
        BY <2>1, <2>2, <2>4 DEF LeadsUp, ExistsIn
    <3>3. /\ t \in Seq(Nodes) /\ Len(t) = n + 2 /\ t[n + 2] = p
          /\ \A i \in 1 .. n + 1 : t[i] = s[i]
        BY <3>1, <3>2
    <3>4. t[1] = c
        BY <2>1, <3>3 DEF LeadsUp
    <3>5. ASSUME NEW i \in 1 .. Len(t) - 1
          PROVE  t[i + 1] = R[t[i]].parent /\ ExistsIn(R, t[i + 1])
      <4>1. CASE i = n + 1
          BY <2>2, <2>4, <3>2, <3>3, <4>1
      <4>2. CASE i # n + 1
        <5>1. i \in 1 .. Len(s) - 1 /\ i + 1 \in 1 .. n + 1
            BY <3>2, <3>3, <4>2
        <5> QED
            BY <2>1, <3>3, <5>1 DEF LeadsUp
      <4> QED
          BY <4>1, <4>2
    <3>6. LeadsUp(t, R, c, n + 1)
        BY <3>3, <3>4, <3>5 DEF LeadsUp
    <3>7. up[n + 1] = t
        BY <2>3, <2>4, <3>1
    <3> QED
        BY <3>6, <3>7
  <2>5. CASE ~ExistsIn(R, p)
    <3>1. LeadsUp(s, R, c, n + 1)
        BY <2>1, <2>2, <2>5 DEF LeadsUp
    <3> QED
        BY <2>3, <2>5, <3>1
  <2> QED
      BY <2>4, <2>5
<1>3. T = Nat
  <2> HIDE DEF T
  <2>1. T \in SUBSET Nat
      BY DEF T
  <2> QED
      BY <1>1, <1>2, <2>1, NaturalsFrom0
<1> QED
    BY <1>3

LEMMA LineUpLeads ==
    ASSUME NEW c \in Nodes
    PROVE  /\ Cardinality(Nodes) \in Nat
           /\ LeadsUp(LineUp(c), row, c, Cardinality(Nodes))
           /\ \A x : ExistsIn(row, x) <=> x \in Alive
<1>1. Cardinality(Nodes) \in Nat
    BY TreeAssumption, FS_CardinalityType
<1>2. LeadsUp(Line(row, c), row, c, Cardinality(Nodes))
    BY <1>1, WalkExists, WalkLeadsUp DEF Line
<1> QED
    BY <1>1, <1>2, LineUpIs DEF ExistsIn, Exists, Alive

\* A walk that does not end meets a collection twice: a cycle.
LEMMA AcyclicEnds ==
    ASSUME Acyclic, NEW c \in Alive
    PROVE  Ends(c)
<1> DEFINE N == Cardinality(Nodes)
<1>0. c \in Nodes
    BY DEF Alive
<1>1. PICK s : s = LineUp(c) /\ LeadsUp(s, row, c, N)
    BY <1>0, LineUpLeads
<1>2. N \in Nat /\ (\A x : ExistsIn(row, x) <=> x \in Alive) /\ IsFiniteSet(Nodes)
    BY <1>0, LineUpLeads, TreeAssumption
<1> SUFFICES ASSUME ~Ends(c) PROVE FALSE
    OBVIOUS
<1>3. Len(s) = N + 1 /\ s \in Seq(Nodes)
    BY <1>1, <1>2 DEF Ends, LeadsUp
<1>4. PICK i \in 1 .. N + 1, j \in 1 .. N + 1 : i # j /\ s[i] = s[j]
  <2>1. s \in [1 .. N + 1 -> Nodes]
      BY <1>2, <1>3
  <2>2. IsFiniteSet(1 .. N + 1) /\ Cardinality(1 .. N + 1) = N + 1
      BY <1>2, FS_Interval
  <2>3. Cardinality(Nodes) < Cardinality(1 .. N + 1)
      BY <1>2, <2>2
  <2> HIDE DEF N
  <2> QED
      BY <1>2, <2>1, <2>2, <2>3, FS_PigeonHole
<1>5. ASSUME NEW a \in 1 .. N + 1, NEW b \in 1 .. N + 1, a < b, s[a] = s[b] PROVE FALSE
  <2>1. PICK S : S = {s[k] : k \in a .. b - 1}
      OBVIOUS
  <2>2. ASSUME NEW k \in 1 .. N PROVE s[k] \in Alive /\ s[k + 1] = row[s[k]].parent
    <3>1. \A m \in 1 .. N : s[m + 1] = row[s[m]].parent /\ s[m + 1] \in Alive
        BY <1>1, <1>2, <1>3 DEF LeadsUp
    <3>2. CASE k = 1
        BY <1>1, <3>1, <3>2 DEF LeadsUp
    <3>3. CASE k # 1
      <4>1. k - 1 \in 1 .. N /\ (k - 1) + 1 = k
          BY <1>2, <3>3
      <4> QED
          BY <3>1, <4>1
    <3> QED
        BY <3>2, <3>3
  <2>3. S \in SUBSET Alive /\ S # {}
    <3>1. \A k \in a .. b - 1 : k \in 1 .. N
        BY <1>2, <1>5
    <3>2. a \in a .. b - 1
        BY <1>2, <1>5
    <3> QED
        BY <2>1, <2>2, <3>1, <3>2
  <2>4. ASSUME NEW x \in S PROVE row[x].parent \in S
    <3>1. PICK k \in a .. b - 1 : x = s[k]
        BY <2>1
    <3>2. k \in 1 .. N /\ k \in Int /\ a \in Int /\ b \in Int
        BY <1>2, <1>5
    <3>3. row[x].parent = s[k + 1]
        BY <2>2, <3>1, <3>2
    <3>4. CASE k = b - 1
      <4>1. row[x].parent = s[a] /\ a \in a .. b - 1
          BY <1>5, <3>2, <3>3, <3>4
      <4> QED
          BY <2>1, <4>1
    <3>5. CASE k # b - 1
      <4>1. k + 1 \in a .. b - 1
          BY <3>2, <3>5
      <4> QED
          BY <2>1, <3>3, <4>1
    <3> QED
        BY <3>4, <3>5
  <2> QED
      BY <2>3, <2>4 DEF Acyclic
<1>6. i < j \/ j < i
    BY <1>2, <1>4
<1> QED
    BY <1>4, <1>5, <1>6

\* In a cycle no walk ends.
LEMMA EndsAcyclic ==
    ASSUME \A c \in Nodes : Ends(c)
    PROVE  Acyclic
<1> DEFINE N == Cardinality(Nodes)
<1> SUFFICES ASSUME NEW S \in SUBSET Alive, S # {}, \A x \in S : row[x].parent \in S
             PROVE  FALSE
    BY DEF Acyclic
<1>1. PICK c : c \in S
    OBVIOUS
<1>2. c \in Nodes
    BY <1>1 DEF Alive
<1>3. PICK s : s = LineUp(c) /\ LeadsUp(s, row, c, N)
    BY <1>2, LineUpLeads
<1>4. N \in Nat /\ (\A x : ExistsIn(row, x) <=> x \in Alive)
    BY <1>2, LineUpLeads
<1>5. s \in Seq(S)
    BY <1>1, <1>3, LineStaysIn, LineUpIs
<1>6. s[Len(s)] \in S
  <2>1. Len(s) \in 1 .. Len(s)
      BY <1>3, <1>4 DEF LeadsUp
  <2> QED
      BY <1>5, <2>1
<1>7. Len(s) = N + 1
    BY <1>3, <1>4, <1>6 DEF LeadsUp
<1> QED
    BY <1>2, <1>3, <1>4, <1>7 DEF Ends

LEMMA InitWalks == TreeInit => WalksInv
<1> SUFFICES ASSUME TreeInit PROVE WalksInv
    OBVIOUS
<1>1. Acyclic
    BY EndsAcyclic DEF TreeInit
<1>2. \A r \in TreeRequests : call[r].at = "idle"
    BY DEF TreeInit, NoCall
<1>3. ParentsStand
    BY DEF TreeInit, ParentsStand, Alive, Exists
<1> QED
    BY <1>1, <1>2, <1>3, InitTypes
    DEF WalksInv, SavesLeadTo, CreatesAreNew, WritesAreOld, OneMove

LEMMA SameParents ==
    ASSUME \A c \in Nodes : row'[c].parent = row[c].parent
    PROVE  /\ Alive' = Alive
           /\ Acyclic => Acyclic'
           /\ ParentsStand => ParentsStand'
           /\ \A U \in SUBSET Nodes : ClosedUp(U)' <=> ClosedUp(U)
<1>1. Alive' = Alive
    BY DEF Alive, Exists
<1>2. Acyclic => Acyclic'
  <2> SUFFICES ASSUME Acyclic, NEW S \in SUBSET Alive', S # {}
               PROVE  \E x \in S : row'[x].parent \notin S
      BY DEF Acyclic
  <2>1. PICK x \in S : row[x].parent \notin S
      BY <1>1 DEF Acyclic
  <2>2. x \in Nodes
      BY <1>1 DEF Alive
  <2> QED
      BY <2>1, <2>2
<1>3. ParentsStand => ParentsStand'
  <2>1. \A c \in Alive : row'[c].parent = row[c].parent
      BY DEF Alive
  <2> QED
      BY <1>1, <2>1 DEF ParentsStand
<1>4. ASSUME NEW U \in SUBSET Nodes PROVE ClosedUp(U)' <=> ClosedUp(U)
  <2>1. \A c \in U : row'[c].parent = row[c].parent
      OBVIOUS
  <2> QED
      BY <1>1, <2>1 DEF ClosedUp
<1> QED
    BY <1>1, <1>2, <1>3, <1>4

\* What r's call had before a step it has after it, if the parents stand.
LEMMA CallsKept ==
    ASSUME WalksInv, \A c \in Nodes : row'[c].parent = row[c].parent,
           NEW r \in TreeRequests, call'[r] = call[r]
    PROVE  /\ call'[r].at \in {"create", "move"} =>
                 \A d \in DOMAIN call'[r].rows : call'[r].rows[d].parent = call'[r].to
           /\ call'[r].at = "create" =>
                 /\ DOMAIN call'[r].rows = {call'[r].on} /\ row'[call'[r].on].parent = Absent
                 /\ call'[r].on # call'[r].to
           /\ call'[r].at \in {"move", "delete"} =>
                 \A d \in DOMAIN call'[r].rows : row'[d].parent # Absent
           /\ call'[r].at = "move" /\ call'[r].to \in Nodes => row'[call'[r].to].parent # Absent
           /\ ~unchecked /\ call'[r].at = "move" =>
                 /\ \A s \in DOMAIN call'[r].rows \ {call'[r].on} :
                       row'[s].parent \in {call'[r].to, Gone}
                 /\ call'[r].to \in Alive' =>
                       \E U \in SUBSET Alive' :
                          call'[r].to \in U /\ call'[r].on \notin U /\ ClosedUp(U)'
<1>1. /\ call[r] \in TreeCallType
      /\ call[r].at # "idle" => call[r].on \in Nodes
    BY DEF WalksInv, TreeTyped
<1>2. DOMAIN call[r].rows \subseteq Nodes
    BY <1>1, TableTypes DEF TreeCallType
<1>3. /\ Alive' = Alive
      /\ \A U \in SUBSET Nodes : ClosedUp(U)' <=> ClosedUp(U)
    BY SameParents
<1>4. call'[r].at \in {"create", "move"} =>
         \A d \in DOMAIN call'[r].rows : call'[r].rows[d].parent = call'[r].to
    BY DEF WalksInv, SavesLeadTo
<1>5. call'[r].at = "create" =>
         /\ DOMAIN call'[r].rows = {call'[r].on} /\ row'[call'[r].on].parent = Absent
         /\ call'[r].on # call'[r].to
    BY <1>1 DEF WalksInv, CreatesAreNew
<1>6. call'[r].at \in {"move", "delete"} =>
         \A d \in DOMAIN call'[r].rows : row'[d].parent # Absent
    BY <1>2 DEF WalksInv, WritesAreOld
<1>7. call'[r].at = "move" /\ call'[r].to \in Nodes => row'[call'[r].to].parent # Absent
    BY DEF WalksInv, WritesAreOld
<1>8. ASSUME ~unchecked, call'[r].at = "move"
      PROVE  /\ \A s \in DOMAIN call'[r].rows \ {call'[r].on} : row'[s].parent \in {call'[r].to, Gone}
             /\ call'[r].to \in Alive' =>
                   \E U \in SUBSET Alive' :
                      call'[r].to \in U /\ call'[r].on \notin U /\ ClosedUp(U)'
  <2>1. /\ \A s \in DOMAIN call[r].rows \ {call[r].on} : row[s].parent \in {call[r].to, Gone}
        /\ call[r].to \in Alive =>
              \E U \in SUBSET Alive : call[r].to \in U /\ call[r].on \notin U /\ ClosedUp(U)
      BY <1>8 DEF WalksInv, OneMove
  <2>2. \A s \in DOMAIN call'[r].rows \ {call'[r].on} : row'[s].parent \in {call'[r].to, Gone}
      BY <1>2, <2>1
  <2>3. ASSUME call'[r].to \in Alive'
        PROVE  \E U \in SUBSET Alive' :
                  call'[r].to \in U /\ call'[r].on \notin U /\ ClosedUp(U)'
    <3>1. PICK U \in SUBSET Alive : call[r].to \in U /\ call[r].on \notin U /\ ClosedUp(U)
        BY <1>3, <2>1, <2>3
    <3>2. U \in SUBSET Nodes /\ U \in SUBSET Alive'
        BY <1>3, <3>1 DEF Alive
    <3>3. ClosedUp(U)' /\ call'[r].to \in U /\ call'[r].on \notin U
        BY <1>3, <3>1, <3>2
    <3> QED
        BY <3>2, <3>3
  <2> QED
      BY <2>2, <2>3
<1> QED
    BY <1>4, <1>5, <1>6, <1>7, <1>8

\* A step that begins no call and moves nothing.
LEMMA WalksKept ==
    ASSUME WalksInv, TreeTyped', \A c \in Nodes : row'[c].parent = row[c].parent,
           unchecked => unchecked',
           \A q \in TreeRequests : call'[q] = call[q] \/ call'[q].at \in {"idle", "enqueue"}
    PROVE  WalksInv'
<1>1. ParentsStand' /\ (~unchecked' => Acyclic')
    BY SameParents DEF WalksInv
<1>2. SavesLeadTo' /\ WritesAreOld'
    BY CallsKept DEF SavesLeadTo, WritesAreOld
<1>3. CreatesAreNew'
  <2> SUFFICES ASSUME NEW r \in TreeRequests, call'[r].at = "create"
               PROVE  /\ DOMAIN call'[r].rows = {call'[r].on} /\ row'[call'[r].on].parent = Absent
                      /\ call'[r].on # call'[r].to
                      /\ \A q \in TreeRequests :
                            call'[q].at = "create" /\ call'[q].on = call'[r].on => q = r
      BY DEF CreatesAreNew
  <2>1. call'[r] = call[r] /\ \A q \in TreeRequests : call'[q].at = "create" => call'[q] = call[q]
      OBVIOUS
  <2>2. \A q \in TreeRequests : call[q].at = "create" /\ call[q].on = call[r].on => q = r
      BY <2>1 DEF WalksInv, CreatesAreNew
  <2> QED
      BY <2>1, <2>2, CallsKept
<1>4. ASSUME ~unchecked' PROVE OneMove'
  <2> SUFFICES ASSUME NEW r \in TreeRequests, call'[r].at = "move"
               PROVE  /\ \A q \in TreeRequests : call'[q].at = "move" => q = r
                      /\ \A s \in DOMAIN call'[r].rows \ {call'[r].on} :
                            row'[s].parent \in {call'[r].to, Gone}
                      /\ call'[r].to \in Alive' =>
                            \E U \in SUBSET Alive' :
                               call'[r].to \in U /\ call'[r].on \notin U /\ ClosedUp(U)'
      BY DEF OneMove
  <2>1. call'[r] = call[r] /\ \A q \in TreeRequests : call'[q].at = "move" => call'[q] = call[q]
      OBVIOUS
  <2>2. \A q \in TreeRequests : call[q].at = "move" => q = r
      BY <1>4, <2>1 DEF WalksInv, OneMove
  <2> QED
      BY <1>4, <2>1, <2>2, CallsKept
<1> QED
    BY <1>1, <1>2, <1>3, <1>4 DEF WalksInv

LEMMA CreateKeepsWalks ==
    ASSUME WalksInv, TreeTyped', NEW r \in TreeRequests, CreateCollection(r)
    PROVE  WalksInv'
<1>1. PICK c, to, t :
         /\ c \in Nodes /\ to \in Alive \cup {Root}
         /\ call' = [call EXCEPT ![r] = [at |-> "create", on |-> c, to |-> to, rows |-> t]]
         /\ \E x : t = [d \in {c} |-> x] /\ x.parent = to
         /\ row[c].parent = Absent /\ c \notin Ids
  <2>1. PICK c \in Nodes, p \in Alive \cup {Root}, f \in 0 .. MaxFilters, i \in BOOLEAN :
           /\ row[c].parent = Absent /\ c \notin Ids
           /\ call' = [call EXCEPT ![r] =
                 [at |-> "create", on |-> c, to |-> p,
                  rows |-> [d \in {c} |-> [parent |-> p, filters |-> f, inherits |-> i]]]]
      BY ZenonT(60) DEF CreateCollection
  <2>2. PICK x : x = [parent |-> p, filters |-> f, inherits |-> i]
      OBVIOUS
  <2>3. x.parent = p
      BY <2>2
  <2>4. call' = [call EXCEPT ![r] =
                    [at |-> "create", on |-> c, to |-> p, rows |-> [d \in {c} |-> x]]]
      BY <2>1, <2>2
  <2> QED
      BY <2>1, <2>3, <2>4
<1>2. /\ call'[r] = [at |-> "create", on |-> c, to |-> to, rows |-> t]
      /\ \A q \in TreeRequests \ {r} : call'[q] = call[q]
      /\ row' = row /\ unchecked' = unchecked
    BY <1>1 DEF CreateCollection, WalksInv, TreeTyped
<1>3. ParentsStand' /\ (~unchecked' => Acyclic')
    BY <1>2, SameParents DEF WalksInv
<1>4. /\ call'[r].at = "create" /\ call'[r].on = c /\ call'[r].to = to
      /\ DOMAIN call'[r].rows = {c} /\ call'[r].rows[c].parent = to
    BY <1>1, <1>2
<1>5. c # to
    BY <1>1, TreeAssumption DEF Alive, Exists
<1>6. SavesLeadTo' /\ WritesAreOld'
    BY <1>2, <1>4, CallsKept DEF SavesLeadTo, WritesAreOld
<1>7. CreatesAreNew'
  <2> SUFFICES ASSUME NEW q \in TreeRequests, call'[q].at = "create"
               PROVE  /\ DOMAIN call'[q].rows = {call'[q].on} /\ row'[call'[q].on].parent = Absent
                      /\ call'[q].on # call'[q].to
                      /\ \A o \in TreeRequests :
                            call'[o].at = "create" /\ call'[o].on = call'[q].on => o = q
      BY DEF CreatesAreNew
  <2>1. \A o \in TreeRequests \ {r} : call'[o].on # c
      BY <1>1, <1>2 DEF Ids
  <2>2. CASE q = r
      BY <1>1, <1>2, <1>4, <1>5, <2>1, <2>2
  <2>3. CASE q # r
    <3>1. call'[q] = call[q]
        BY <1>2, <2>3
    <3>2. \A o \in TreeRequests : call[o].at = "create" /\ call[o].on = call[q].on => o = q
        BY <3>1 DEF WalksInv, CreatesAreNew
    <3> QED
        BY <1>2, <1>4, <2>1, <2>3, <3>1, <3>2, CallsKept
  <2> QED
      BY <2>2, <2>3
<1>8. ASSUME ~unchecked' PROVE OneMove'
  <2> SUFFICES ASSUME NEW q \in TreeRequests, call'[q].at = "move"
               PROVE  /\ \A o \in TreeRequests : call'[o].at = "move" => o = q
                      /\ \A s \in DOMAIN call'[q].rows \ {call'[q].on} :
                            row'[s].parent \in {call'[q].to, Gone}
                      /\ call'[q].to \in Alive' =>
                            \E U \in SUBSET Alive' :
                               call'[q].to \in U /\ call'[q].on \notin U /\ ClosedUp(U)'
      BY DEF OneMove
  <2>1. q # r /\ call'[q] = call[q]
      BY <1>2, <1>4
  <2>2. \A o \in TreeRequests : call[o].at = "move" => o = q
      BY <1>2, <1>8, <2>1 DEF WalksInv, OneMove
  <2> QED
      BY <1>2, <1>4, <1>8, <2>1, <2>2, CallsKept
<1> QED
    BY <1>3, <1>6, <1>7, <1>8 DEF WalksInv

LEMMA DeleteKeepsWalks ==
    ASSUME WalksInv, TreeTyped', NEW r \in TreeRequests, DeleteCollection(r)
    PROVE  WalksInv'
<1>1. PICK c, t :
         /\ c \in Alive
         /\ call' = [call EXCEPT ![r] = [at |-> "delete", on |-> c, to |-> c, rows |-> t]]
         /\ DOMAIN t = {c} \cup Descendants(c)
  <2>1. PICK c \in Alive :
           call' = [call EXCEPT ![r] = [at |-> "delete", on |-> c, to |-> c,
                                        rows |-> [d \in {c} \cup Descendants(c) |-> row[d]]]]
      BY DEF DeleteCollection
  <2>2. PICK t : t = [d \in {c} \cup Descendants(c) |-> row[d]]
      OBVIOUS
  <2>3. call' = [call EXCEPT ![r] = [at |-> "delete", on |-> c, to |-> c, rows |-> t]]
      BY <2>1, <2>2
  <2>4. DOMAIN t = {c} \cup Descendants(c)
      BY <2>2
  <2> QED
      BY <2>3, <2>4
<1>2. /\ call'[r] = [at |-> "delete", on |-> c, to |-> c, rows |-> t]
      /\ \A q \in TreeRequests \ {r} : call'[q] = call[q]
      /\ row' = row /\ unchecked' = unchecked
    BY <1>1 DEF DeleteCollection, WalksInv, TreeTyped
<1>3. ParentsStand' /\ (~unchecked' => Acyclic')
    BY <1>2, SameParents DEF WalksInv
<1>4. /\ call'[r].at = "delete"
      /\ \A d \in DOMAIN call'[r].rows : row'[d].parent # Absent
    BY <1>1, <1>2 DEF Alive, Exists, Descendants
<1>5. SavesLeadTo' /\ WritesAreOld'
    BY <1>2, <1>4, CallsKept DEF SavesLeadTo, WritesAreOld
<1>6. CreatesAreNew'
  <2> SUFFICES ASSUME NEW q \in TreeRequests, call'[q].at = "create"
               PROVE  /\ DOMAIN call'[q].rows = {call'[q].on} /\ row'[call'[q].on].parent = Absent
                      /\ call'[q].on # call'[q].to
                      /\ \A o \in TreeRequests :
                            call'[o].at = "create" /\ call'[o].on = call'[q].on => o = q
      BY DEF CreatesAreNew
  <2>1. q # r /\ call'[q] = call[q]
      BY <1>2, <1>4
  <2>2. \A o \in TreeRequests : call[o].at = "create" /\ call[o].on = call[q].on => o = q
      BY <2>1 DEF WalksInv, CreatesAreNew
  <2> QED
      BY <1>2, <1>4, <2>1, <2>2, CallsKept
<1>7. ASSUME ~unchecked' PROVE OneMove'
  <2> SUFFICES ASSUME NEW q \in TreeRequests, call'[q].at = "move"
               PROVE  /\ \A o \in TreeRequests : call'[o].at = "move" => o = q
                      /\ \A s \in DOMAIN call'[q].rows \ {call'[q].on} :
                            row'[s].parent \in {call'[q].to, Gone}
                      /\ call'[q].to \in Alive' =>
                            \E U \in SUBSET Alive' :
                               call'[q].to \in U /\ call'[q].on \notin U /\ ClosedUp(U)'
      BY DEF OneMove
  <2>1. q # r /\ call'[q] = call[q]
      BY <1>2, <1>4
  <2>2. \A o \in TreeRequests : call[o].at = "move" => o = q
      BY <1>2, <1>7, <2>1 DEF WalksInv, OneMove
  <2> QED
      BY <1>2, <1>4, <1>7, <2>1, <2>2, CallsKept
<1> QED
    BY <1>3, <1>5, <1>6, <1>7 DEF WalksInv

\* What a walk that ends has passed is closed.
LEMMA WalkIsClosed ==
    ASSUME NEW c \in Alive, Ends(c), NEW U, U = ToSet(LineUp(c))
    PROVE  U \in SUBSET Alive /\ c \in U /\ ClosedUp(U)
<1> DEFINE N == Cardinality(Nodes)
<1>1. c \in Nodes
    BY DEF Alive
<1>2. PICK s : s = LineUp(c) /\ LeadsUp(s, row, c, N)
    BY <1>1, LineUpLeads
<1>3. N \in Nat /\ (\A x : ExistsIn(row, x) <=> x \in Alive)
    BY <1>1, LineUpLeads
<1>4. s \in Seq(Nodes) /\ Len(s) \in 1 .. N /\ U = {s[k] : k \in 1 .. Len(s)}
    BY <1>2, <1>3 DEF LeadsUp, Ends, ToSet
<1>5. ASSUME NEW k \in 1 .. Len(s) PROVE s[k] \in Alive
  <2>1. CASE k = 1
      BY <1>2, <2>1 DEF LeadsUp
  <2>2. CASE k # 1
    <3>1. k - 1 \in 1 .. Len(s) - 1 /\ (k - 1) + 1 = k
        BY <1>4, <2>2
    <3> QED
        BY <1>2, <1>3, <3>1 DEF LeadsUp
  <2> QED
      BY <2>1, <2>2
<1>6. ASSUME NEW x \in U, row[x].parent \in Alive PROVE row[x].parent \in U
  <2>1. PICK k \in 1 .. Len(s) : x = s[k]
      BY <1>4
  <2>2. k # Len(s)
    <3>1. Len(s) # N + 1
        BY <1>3, <1>4
    <3> QED
        BY <1>2, <1>3, <1>6, <2>1, <3>1 DEF LeadsUp
  <2>3. k \in 1 .. Len(s) - 1 /\ k + 1 \in 1 .. Len(s)
      BY <1>4, <2>2
  <2>4. row[x].parent = s[k + 1]
      BY <1>2, <2>1, <2>3 DEF LeadsUp
  <2> QED
      BY <1>4, <2>3, <2>4
<1>7. c = s[1] /\ 1 \in 1 .. Len(s)
    BY <1>2, <1>4 DEF LeadsUp
<1> QED
    BY <1>4, <1>5, <1>6, <1>7 DEF ClosedUp

LEMMA MoveKeepsWalks ==
    ASSUME WalksInv, TreeTyped', NEW r \in TreeRequests, MoveCollection(r)
    PROVE  WalksInv'
<1>0. row \in [Nodes -> Row] /\ call \in [TreeRequests -> TreeCallType]
    BY DEF WalksInv, TreeTyped
<1>1. PICK c, p, D, t :
         /\ c \in Alive /\ p \in Alive \cup {Root}
         /\ call' = [call EXCEPT ![r] = [at |-> "move", on |-> c, to |-> p, rows |-> t]]
         /\ D = {c} \cup {s \in Alive : row[s].parent = p}
         /\ t = [d \in D |-> [row[d] EXCEPT !.parent = p]]
         /\ p \notin Inside(c)
    BY DEF MoveCollection
<1>2. /\ call'[r] = [at |-> "move", on |-> c, to |-> p, rows |-> t]
      /\ \A q \in TreeRequests \ {r} : call'[q] = call[q]
      /\ row' = row
      /\ unchecked' = (unchecked \/ \E q \in TreeRequests : call[q].at = "move")
      /\ call[r].at = "idle"
  <2>1. /\ row' = row /\ call[r] = NoCall
        /\ unchecked' = (unchecked \/ \E q \in TreeRequests : call[q].at = "move")
      BY DEF MoveCollection, Begin, Moving
  <2>2. NoCall.at = "idle"
      BY DEF NoCall
  <2> QED
      BY <1>0, <1>1, <2>1, <2>2
<1>3. ParentsStand' /\ Alive' = Alive /\ (~unchecked' => Acyclic')
    BY <1>2, SameParents DEF WalksInv
<1>4. /\ call'[r].at = "move" /\ call'[r].on = c /\ call'[r].to = p
      /\ DOMAIN call'[r].rows = D /\ D \subseteq Alive /\ Alive \subseteq Nodes
      /\ \A d \in D : call'[r].rows[d].parent = p
  <2>1. D \subseteq Nodes /\ D \subseteq Alive /\ Alive \subseteq Nodes
      BY <1>1 DEF Alive
  <2>2. \A d \in D : [row[d] EXCEPT !.parent = p].parent = p
      BY <1>0, <2>1 DEF Row
  <2> QED
      BY <1>1, <1>2, <2>1, <2>2
<1>5. /\ \A d \in D : row'[d].parent # Absent
      /\ p \in Nodes => row'[p].parent # Absent
    BY <1>1, <1>2, <1>4, TreeAssumption DEF Alive, Exists
<1>6. SavesLeadTo' /\ WritesAreOld'
    BY <1>2, <1>4, <1>5, CallsKept DEF SavesLeadTo, WritesAreOld
<1>7. CreatesAreNew'
  <2> SUFFICES ASSUME NEW q \in TreeRequests, call'[q].at = "create"
               PROVE  /\ DOMAIN call'[q].rows = {call'[q].on} /\ row'[call'[q].on].parent = Absent
                      /\ call'[q].on # call'[q].to
                      /\ \A o \in TreeRequests :
                            call'[o].at = "create" /\ call'[o].on = call'[q].on => o = q
      BY DEF CreatesAreNew
  <2>1. q # r /\ call'[q] = call[q]
      BY <1>2, <1>4
  <2>2. \A o \in TreeRequests : call[o].at = "create" /\ call[o].on = call[q].on => o = q
      BY <2>1 DEF WalksInv, CreatesAreNew
  <2> QED
      BY <1>2, <1>4, <2>1, <2>2, CallsKept
<1>8. ASSUME ~unchecked' PROVE OneMove'
  <2>1. /\ ~unchecked /\ Acyclic
        /\ \A q \in TreeRequests : call[q].at # "move"
      BY <1>2, <1>8 DEF WalksInv, TreeTyped
  <2>2. \A q \in TreeRequests : call'[q].at = "move" => q = r
      BY <1>2, <2>1
  <2>3. \A s \in D \ {c} : row'[s].parent \in {p, Gone}
      BY <1>1, <1>2
  <2>4. ASSUME p \in Alive
        PROVE  \E U \in SUBSET Alive' : p \in U /\ c \notin U /\ ClosedUp(U)'
    <3>1. PICK U : U = ToSet(LineUp(p))
        OBVIOUS
    <3>2. U \in SUBSET Alive /\ p \in U /\ ClosedUp(U)
        BY <2>1, <2>4, <3>1, AcyclicEnds, WalkIsClosed
    <3>3. c \notin U
        BY <1>1, <2>4, <3>1 DEF Inside, Descendants
    <3>4. ClosedUp(U)'
        BY <1>2, <1>4, <3>2, SameParents
    <3> QED
        BY <1>3, <3>2, <3>3, <3>4
  <2> QED
      BY <1>3, <1>4, <2>2, <2>3, <2>4 DEF OneMove
<1> QED
    BY <1>3, <1>6, <1>7, <1>8 DEF WalksInv

\* What every save does to the tree.
LEMMA SavedRows ==
    ASSUME WalksInv, NEW r \in TreeRequests, SaveRows(r), NEW D, D = DOMAIN call[r].rows
    PROVE  /\ D \subseteq Nodes /\ call[r].on \in Nodes /\ call[r].at \in {"create", "move"}
           /\ call[r].to \in Alive \cup {Root}
           /\ \A d \in Nodes : row'[d].parent = IF d \in D THEN call[r].to ELSE row[d].parent
           /\ Alive' = Alive \cup D
           /\ call'[r].at = "enqueue" /\ \A q \in TreeRequests \ {r} : call'[q] = call[q]
           /\ unchecked' = unchecked
<1>1. /\ call \in [TreeRequests -> TreeCallType] /\ call[r] \in TreeCallType
      /\ call[r].at # "idle" => call[r].on \in Nodes
    BY DEF WalksInv, TreeTyped
<1>2. D \subseteq Nodes
    BY <1>1, TableTypes DEF TreeCallType
<1>3. /\ call[r].at \in {"create", "move"}
      /\ call[r].to \in Alive \cup {Root}
      /\ row' = [d \in Nodes |-> IF d \in D THEN call[r].rows[d] ELSE row[d]]
      /\ call' = [call EXCEPT ![r] = [NoCall EXCEPT !.at = "enqueue", !.on = call[r].on]]
      /\ unchecked' = unchecked
    BY DEF SaveRows
<1>4. \A d \in Nodes : row'[d].parent = IF d \in D THEN call[r].to ELSE row[d].parent
    BY <1>3 DEF WalksInv, SavesLeadTo
<1>5. Alive' = Alive \cup D
  <2>1. call[r].to \notin {Absent, Gone}
    <3>1. Alive \subseteq Nodes
        BY DEF Alive
    <3> QED
        BY <1>3, <3>1, TreeAssumption DEF Root, Absent, Gone
  <2> QED
      BY <1>2, <1>4, <2>1 DEF Alive, Exists
<1>6. call'[r].at = "enqueue" /\ \A q \in TreeRequests \ {r} : call'[q] = call[q]
  <2>1. \A c : [NoCall EXCEPT !.at = "enqueue", !.on = c].at = "enqueue"
      BY DEF NoCall
  <2> QED
      BY <1>1, <1>3, <2>1
<1> QED
    BY <1>1, <1>2, <1>3, <1>4, <1>5, <1>6

LEMMA SaveKeepsWalks ==
    ASSUME WalksInv, TreeTyped', NEW r \in TreeRequests, SaveRows(r)
    PROVE  WalksInv'
<1>1. PICK D, on, to : D = DOMAIN call[r].rows /\ on = call[r].on /\ to = call[r].to
    OBVIOUS
<1>2. /\ D \subseteq Nodes /\ on \in Nodes /\ call[r].at \in {"create", "move"}
      /\ to \in Alive \cup {Root}
      /\ \A d \in Nodes : row'[d].parent = IF d \in D THEN to ELSE row[d].parent
      /\ Alive' = Alive \cup D
      /\ call'[r].at = "enqueue" /\ \A q \in TreeRequests \ {r} : call'[q] = call[q]
      /\ unchecked' = unchecked
    BY <1>1, SavedRows
<1>3. /\ Alive \subseteq Nodes /\ Alive' \subseteq Nodes
      /\ Root \notin Nodes /\ Root \notin {Absent, Gone}
    BY TreeAssumption DEF Alive, Root, Absent, Gone
<1>4. ParentsStand'
    BY <1>2, <1>3 DEF ParentsStand, WalksInv
<1>5. SavesLeadTo'
    BY <1>2 DEF SavesLeadTo, WalksInv
<1>6. \A d \in Nodes : row[d].parent # Absent => row'[d].parent # Absent
    BY <1>2, <1>3, TreeAssumption DEF Absent
<1>7. WritesAreOld'
  <2> SUFFICES ASSUME NEW q \in TreeRequests, q # r
               PROVE  /\ call'[q].at \in {"move", "delete"} =>
                            \A d \in DOMAIN call'[q].rows : row'[d].parent # Absent
                      /\ call'[q].at = "move" /\ call'[q].to \in Nodes =>
                            row'[call'[q].to].parent # Absent
      BY <1>2 DEF WritesAreOld
  <2>1. call'[q] = call[q] /\ DOMAIN call[q].rows \subseteq Nodes
      BY <1>2, TableTypes DEF WalksInv, TreeTyped, TreeCallType
  <2> QED
      BY <1>6, <2>1 DEF WalksInv, WritesAreOld
<1>8. ASSUME NEW q \in TreeRequests, q # r, call[q].at = "create"
      PROVE  call[q].on \notin D
  <2>1. row[call[q].on].parent = Absent
      BY <1>8 DEF WalksInv, CreatesAreNew
  <2>2. CASE call[r].at = "create"
      BY <1>1, <1>8, <2>2 DEF WalksInv, CreatesAreNew
  <2>3. CASE call[r].at = "move"
      BY <1>1, <2>1, <2>3 DEF WalksInv, WritesAreOld
  <2> QED
      BY <1>2, <2>2, <2>3
<1>9. CreatesAreNew'
  <2> SUFFICES ASSUME NEW q \in TreeRequests, call'[q].at = "create"
               PROVE  /\ DOMAIN call'[q].rows = {call'[q].on} /\ row'[call'[q].on].parent = Absent
                      /\ call'[q].on # call'[q].to
                      /\ \A o \in TreeRequests :
                            call'[o].at = "create" /\ call'[o].on = call'[q].on => o = q
      BY DEF CreatesAreNew
  <2>1. q # r /\ call'[q] = call[q] /\ call[q].at = "create" /\ call[q].on \in Nodes
      BY <1>2 DEF WalksInv, TreeTyped
  <2>2. row'[call[q].on].parent = Absent
      BY <1>2, <1>8, <2>1 DEF WalksInv, CreatesAreNew
  <2>3. /\ DOMAIN call[q].rows = {call[q].on} /\ call[q].on # call[q].to
        /\ \A o \in TreeRequests : call[o].at = "create" /\ call[o].on = call[q].on => o = q
      BY <2>1 DEF WalksInv, CreatesAreNew
  <2> QED
      BY <1>2, <2>1, <2>2, <2>3
<1>10. ASSUME ~unchecked, call[r].at = "create" PROVE Acyclic' /\ OneMove'
  <2>1. D = {on} /\ row[on].parent = Absent /\ on # to /\ Acyclic /\ OneMove
      BY <1>1, <1>10 DEF WalksInv, CreatesAreNew
  <2>2. on \notin Alive
      BY <2>1 DEF Alive, Exists
  <2>3. \A c \in Alive : row'[c].parent = row[c].parent /\ row[c].parent \in (Alive \cup {Root}) \ {on}
      BY <1>2, <1>3, <2>1, <2>2 DEF WalksInv, ParentsStand
  <2>4. Acyclic'
    <3> SUFFICES ASSUME NEW S \in SUBSET Alive', S # {}, \A x \in S : row'[x].parent \in S
                 PROVE  FALSE
        BY DEF Acyclic
    <3>1. PICK S1 : S1 = S \ {on}
        OBVIOUS
    <3>2. S1 \in SUBSET Alive
        BY <1>2, <2>1, <3>1
    <3>3. S1 # {}
      <4> SUFFICES ASSUME S = {on} PROVE FALSE
          BY <3>1
      <4>1. row'[on].parent = to
          BY <1>2, <2>1
      <4> QED
          BY <2>1, <4>1
    <3>4. \A x \in S1 : row[x].parent \in S1
        BY <2>3, <3>1, <3>2
    <3> QED
        BY <2>1, <3>2, <3>3, <3>4 DEF Acyclic
  <2>5. OneMove'
    <3> SUFFICES ASSUME NEW q \in TreeRequests, call'[q].at = "move"
                 PROVE  /\ \A o \in TreeRequests : call'[o].at = "move" => o = q
                        /\ \A s \in DOMAIN call'[q].rows \ {call'[q].on} :
                              row'[s].parent \in {call'[q].to, Gone}
                        /\ call'[q].to \in Alive' =>
                              \E U \in SUBSET Alive' :
                                 call'[q].to \in U /\ call'[q].on \notin U /\ ClosedUp(U)'
        BY DEF OneMove
    <3>1. q # r /\ call'[q] = call[q] /\ call[q].at = "move"
        BY <1>2
    <3>2. /\ \A o \in TreeRequests : call[o].at = "move" => o = q
          /\ \A s \in DOMAIN call[q].rows \ {call[q].on} : row[s].parent \in {call[q].to, Gone}
          /\ call[q].to \in Alive =>
                \E U \in SUBSET Alive : call[q].to \in U /\ call[q].on \notin U /\ ClosedUp(U)
        BY <2>1, <3>1 DEF OneMove
    <3>3. /\ \A d \in DOMAIN call[q].rows : d \in Nodes /\ row[d].parent # Absent
          /\ call[q].to \in Nodes => row[call[q].to].parent # Absent
        BY <3>1, TableTypes DEF WalksInv, WritesAreOld, TreeTyped, TreeCallType
    <3>4. \A s \in DOMAIN call[q].rows : row'[s].parent = row[s].parent
        BY <1>2, <2>1, <3>3
    <3>5. ASSUME call[q].to \in Alive'
          PROVE  \E U \in SUBSET Alive' : call[q].to \in U /\ call[q].on \notin U /\ ClosedUp(U)'
      <4>1. call[q].to \in Alive
          BY <1>2, <1>3, <2>1, <3>3, <3>5
      <4>2. PICK U \in SUBSET Alive : call[q].to \in U /\ call[q].on \notin U /\ ClosedUp(U)
          BY <3>2, <4>1
      <4>3. ClosedUp(U)'
          BY <1>2, <2>1, <2>3, <4>2 DEF ClosedUp
      <4> QED
          BY <1>2, <4>2, <4>3
    <3> QED
        BY <1>2, <3>1, <3>2, <3>4, <3>5
  <2> QED
      BY <2>4, <2>5
<1>11. ASSUME ~unchecked, call[r].at = "move" PROVE Acyclic' /\ OneMove'
  <2>1. /\ Acyclic
        /\ \A q \in TreeRequests : call[q].at = "move" => q = r
        /\ \A s \in D \ {on} : row[s].parent \in {to, Gone}
        /\ to \in Alive => \E U \in SUBSET Alive : to \in U /\ on \notin U /\ ClosedUp(U)
      BY <1>1, <1>11 DEF WalksInv, OneMove
  <2>2. \A c \in Alive : row[c].parent \in Alive \cup {Root} /\ row[c].parent # Gone
      BY <1>3 DEF WalksInv, ParentsStand, Alive, Exists
  <2>3. OneMove'
      BY <1>2, <2>1 DEF OneMove
  <2>4. Acyclic'
    <3> SUFFICES ASSUME NEW S \in SUBSET Alive', S # {}, \A x \in S : row'[x].parent \in S
                 PROVE  FALSE
        BY DEF Acyclic
    <3>1. CASE S \cap D = {}
      <4>1. S \in SUBSET Alive /\ \A x \in S : row'[x].parent = row[x].parent
          BY <1>2, <1>3, <3>1
      <4> QED
          BY <2>1, <4>1 DEF Acyclic
    <3>2. CASE S \cap D # {}
      <4>1. to \in S
          BY <1>2, <3>2
      <4>2. to \in Alive
          BY <1>2, <1>3, <4>1
      <4>3. PICK U \in SUBSET Alive : to \in U /\ on \notin U /\ ClosedUp(U)
          BY <2>1, <4>2
      <4>4. ASSUME NEW x \in S \cap U PROVE row[x].parent \in S \cap U
        <5>1. x \in Alive /\ x \in Nodes /\ x # on
            BY <1>3, <4>3
        <5>2. row'[x].parent = row[x].parent
            BY <1>2, <2>1, <2>2, <5>1
        <5>3. row[x].parent \in S /\ row[x].parent \in Alive
            BY <1>3, <2>2, <5>1, <5>2
        <5> QED
            BY <4>3, <5>3 DEF ClosedUp
      <4>5. PICK S1 : S1 = S \cap U
          OBVIOUS
      <4>6. S1 \in SUBSET Alive /\ S1 # {} /\ \A x \in S1 : row[x].parent \in S1
          BY <4>1, <4>3, <4>4, <4>5
      <4> QED
          BY <2>1, <4>6 DEF Acyclic
    <3> QED
        BY <3>1, <3>2
  <2> QED
      BY <2>3, <2>4
<1>12. ~unchecked' => Acyclic' /\ OneMove'
    BY <1>2, <1>10, <1>11
<1> QED
    BY <1>4, <1>5, <1>7, <1>9, <1>12 DEF WalksInv

LEMMA RemoveKeepsWalks ==
    ASSUME WalksInv, TreeTyped', NEW r \in TreeRequests, RemoveOne(r)
    PROVE  WalksInv'
<1>0. call \in [TreeRequests -> TreeCallType] /\ call[r] \in TreeCallType /\ TreeTyped
    BY DEF WalksInv, TreeTyped
<1>1. PICK d \in DOMAIN call[r].rows :
         /\ call[r].at = "delete" /\ unchecked' = unchecked
         /\ \A e \in Alive \ {d} : row[e].parent # d
         /\ row' = [row EXCEPT ![d].parent = Gone]
         /\ call' = [call EXCEPT ![r] =
               IF d = call[r].on THEN NoCall
               ELSE [@ EXCEPT !.rows = [e \in DOMAIN call[r].rows \ {d} |-> call[r].rows[e]]]]
    BY DEF RemoveOne
<1>2. d \in Nodes /\ row[d].parent # Absent
    BY <1>0, <1>1, TableTypes DEF TreeCallType, WalksInv, WritesAreOld
<1>3. \A x \in Nodes : row'[x].parent = IF x = d THEN Gone ELSE row[x].parent
    BY <1>0, <1>1, <1>2 DEF TreeTyped, Row
<1>4. Alive' = Alive \ {d} /\ \A c \in Alive' : row'[c].parent = row[c].parent
    BY <1>0, <1>1, <1>2, RemovalStands
<1>5. /\ \A q \in TreeRequests \ {r} : call'[q] = call[q]
      /\ call'[r].at \in {"idle", "delete"}
      /\ call'[r].at = "delete" => DOMAIN call'[r].rows \subseteq DOMAIN call[r].rows
  <2>1. \A q \in TreeRequests \ {r} : call'[q] = call[q]
      BY <1>0, <1>1
  <2>2. CASE d = call[r].on
    <3>1. call'[r] = NoCall
        BY <1>0, <1>1, <2>2
    <3> QED
        BY <2>1, <3>1 DEF NoCall
  <2>3. CASE d # call[r].on
    <3>1. PICK t : t = [e \in DOMAIN call[r].rows \ {d} |-> call[r].rows[e]]
        OBVIOUS
    <3>2. call'[r] = [call[r] EXCEPT !.rows = t]
        BY <1>0, <1>1, <2>3, <3>1
    <3>3. call'[r].at = "delete" /\ call'[r].rows = t
        BY <1>0, <1>1, <3>2 DEF TreeCallType
    <3> QED
        BY <2>1, <3>1, <3>3
  <2> QED
      BY <2>2, <2>3
<1>6. ParentsStand'
    BY <1>1, <1>4 DEF ParentsStand, WalksInv
<1>7. SavesLeadTo'
    BY <1>5 DEF SavesLeadTo, WalksInv
<1>8. \A x \in Nodes : row[x].parent # Absent => row'[x].parent # Absent
    BY <1>3 DEF Absent, Gone
<1>9. WritesAreOld'
  <2> SUFFICES ASSUME NEW q \in TreeRequests
               PROVE  /\ call'[q].at \in {"move", "delete"} =>
                            \A e \in DOMAIN call'[q].rows : row'[e].parent # Absent
                      /\ call'[q].at = "move" /\ call'[q].to \in Nodes =>
                            row'[call'[q].to].parent # Absent
      BY DEF WritesAreOld
  <2>1. DOMAIN call[q].rows \subseteq Nodes
      BY TableTypes DEF WalksInv, TreeTyped, TreeCallType
  <2>2. CASE q = r
      BY <1>1, <1>5, <1>8, <2>1, <2>2 DEF WalksInv, WritesAreOld
  <2>3. CASE q # r
    <3>1. call'[q] = call[q]
        BY <1>5, <2>3
    <3> QED
        BY <1>8, <2>1, <3>1 DEF WalksInv, WritesAreOld
  <2> QED
      BY <2>2, <2>3
<1>10. CreatesAreNew'
  <2> SUFFICES ASSUME NEW q \in TreeRequests, call'[q].at = "create"
               PROVE  /\ DOMAIN call'[q].rows = {call'[q].on} /\ row'[call'[q].on].parent = Absent
                      /\ call'[q].on # call'[q].to
                      /\ \A o \in TreeRequests :
                            call'[o].at = "create" /\ call'[o].on = call'[q].on => o = q
      BY DEF CreatesAreNew
  <2>1. q # r /\ call'[q] = call[q] /\ call[q].at = "create" /\ call[q].on \in Nodes
      BY <1>5 DEF WalksInv, TreeTyped
  <2>2. /\ DOMAIN call[q].rows = {call[q].on} /\ call[q].on # call[q].to
        /\ row[call[q].on].parent = Absent
        /\ \A o \in TreeRequests : call[o].at = "create" /\ call[o].on = call[q].on => o = q
      BY <2>1 DEF WalksInv, CreatesAreNew
  <2>3. row'[call[q].on].parent = Absent
      BY <1>2, <1>3, <2>1, <2>2
  <2> QED
      BY <1>5, <2>1, <2>2, <2>3
<1>11. ASSUME ~unchecked PROVE Acyclic' /\ OneMove'
  <2>1. Acyclic'
    <3> SUFFICES ASSUME NEW S \in SUBSET Alive', S # {}, \A x \in S : row'[x].parent \in S
                 PROVE  FALSE
        BY DEF Acyclic
    <3>1. S \in SUBSET Alive /\ \A x \in S : row[x].parent \in S
        BY <1>4
    <3> QED
        BY <1>11, <3>1 DEF WalksInv, Acyclic
  <2>2. OneMove'
    <3> SUFFICES ASSUME NEW q \in TreeRequests, call'[q].at = "move"
                 PROVE  /\ \A o \in TreeRequests : call'[o].at = "move" => o = q
                        /\ \A s \in DOMAIN call'[q].rows \ {call'[q].on} :
                              row'[s].parent \in {call'[q].to, Gone}
                        /\ call'[q].to \in Alive' =>
                              \E U \in SUBSET Alive' :
                                 call'[q].to \in U /\ call'[q].on \notin U /\ ClosedUp(U)'
        BY DEF OneMove
    <3>1. q # r /\ call'[q] = call[q] /\ call[q].at = "move"
        BY <1>5
    <3>2. /\ \A o \in TreeRequests : call[o].at = "move" => o = q
          /\ \A s \in DOMAIN call[q].rows \ {call[q].on} : row[s].parent \in {call[q].to, Gone}
          /\ call[q].to \in Alive =>
                \E U \in SUBSET Alive : call[q].to \in U /\ call[q].on \notin U /\ ClosedUp(U)
        BY <1>11, <3>1 DEF WalksInv, OneMove
    <3>3. DOMAIN call[q].rows \subseteq Nodes
        BY TableTypes DEF WalksInv, TreeTyped, TreeCallType
    <3>4. \A s \in DOMAIN call[q].rows \ {call[q].on} : row'[s].parent \in {call[q].to, Gone}
        BY <1>3, <3>2, <3>3
    <3>5. ASSUME call[q].to \in Alive'
          PROVE  \E U \in SUBSET Alive' : call[q].to \in U /\ call[q].on \notin U /\ ClosedUp(U)'
      <4>1. PICK U \in SUBSET Alive : call[q].to \in U /\ call[q].on \notin U /\ ClosedUp(U)
          BY <1>4, <3>2, <3>5
      <4>2. PICK V : V = U \ {d}
          OBVIOUS
      <4>3. V \in SUBSET Alive' /\ call[q].to \in V /\ call[q].on \notin V
          BY <1>4, <3>5, <4>1, <4>2
      <4>4. ClosedUp(V)'
          BY <1>1, <1>4, <4>1, <4>2, <4>3 DEF ClosedUp
      <4> QED
          BY <4>3, <4>4
    <3> QED
        BY <1>5, <3>1, <3>2, <3>4, <3>5
  <2> QED
      BY <2>1, <2>2
<1> QED
    BY <1>1, <1>6, <1>7, <1>9, <1>10, <1>11 DEF WalksInv

\* Another parent that is not inside the collection closes no circle.
LEMMA UpdateKeepsWalks ==
    ASSUME WalksInv, TreeTyped', NEW r \in TreeRequests, UpdateCollection(r)
    PROVE  WalksInv'
<1>0. /\ row \in [Nodes -> Row] /\ call \in [TreeRequests -> TreeCallType]
      /\ Alive \subseteq Nodes
    BY DEF WalksInv, TreeTyped, Alive
<1>1. PICK c, p, x, given :
         /\ c \in Alive /\ p \in Alive \cup {Root} /\ given \in BOOLEAN
         /\ row' = [row EXCEPT ![c] = x] /\ x.parent = p
         /\ call' = IF given
                    THEN [call EXCEPT ![r] = [NoCall EXCEPT !.at = "enqueue", !.on = c]]
                    ELSE call
         /\ unchecked' = \/ unchecked \/ p \in {c} \cup Descendants(c)
                         \/ p # row[c].parent /\ Moving # {}
  <2>1. PICK c \in Alive, p \in Alive \cup {Root}, f \in 0 .. MaxFilters, i \in BOOLEAN,
             given \in BOOLEAN :
           /\ row' = [row EXCEPT ![c] = [parent |-> p, filters |-> f, inherits |-> i]]
           /\ call' = IF given
                      THEN [call EXCEPT ![r] = [NoCall EXCEPT !.at = "enqueue", !.on = c]]
                      ELSE call
           /\ unchecked' = \/ unchecked \/ p \in {c} \cup Descendants(c)
                           \/ p # row[c].parent /\ Moving # {}
      BY DEF UpdateCollection
  <2>2. PICK x : x = [parent |-> p, filters |-> f, inherits |-> i]
      OBVIOUS
  <2>3. x.parent = p /\ row' = [row EXCEPT ![c] = x]
      BY <2>1, <2>2
  <2> QED
      BY <2>1, <2>3
<1>2. \A q \in TreeRequests : call'[q] = call[q] \/ call'[q].at = "enqueue"
  <2>1. [NoCall EXCEPT !.at = "enqueue", !.on = c].at = "enqueue"
      BY DEF NoCall
  <2> QED
      BY <1>0, <1>1, <2>1
<1>3. \A d \in Nodes : row'[d].parent = IF d = c THEN p ELSE row[d].parent
    BY <1>0, <1>1
<1>4. CASE p = row[c].parent
  <2>1. \A d \in Nodes : row'[d].parent = row[d].parent
      BY <1>3, <1>4
  <2> QED
      BY <1>1, <1>2, <2>1, WalksKept
<1>5. CASE p # row[c].parent
  <2>1. /\ Root \notin Nodes /\ p \notin {Absent, Gone} /\ row[c].parent \notin {Absent, Gone}
        /\ c \in Nodes
      BY <1>0, <1>1, TreeAssumption DEF Alive, Exists, Root, Absent, Gone
  <2>2. Alive' = Alive
      BY <1>3, <2>1 DEF Alive, Exists
  <2>3. ParentsStand'
      BY <1>0, <1>1, <1>3, <2>2 DEF WalksInv, ParentsStand
  <2>4. SavesLeadTo'
      BY <1>2 DEF WalksInv, SavesLeadTo
  <2>5. \A d \in Nodes : row'[d].parent = Absent <=> row[d].parent = Absent
      BY <1>3, <2>1
  <2>6. ASSUME NEW q \in TreeRequests
        PROVE  DOMAIN call[q].rows \subseteq Nodes /\ (call[q].at # "idle" => call[q].on \in Nodes)
      BY TableTypes DEF WalksInv, TreeTyped, TreeCallType
  <2>7. CreatesAreNew'
      BY <1>2, <2>5, <2>6 DEF WalksInv, CreatesAreNew
  <2>8. WritesAreOld'
      BY <1>2, <2>5, <2>6 DEF WalksInv, WritesAreOld
  <2>9. ASSUME ~unchecked' PROVE Acyclic' /\ OneMove'
    <3>1. Acyclic /\ Moving = {} /\ p \notin {c} \cup Descendants(c)
        BY <1>1, <1>5, <2>9 DEF WalksInv
    <3>2. OneMove'
        BY <1>2, <3>1 DEF OneMove, Moving
    <3>3. Acyclic'
      <4> SUFFICES ASSUME NEW S \in SUBSET Alive, S # {}, \A d \in S : row'[d].parent \in S
                   PROVE  FALSE
          BY <2>2 DEF Acyclic
      <4>1. CASE c \notin S
        <5>1. \A d \in S : row[d].parent \in S
            BY <1>0, <1>3, <4>1
        <5> QED
            BY <3>1, <5>1 DEF Acyclic
      <4>2. CASE c \in S
        <5>1. p \in S /\ p \in Alive
            BY <1>3, <2>1, <4>2
        <5>2. PICK U : U = ToSet(LineUp(p))
            OBVIOUS
        <5>3. U \in SUBSET Alive /\ p \in U /\ ClosedUp(U)
            BY <3>1, <5>1, <5>2, AcyclicEnds, WalkIsClosed
        <5>4. c \notin U
            BY <3>1, <5>1, <5>2 DEF Descendants
        <5>5. \A d \in S \cap U : row[d].parent \in S \cap U
            BY <1>0, <1>3, <5>3, <5>4 DEF ClosedUp
        <5>6. PICK T : T = S \cap U
            OBVIOUS
        <5> QED
            BY <3>1, <5>1, <5>3, <5>5, <5>6 DEF Acyclic
      <4> QED
          BY <4>1, <4>2
    <3> QED
        BY <3>2, <3>3
  <2> QED
      BY <2>3, <2>4, <2>7, <2>8, <2>9 DEF WalksInv
<1> QED
    BY <1>4, <1>5

LEMMA WalksStep == WalksInv /\ [TreeNext]_treeVars => WalksInv'
<1> SUFFICES ASSUME WalksInv, [TreeNext]_treeVars PROVE WalksInv'
    OBVIOUS
<1>a. TreeTyped /\ TreeTyped'
    BY TypesStep DEF WalksInv
<1>b. NoCall.at = "idle" /\ \A c : [NoCall EXCEPT !.at = "enqueue", !.on = c].at = "enqueue"
    BY DEF NoCall
<1>c. /\ row \in [Nodes -> Row]
      /\ call \in [TreeRequests -> TreeCallType]
    BY <1>a DEF TreeTyped
<1>1. ASSUME NEW r \in TreeRequests,
             CreateCollection(r) \/ MoveCollection(r) \/ SaveRows(r) \/ DeleteCollection(r) \/ RemoveOne(r)
      PROVE  WalksInv'
    BY <1>a, <1>1, CreateKeepsWalks, MoveKeepsWalks, SaveKeepsWalks, DeleteKeepsWalks, RemoveKeepsWalks
<1>2. ASSUME NEW r \in TreeRequests, UpdateCollection(r) PROVE WalksInv'
    BY <1>a, <1>2, UpdateKeepsWalks
<1>4. ASSUME NEW r \in TreeRequests, Enqueue(r) \/ CallFails(r) PROVE WalksInv'
  <2>1. call' = [call EXCEPT ![r] = NoCall] /\ UNCHANGED <<row, unchecked>>
      BY <1>4 DEF Enqueue, CallFails
  <2>2. \A q \in TreeRequests : call'[q] = call[q] \/ call'[q].at \in {"idle", "enqueue"}
      BY <1>b, <1>c, <2>1
  <2> QED
      BY <1>a, <2>1, <2>2, WalksKept
<1>5. ASSUME JobPostsChange \/ LoadCollection \/ CompareMembers \/ ApplyMembers \/ ApplyFails
             \/ UNCHANGED treeVars
      PROVE  WalksInv'
  <2>1. UNCHANGED <<row, call, unchecked>>
      BY <1>5 DEF JobPostsChange, LoadCollection, CompareMembers, ApplyMembers, ApplyFails, treeVars
  <2> QED
      BY <1>a, <2>1, WalksKept
<1> QED
    BY <1>1, <1>2, <1>4, <1>5 DEF TreeNext

LEMMA WalksInvariance == TreeSpec => []WalksInv
BY InitWalks, WalksStep, PTL DEF TreeSpec

\* However calls of the service overlap, no collection hangs below one that was
\* deleted; and every walk up the tree ends, until two moves are in progress at a
\* time, or update() writes another parent during a move, or one that lies inside
\* the collection, which it does not check (CollectionService.getAncestors, move,
\* update, delete).
THEOREM WalksEnd == TreeSpec => []EveryWalkEnds
<1>1. WalksInv => EveryWalkEnds
    BY AcyclicEnds DEF WalksInv, EveryWalkEnds, ParentsStand
<1> QED
    BY <1>1, WalksInvariance, PTL

-----------------------------------------------------------------------------
(***************************************************************************)
(* The types of the accounts.  What needs an invariant of its own is that  *)
(* a token was sent to an address: a password has a number too, and is     *)
(* sent to nobody.                                                         *)
(***************************************************************************)
TokenColumns == Secret \ Hash

TokensWereSent(f, C, to) == \A c \in TokenColumns \cap C : f[c] # None => to[f[c]] \in Addresses

RequestBounded(r) ==
    LET q == request[r] IN
    /\ q.at \in {"idle", "loaded", "method", "saved"}
    /\ q.at = "idle" => q = NoRequest
    /\ q.at # "idle" => q.proves \subseteq Addresses /\ TokensWereSent(q.want, Saves(q.kind), sentTo)

AccountsBounded ==
    /\ issued <= MaxSecrets /\ begun \in 0 .. MaxBegun
    /\ TokensWereSent(db, Column, sentTo)
    /\ \A r \in AccountRequests : RequestBounded(r)
    /\ proven \subseteq Addresses /\ trusted \subseteq Addresses
    /\ spent \subseteq Secret \X (1 .. MaxSecrets)
    /\ crossed \subseteq {"identifier", "token"}

LEMMA TokensStaySent ==
    ASSUME AccountsTyped, NEW to, Made(to), NEW f, NEW C, RowTyped(f, C, issued),
           TokensWereSent(f, C, sentTo)
    PROVE  TokensWereSent(f, C, sentTo')
<1>1. \A s \in 1 .. issued : sentTo'[s] = sentTo[s]
    BY MadeIs
<1>2. ASSUME NEW c \in TokenColumns \cap C, f[c] # None PROVE f[c] \in 1 .. issued
    BY <1>2 DEF RowTyped, TokenColumns, AccountsTyped, None
<1> QED
    BY <1>1, <1>2 DEF TokensWereSent

LEMMA LoadKeepsBounds ==
    ASSUME AccountsTyped, AccountsBounded, NEW r \in AccountRequests, NEW k \in Kinds,
           NEW changed, NEW proves, NEW to,
           Load(r, k, changed, proves), Made(to), issued' <= MaxSecrets,
           proves \subseteq Addresses,
           \A c \in TokenColumns \cap DOMAIN changed :
              \/ changed[c] = None
              \/ issued' = issued + 1 /\ changed[c] = issued' /\ to \in Addresses
    PROVE  AccountsBounded'
<1>1. /\ InFlight(r)' /\ request'[r].at = "loaded" /\ request'[r].kind = k
      /\ request'[r].proves = proves
      /\ \A c \in Saves(k) : request'[r].want[c] =
            IF c \in DOMAIN changed THEN changed[c] ELSE db[c]
      /\ \A q \in AccountRequests \ {r} : request'[q] = request[q]
      /\ UNCHANGED <<db, proven, trusted, spent, crossed>>
    BY LoadIs
<1>2. begun' \in 0 .. MaxBegun
    BY AccountsAssumption DEF Load, AccountsBounded
<1>3. TokensWereSent(db, Column, sentTo')
    BY TokensStaySent DEF AccountsTyped, AccountsBounded
<1>4. TokensWereSent(request'[r].want, Saves(k), sentTo')
  <2>1. issued' = issued + 1 => sentTo'[issued'] = to
      BY MadeIs
  <2>2. Saves(k) \subseteq Column
      BY SavesAre
  <2>3. ASSUME NEW c \in TokenColumns \cap Saves(k), request'[r].want[c] # None
        PROVE  sentTo'[request'[r].want[c]] \in Addresses
    <3>1. CASE c \in DOMAIN changed
        BY <1>1, <2>1, <2>3, <3>1
    <3>2. CASE c \notin DOMAIN changed
        BY <1>1, <1>3, <2>2, <2>3, <3>2 DEF TokensWereSent
    <3> QED
        BY <3>1, <3>2
  <2> QED
      BY <2>3 DEF TokensWereSent
<1>5. ASSUME NEW q \in AccountRequests PROVE RequestBounded(q)'
  <2>1. CASE q = r
      BY <1>1, <1>4, <2>1 DEF RequestBounded
  <2>2. CASE q # r
    <3>1. request'[q] = request[q] /\ RequestBounded(q)
        BY <1>1, <2>2 DEF AccountsBounded
    <3>2. CASE request[q].at = "idle"
        BY <3>1, <3>2 DEF RequestBounded
    <3>3. CASE request[q].at # "idle"
      <4>1. RowTyped(request[q].want, Saves(request[q].kind), issued)
          BY <3>3 DEF AccountsTyped, RequestTyped, InFlight
      <4>2. TokensWereSent(request[q].want, Saves(request[q].kind), sentTo')
          BY <3>1, <3>3, <4>1, TokensStaySent DEF RequestBounded
      <4> QED
          BY <3>1, <3>3, <4>2 DEF RequestBounded
    <3> QED
        BY <3>2, <3>3
  <2> QED
      BY <2>1, <2>2
<1> QED
    BY <1>1, <1>2, <1>3, <1>5 DEF AccountsBounded

LEMMA SentIsAddress ==
    ASSUME AccountsBounded, NEW c \in TokenColumns, db[c] # None
    PROVE  {sentTo[db[c]]} \subseteq Addresses
<1>1. c \in Column
    BY DEF TokenColumns, Secret, Column, Method, Hash
<1> QED
    BY <1>1 DEF AccountsBounded, TokensWereSent

LEMMA IssueBounds ==
    ASSUME AccountsTyped, AccountsBounded, NEW a \in Addresses \cup {NoAddress}, Issue(a)
    PROVE  Made(a) /\ issued' = issued + 1 /\ Fresh = issued' /\ issued' <= MaxSecrets
BY AccountsAssumption DEF AccountsTyped, Issue, Made, Fresh

LEMMA NoIssueBounds ==
    ASSUME AccountsBounded, NoIssue
    PROVE  Made(NoAddress) /\ issued' <= MaxSecrets
BY DEF AccountsBounded, NoIssue, Made

LEMMA RequestsKeepBounds ==
    ASSUME AccountsTyped, AccountsBounded, NEW r \in AccountRequests,
           \/ SetVerificationToken(r) \/ VerifyUserByToken(r)
           \/ SetPasswordResetToken(r) \/ ResetPasswordByToken(r)
           \/ SetIdentifierChangeToken(r) \/ ChangeIdentifierByToken(r)
           \/ ChangeUserAndNativeIdentifier(r) \/ UpdatePassword(r) \/ Touch(r)
    PROVE  AccountsBounded'
<1> USE DEF Kinds
<1>0. db["identifier"] \in Addresses
      /\ {"verificationToken", "passwordResetToken", "identifierChangeToken"} = TokenColumns
      /\ NoProof \subseteq Addresses
    BY RowIs DEF TokenColumns, Secret, Hash, NoProof
<1>1. CASE SetVerificationToken(r)
  <2>1. Made(db["identifier"]) /\ issued' = issued + 1 /\ Fresh = issued' /\ issued' <= MaxSecrets
      BY <1>0, <1>1, IssueBounds DEF SetVerificationToken
  <2> QED
      BY <1>0, <1>1, <2>1, LoadKeepsBounds DEF SetVerificationToken
<1>2. CASE VerifyUserByToken(r)
  <2>1. {sentTo[db["verificationToken"]]} \subseteq Addresses
      BY <1>0, <1>2, SentIsAddress DEF VerifyUserByToken
  <2>2. CASE db["passwordHash"] = None
    <3>1. Made(NoAddress) /\ issued' = issued + 1 /\ Fresh = issued' /\ issued' <= MaxSecrets
        BY <1>2, <2>2, IssueBounds DEF VerifyUserByToken
    <3> QED
        BY <1>0, <1>2, <2>1, <2>2, <3>1, LoadKeepsBounds DEF VerifyUserByToken
  <2>3. CASE db["passwordHash"] # None
    <3>1. Made(NoAddress) /\ issued' <= MaxSecrets
        BY <1>2, <2>3, NoIssueBounds DEF VerifyUserByToken
    <3> QED
        BY <1>0, <1>2, <2>1, <2>3, <3>1, LoadKeepsBounds DEF VerifyUserByToken
  <2> QED
      BY <2>2, <2>3
<1>3. CASE SetPasswordResetToken(r)
  <2>1. Made(db["identifier"]) /\ issued' = issued + 1 /\ Fresh = issued' /\ issued' <= MaxSecrets
      BY <1>0, <1>3, IssueBounds DEF SetPasswordResetToken
  <2> QED
      BY <1>0, <1>3, <2>1, LoadKeepsBounds DEF SetPasswordResetToken
<1>4. CASE ResetPasswordByToken(r)
  <2>1. {sentTo[db["passwordResetToken"]]} \subseteq Addresses
      BY <1>0, <1>4, SentIsAddress DEF ResetPasswordByToken
  <2>2. Made(NoAddress) /\ issued' <= MaxSecrets
      BY <1>4, IssueBounds DEF ResetPasswordByToken
  <2> QED
      BY <1>0, <1>4, <2>1, <2>2, LoadKeepsBounds DEF ResetPasswordByToken
<1>5. CASE SetIdentifierChangeToken(r)
  <2>1. PICK a \in Addresses :
           /\ Issue(a)
           /\ Load(r, "setIdentifierChangeToken",
                   [pendingIdentifier |-> a, identifierChangeToken |-> Fresh], NoProof)
      BY <1>5 DEF SetIdentifierChangeToken, ChangeTokenGoesTo
  <2>2. Made(a) /\ issued' = issued + 1 /\ Fresh = issued' /\ issued' <= MaxSecrets
      BY <2>1, IssueBounds
  <2> QED
      BY <1>0, <2>1, <2>2, LoadKeepsBounds
<1>6. CASE ChangeIdentifierByToken(r)
  <2>1. {sentTo[db["identifierChangeToken"]]} \subseteq Addresses
      BY <1>0, <1>6, SentIsAddress DEF ChangeIdentifierByToken
  <2>2. Made(NoAddress) /\ issued' <= MaxSecrets
      BY <1>6, NoIssueBounds DEF ChangeIdentifierByToken
  <2> QED
      BY <1>0, <1>6, <2>1, <2>2, LoadKeepsBounds DEF ChangeIdentifierByToken, Renamed
<1>7. CASE ChangeUserAndNativeIdentifier(r)
  <2>1. Made(NoAddress) /\ issued' <= MaxSecrets
      BY <1>7, NoIssueBounds DEF ChangeUserAndNativeIdentifier
  <2> QED
      BY <1>0, <1>7, <2>1, LoadKeepsBounds DEF ChangeUserAndNativeIdentifier, Renamed
<1>8. CASE UpdatePassword(r)
  <2>1. Made(NoAddress) /\ issued' <= MaxSecrets
      BY <1>8, IssueBounds DEF UpdatePassword
  <2> QED
      BY <1>0, <1>8, <2>1, LoadKeepsBounds DEF UpdatePassword
<1>9. CASE Touch(r)
  <2>1. Made(NoAddress) /\ issued' <= MaxSecrets
      BY <1>9, NoIssueBounds DEF Touch
  <2> QED
      BY <1>0, <1>9, <2>1, LoadKeepsBounds DEF Touch
<1> QED
    BY <1>1, <1>2, <1>3, <1>4, <1>5, <1>6, <1>7, <1>8, <1>9

LEMMA SaveKeepsBounds ==
    ASSUME AccountsTyped, AccountsBounded, NEW r \in AccountRequests, SaveMethod(r) \/ SaveUser(r)
    PROVE  AccountsBounded'
<1>1. PICK cols, to : InFlight(r) /\ SaveRow(r, cols, to) /\ to \in {"method", "saved"}
  <2>1. CASE SaveMethod(r)
      BY <2>1 DEF SaveMethod, InFlight
  <2>2. CASE SaveUser(r)
      BY <2>2 DEF SaveUser, InFlight
  <2> QED
      BY <2>1, <2>2
<1>2. /\ request'[r].at = to /\ request'[r].kind = request[r].kind
      /\ request'[r].want = request[r].want /\ request'[r].proves = request[r].proves
      /\ \A q \in AccountRequests \ {r} : request'[q] = request[q]
      /\ UNCHANGED <<db, begun, issued, sentTo, proven, trusted, spent, crossed>>
    BY <1>1, SaveIs
<1>3. ASSUME NEW q \in AccountRequests PROVE RequestBounded(q)'
  <2>1. RequestBounded(q)
      BY DEF AccountsBounded
  <2>2. CASE q = r
      BY <1>1, <1>2, <2>1, <2>2 DEF RequestBounded, InFlight
  <2>3. CASE q # r
      BY <1>2, <2>1, <2>3 DEF RequestBounded
  <2> QED
      BY <2>2, <2>3
<1> QED
    BY <1>2, <1>3 DEF AccountsBounded

LEMMA EndsKeepBounds ==
    ASSUME AccountsTyped, AccountsBounded, NEW r \in AccountRequests,
           request' = [request EXCEPT ![r] = NoRequest], UNCHANGED sentTo
    PROVE  \A q \in AccountRequests : RequestBounded(q)'
<1> SUFFICES ASSUME NEW q \in AccountRequests PROVE RequestBounded(q)'
    OBVIOUS
<1>1. CASE q = r
  <2>1. request'[q] = NoRequest
      BY <1>1 DEF AccountsTyped
  <2> QED
      BY <2>1 DEF RequestBounded, NoRequest
<1>2. CASE q # r
  <2>1. request'[q] = request[q] /\ RequestBounded(q)
      BY <1>2 DEF AccountsTyped, AccountsBounded
  <2> QED
      BY <2>1 DEF RequestBounded
<1> QED
    BY <1>1, <1>2

LEMMA CommitKeepsBounds ==
    ASSUME AccountsTyped, AccountsBounded, NEW r \in AccountRequests, CommitRequest(r)
    PROVE  AccountsBounded'
<1> DEFINE q == request[r]
<1>1. /\ InFlight(r) /\ q.kind \in Kinds
      /\ DOMAIN q.writes \subseteq Saves(q.kind)
      /\ \A c \in Column : db'[c] = IF c \in DOMAIN q.writes THEN q.want[c] ELSE db[c]
      /\ UNCHANGED <<begun, issued, sentTo>>
    BY CommitIs
<1>2. RequestBounded(r) /\ RowTyped(q.want, Saves(q.kind), issued)
    BY <1>1 DEF AccountsBounded, AccountsTyped, RequestTyped
<1>3. TokensWereSent(db', Column, sentTo')
    BY <1>1, <1>2 DEF TokensWereSent, AccountsBounded, RequestBounded, InFlight
<1>4. proven' \subseteq Addresses
    BY <1>1, <1>2 DEF CommitRequest, AccountsBounded, RequestBounded, InFlight
<1>5. trusted' \subseteq Addresses
  <2>1. q.kind = "changeUserAndNativeIdentifier" => q.want["identifier"] \in Addresses
      BY <1>1, <1>2, SavesAre DEF RowTyped, Renames
  <2> QED
      BY <2>1 DEF CommitRequest, AccountsBounded
<1>6. spent' \subseteq Secret \X (1 .. MaxSecrets)
  <2>1. \A c \in Secret : db[c] # None => db[c] \in 1 .. issued
      BY RowIs
  <2>2. 1 .. issued \subseteq 1 .. MaxSecrets
      BY AccountsAssumption DEF AccountsTyped, AccountsBounded
  <2>3. spent' \subseteq spent \cup {<<c, db[c]>> : c \in {d \in Secret : db[d] # None}}
      BY DEF CommitRequest
  <2> QED
      BY <2>1, <2>2, <2>3 DEF AccountsBounded
<1>7. crossed' \subseteq {"identifier", "token"}
    BY DEF CommitRequest, AccountsBounded
<1>8. \A p \in AccountRequests : RequestBounded(p)'
    BY <1>1, EndsKeepBounds DEF CommitRequest
<1> QED
    BY <1>1, <1>3, <1>4, <1>5, <1>6, <1>7, <1>8 DEF AccountsBounded

LEMMA AccountBoundsStep ==
    AccountsInv /\ AccountsBounded /\ [AccountsNext]_accountVars => AccountsBounded'
<1> SUFFICES ASSUME AccountsTyped, AccountsBounded, [AccountsNext]_accountVars
             PROVE  AccountsBounded'
    BY DEF AccountsInv
<1>1. ASSUME NEW r \in AccountRequests, RequestFails(r) PROVE AccountsBounded'
  <2>1. \A q \in AccountRequests : RequestBounded(q)'
      BY <1>1, EndsKeepBounds DEF RequestFails
  <2> QED
      BY <1>1, <2>1 DEF RequestFails, AccountsBounded
<1>2. CASE UNCHANGED accountVars
    BY <1>2 DEF accountVars, AccountsBounded, RequestBounded
<1>3. CASE AccountsNext
    BY <1>1, <1>3, RequestsKeepBounds, SaveKeepsBounds, CommitKeepsBounds DEF AccountsNext
<1> QED
    BY <1>2, <1>3

LEMMA InitAccountBounds == AccountsInit => AccountsBounded
<1> SUFFICES ASSUME AccountsInit PROVE AccountsBounded
    OBVIOUS
<1>1. PICK a \in Addresses :
          \/ db = Registered(a, 1, None) /\ issued = 1 /\ sentTo = <<a>>
          \/ db = Registered(a, 1, 2) /\ issued = 2 /\ sentTo = <<a, NoAddress>>
    BY DEF AccountsInit
<1>2. issued <= MaxSecrets /\ sentTo[1] = a
  <2>1. MaxSecrets \in Nat /\ MaxSecrets # 0 /\ MaxSecrets # 1
      BY AccountsAssumption
  <2>2. CASE issued = 1 /\ sentTo = <<a>>
      BY <2>1, <2>2
  <2>3. CASE issued = 2 /\ sentTo = <<a, NoAddress>>
      BY <2>1, <2>3
  <2> QED
      BY <1>1, <2>2, <2>3
<1>3. /\ db["verificationToken"] = 1 /\ db["passwordResetToken"] = None
      /\ db["identifierChangeToken"] = None
    BY <1>1 DEF Registered
<1>4. TokensWereSent(db, Column, sentTo)
    BY <1>2, <1>3 DEF TokensWereSent, TokenColumns, Secret, Hash
<1>5. \A r \in AccountRequests : RequestBounded(r)
    BY DEF AccountsInit, RequestBounded, NoRequest
<1>6. begun \in 0 .. MaxBegun
    BY AccountsAssumption DEF AccountsInit
<1> QED
    BY <1>2, <1>4, <1>5, <1>6 DEF AccountsInit, AccountsBounded

LEMMA AccountTypes == AccountsInv /\ AccountsBounded => AccountsTypeOK
<1> SUFFICES ASSUME AccountsTyped, AccountsBounded PROVE AccountsTypeOK
    BY DEF AccountsInv
<1>1. DOMAIN db = Column /\ RowTyped(db, Column, issued)
    BY DEF AccountsTyped
<1>2. /\ \A c \in Secret : db[c] \in 0 .. issued
      /\ db["verified"] \in BOOLEAN
      /\ \A c \in {"identifier", "nativeIdentifier", "emailAddress"} : db[c] \in Addresses
      /\ db["pendingIdentifier"] \in Addresses \cup {NoAddress}
  <2>1. Secret \subseteq Column /\ {"verified", "identifier", "nativeIdentifier", "emailAddress",
                                    "pendingIdentifier"} \subseteq Column
      BY DEF Secret, Column, Method, UserRow, Hash
  <2> QED
      BY <1>1, <2>1 DEF RowTyped
<1>3. ASSUME NEW r \in AccountRequests
      PROVE  /\ request[r].at \in {"idle", "loaded", "method", "saved"}
             /\ DOMAIN request[r].writes \subseteq DOMAIN request[r].want
             /\ InFlight(r) => DOMAIN request[r].want = Saves(request[r].kind)
  <2>1. RequestBounded(r) /\ RequestTyped(r)
      BY DEF AccountsBounded, AccountsTyped
  <2>2. CASE InFlight(r)
      BY <2>1, <2>2 DEF RequestBounded, RequestTyped
  <2>3. CASE ~InFlight(r)
      BY <2>1, <2>3 DEF RequestBounded, InFlight, NoRequest
  <2> QED
      BY <2>2, <2>3
<1>4. issued \in 0 .. MaxSecrets
    BY AccountsAssumption DEF AccountsTyped, AccountsBounded
<1>5. DOMAIN sentTo = 1 .. issued /\ Range(sentTo) \subseteq Addresses \cup {NoAddress}
    BY DEF AccountsTyped, Range
<1> QED
    BY <1>1, <1>2, <1>3, <1>4, <1>5 DEF AccountsBounded, AccountsTypeOK

LEMMA AccountsTypeInvariance == AccountsSpec => []AccountsTypeOK
BY InitAccounts, AccountsStep, InitAccountBounds, AccountBoundsStep, AccountTypes, PTL
   DEF AccountsSpec

-----------------------------------------------------------------------------
(***************************************************************************)
(* The types of the collections.                                           *)
(***************************************************************************)
LEMMA TreeTypes == TreeTyped => TreeTypeOK
<1> SUFFICES ASSUME TreeTyped PROVE TreeTypeOK
    OBVIOUS
<1>1. ASSUME NEW r \in TreeRequests
      PROVE  /\ call[r].at \in {"idle", "create", "move", "delete", "enqueue"}
             /\ \A c \in DOMAIN call[r].rows : call[r].rows[c] \in Row
  <2>1. call[r] \in TreeCallType
      BY DEF TreeTyped
  <2>2. PICK t : t = call[r].rows
      OBVIOUS
  <2>3. call[r].at \in {"idle", "create", "move", "delete", "enqueue"} /\ t \in Tables
      BY <2>1, <2>2 DEF TreeCallType
  <2>4. t \in [DOMAIN t -> Row]
      BY <2>3, TableTypes
  <2>5. \A c \in DOMAIN t : t[c] \in Row
      BY <2>4
  <2> QED
      BY <2>2, <2>3, <2>5
<1>2. \A c \in Nodes : members[c] \subseteq (Nodes \X (1 .. MaxFilters)) \cup Partly
    BY DEF TreeTyped, LinkSets
<1>3. job.at \in {"idle", "loaded", "compared"} /\ job.on \in Nodes \cup {Root}
    BY DEF TreeTyped, TreeJobType
<1> QED
    BY <1>1, <1>2, <1>3 DEF TreeTyped, TreeTypeOK

LEMMA TreeTypeInvariance == TreeSpec => []TreeTypeOK
BY InitTypes, TypesStep, TreeTypes, PTL DEF TreeSpec

-----------------------------------------------------------------------------
(***************************************************************************)
(* The names of files.  An upload that looks for the name of its preview   *)
(* has written no file yet, and every file was written by another one: so  *)
(* no more names are made than there were uploads.                         *)
(***************************************************************************)
\* Who wrote a file has its name, and no other one.
FileIsOwn(f) ==
    LET u == files[f] IN
    /\ f[2] = 0 => asset[u].source = f /\ upload[u] \in {"source", "written", "over"}
    /\ f[2] # 0 => asset[u].preview = f /\ upload[u] \in {"written", "over"}

NamesWithin(f, n) == f[1] \in 1 .. n /\ f[2] \in 0 .. n

UploadNamesWithin(u, n) ==
    /\ upload[u] \in {"named", "both named", "source"} =>
          asset[u].source[2] = 0 /\ NamesWithin(asset[u].source, n)
    /\ upload[u] \in {"both named", "source"} =>
          asset[u].preview[2] # 0 /\ NamesWithin(asset[u].preview, n)

NamesInv ==
    /\ \A f \in DOMAIN files : FileIsOwn(f)
    /\ IsFiniteSet(Begun)
    /\ \A f \in DOMAIN files : NamesWithin(f, Cardinality(Begun))
    /\ \A u \in Uploads : UploadNamesWithin(u, Cardinality(Begun))
    /\ met \subseteq {"uploads", "deletions", "undone"}

\* A step that makes no name and writes no file.
LEMMA NamesStay ==
    ASSUME AssetTyped, NamesInv,
           \A u \in Uploads : \/ upload'[u] = upload[u]
                              \/ upload[u] # "idle" /\ upload'[u] = "over",
           \A u \in Uploads : /\ asset'[u].source = asset[u].source
                              /\ asset'[u].preview = asset[u].preview,
           DOMAIN files' \subseteq DOMAIN files,
           \A f \in DOMAIN files' : files'[f] = files[f],
           met' \subseteq met \cup {"deletions", "undone"}
    PROVE  NamesInv'
<1>1. Begun' = Begun
    BY DEF Begun
<1>2. \A f \in DOMAIN files : files[f] \in Uploads
    BY DEF AssetTyped
<1>3. \A f \in DOMAIN files' : FileIsOwn(f)'
    BY <1>2 DEF NamesInv, FileIsOwn
<1>4. \A u \in Uploads : UploadNamesWithin(u, Cardinality(Begun))'
    BY <1>1 DEF NamesInv, UploadNamesWithin
<1> QED
    BY <1>1, <1>3, <1>4 DEF NamesInv

LEMMA MoreNames ==
    ASSUME NEW n \in Nat, NEW m \in Nat, n <= m
    PROVE  /\ \A f : NamesWithin(f, n) => NamesWithin(f, m)
           /\ \A u : UploadNamesWithin(u, n) => UploadNamesWithin(u, m)
<1>1. \A f : NamesWithin(f, n) => NamesWithin(f, m)
    BY DEF NamesWithin
<1> QED
    BY <1>1 DEF UploadNamesWithin

LEMMA SourceIsLow ==
    ASSUME AssetTyped, NamesInv
    PROVE  FirstFree({f[1] : f \in {g \in DOMAIN files : g[2] = 0}}) \in 1 .. Cardinality(Begun) + 1
<1> DEFINE T == {f[1] : f \in {g \in DOMAIN files : g[2] = 0}}
           n == Cardinality(Begun)
<1>1. n \in Nat
    BY FS_CardinalityType DEF NamesInv
<1>2. T \subseteq 1 .. n
    BY DEF NamesInv, NamesWithin
<1>3. IsFiniteSet(T) /\ Cardinality(T) <= n /\ Cardinality(T) \in Nat
  <2> HIDE DEF T, n
  <2>1. IsFiniteSet(1 .. n) /\ Cardinality(1 .. n) = n
      BY <1>1, FS_Interval
  <2>2. IsFiniteSet(T) /\ Cardinality(T) <= Cardinality(1 .. n)
      BY <1>2, <2>1, FS_Subset
  <2> QED
      BY <2>1, <2>2, FS_CardinalityType
<1> HIDE DEF T
<1>4. FirstFree(T) \in 1 .. Cardinality(T) + 1
    BY <1>3, FirstFreeIsFree
<1> HIDE DEF n
<1>5. FirstFree(T) \in 1 .. n + 1
    BY <1>1, <1>3, <1>4
<1> QED
    BY <1>5 DEF T, n

LEMMA PreviewIsLow ==
    ASSUME AssetTyped, NamesInv, NEW m \in Nat, NEW u \in Uploads, upload[u] = "named"
    PROVE  FirstFree({f[2] : f \in {g \in DOMAIN files : g[1] = m /\ g[2] > 0}})
              \in 1 .. Cardinality(Begun)
<1> DEFINE T == {f[2] : f \in {g \in DOMAIN files : g[1] = m /\ g[2] > 0}}
           n == Cardinality(Begun)
           h == [k \in T |-> files[<<m, k>>]]
<1>1. /\ IsFiniteSet(Begun \ {u}) /\ Cardinality(Begun \ {u}) = n - 1 /\ n \in Nat
      /\ n - 1 \in Nat
  <2>1. IsFiniteSet(Begun) /\ u \in Begun
      BY DEF NamesInv, Begun
  <2>2. IsFiniteSet(Begun \ {u}) /\ Cardinality(Begun \ {u}) = n - 1
      BY <2>1, FS_RemoveElement
  <2> QED
      BY <2>1, <2>2, FS_CardinalityType
<1>2. ASSUME NEW k \in T
      PROVE  <<m, k>> \in DOMAIN files /\ h[k] \in Begun \ {u} /\ asset[h[k]].preview = <<m, k>>
  <2>1. PICK f \in DOMAIN files : f[1] = m /\ f[2] > 0 /\ k = f[2]
      OBVIOUS
  <2>2. f \in Nat \X Nat
      BY DEF AssetTyped, FileName
  <2>3. f = <<m, k>> /\ f[2] # 0
      BY <2>1, <2>2
  <2>4. files[f] \in Uploads /\ FileIsOwn(f)
      BY DEF AssetTyped, NamesInv
  <2>5. asset[files[f]].preview = f /\ upload[files[f]] \in {"written", "over"}
      BY <2>3, <2>4 DEF FileIsOwn
  <2> QED
      BY <2>3, <2>4, <2>5 DEF Begun
<1>3. h \in Injection(T, Begun \ {u})
  <2>1. h \in [T -> Begun \ {u}]
      BY <1>2
  <2>2. \A j, k \in T : h[j] = h[k] => j = k
    <3> SUFFICES ASSUME NEW j \in T, NEW k \in T, h[j] = h[k] PROVE j = k
        OBVIOUS
    <3>1. <<m, j>> = <<m, k>>
        BY <1>2
    <3> QED
        BY <3>1
  <2>3. DOMAIN h = T
      OBVIOUS
  <2> HIDE DEF h, T
  <2> QED
      BY <2>1, <2>2, <2>3 DEF Injection, IsInjective
<1> HIDE DEF h, T, n
<1>4. IsFiniteSet(T) /\ Cardinality(T) <= n - 1
    BY <1>1, <1>3, FS_Injection
<1>5. FirstFree(T) \in 1 .. Cardinality(T) + 1 /\ Cardinality(T) \in Nat
    BY <1>4, FirstFreeIsFree, FS_CardinalityType
<1>6. FirstFree(T) \in 1 .. n
    BY <1>1, <1>4, <1>5
<1> QED
    BY <1>6 DEF T, n

LEMMA ChooseSourceKeepsNames ==
    ASSUME AssetTyped, NamesInv, NEW u \in Uploads, ChooseSource(u) PROVE NamesInv'
<1> DEFINE nn == FirstFree({f[1] : f \in {g \in DOMAIN files : g[2] = 0}})
<1>0. PICK n : n = Cardinality(Begun)
    OBVIOUS
<1>1. PICK s : s = nn /\ s \in 1 .. n + 1
    BY <1>0, SourceIsLow
<1>2. /\ Step(u, "idle", "named") /\ asset' = [asset EXCEPT ![u].source = <<s, 0>>]
      /\ met' \subseteq met \cup {"uploads"} /\ UNCHANGED files
    BY <1>1 DEF ChooseSource
<1> HIDE DEF nn
<1>3. upload[u] = "idle" /\ upload'[u] = "named" /\ \A v \in Uploads \ {u} : upload'[v] = upload[v]
    BY <1>2, UploadSteps
<1>4. /\ asset'[u].source = <<s, 0>> /\ \A v \in Uploads \ {u} : asset'[v] = asset[v]
    BY <1>2 DEF AssetTyped, AssetType
<1>5. IsFiniteSet(Begun) /\ n \in Nat
    BY <1>0, FS_CardinalityType DEF NamesInv
<1>6. IsFiniteSet(Begun') /\ Cardinality(Begun') = n + 1
  <2>1. Begun' = Begun \cup {u} /\ u \notin Begun
      BY <1>3 DEF Begun
  <2> QED
      BY <1>0, <1>5, <2>1, FS_AddElement
<1>7. n + 1 \in Nat /\ n <= n + 1
    BY <1>5
<1>8. ASSUME NEW f \in DOMAIN files PROVE FileIsOwn(f)' /\ NamesWithin(f, n + 1)
  <2>1. FileIsOwn(f) /\ NamesWithin(f, n) /\ files[f] \in Uploads
      BY <1>0 DEF NamesInv, AssetTyped
  <2>2. files[f] # u
      BY <1>3, <2>1 DEF FileIsOwn
  <2> QED
      BY <1>2, <1>3, <1>4, <1>5, <1>7, <2>1, <2>2, MoreNames DEF FileIsOwn
<1>9. ASSUME NEW v \in Uploads PROVE UploadNamesWithin(v, n + 1)'
  <2>1. UploadNamesWithin(v, n)
      BY <1>0 DEF NamesInv
  <2>2. UploadNamesWithin(v, n + 1)
      BY <1>5, <1>7, <2>1, MoreNames
  <2>3. CASE v = u
    <3>1. NamesWithin(<<s, 0>>, n + 1) /\ <<s, 0>>[2] = 0
        BY <1>1, <1>7 DEF NamesWithin
    <3> QED
        BY <1>3, <1>4, <2>3, <3>1 DEF UploadNamesWithin
  <2>4. CASE v # u
      BY <1>3, <1>4, <2>2, <2>4 DEF UploadNamesWithin
  <2> QED
      BY <2>3, <2>4
<1>10. \A v \in Uploads : UploadNamesWithin(v, Cardinality(Begun))'
    BY <1>6, <1>9 DEF UploadNamesWithin
<1> QED
    BY <1>2, <1>6, <1>8, <1>10 DEF NamesInv

LEMMA ChoosePreviewKeepsNames ==
    ASSUME AssetTyped, NamesInv, NEW u \in Uploads, ChoosePreview(u) PROVE NamesInv'
<1> DEFINE m == asset[u].source[1]
           kk == FirstFree({f[2] : f \in {g \in DOMAIN files : g[1] = m /\ g[2] > 0}})
           n == Cardinality(Begun)
<1>0. upload[u] = "named" /\ m \in Nat
    BY DEF ChoosePreview, Step, AssetTyped, AssetType
<1>1. PICK k : k = kk /\ k \in 1 .. n
    BY <1>0, PreviewIsLow
<1>2. /\ Step(u, "named", "both named") /\ asset' = [asset EXCEPT ![u].preview = <<m, k>>]
      /\ UNCHANGED <<files, met>>
    BY <1>1 DEF ChoosePreview
<1> HIDE DEF kk
<1>3. upload'[u] = "both named" /\ \A v \in Uploads \ {u} : upload'[v] = upload[v]
    BY <1>2, UploadSteps
<1>4. /\ asset'[u].preview = <<m, k>> /\ asset'[u].source = asset[u].source
      /\ \A v \in Uploads \ {u} : asset'[v] = asset[v]
    BY <1>2 DEF AssetTyped, AssetType
<1>5. Begun' = Begun
    BY <1>0, <1>3 DEF Begun
<1>6. ASSUME NEW f \in DOMAIN files PROVE FileIsOwn(f)'
  <2>1. FileIsOwn(f) /\ files[f] \in Uploads
      BY DEF NamesInv, AssetTyped
  <2>2. files[f] # u
      BY <1>0, <2>1 DEF FileIsOwn
  <2> QED
      BY <1>2, <1>3, <1>4, <2>1, <2>2 DEF FileIsOwn
<1>7. ASSUME NEW v \in Uploads PROVE UploadNamesWithin(v, n)'
  <2>1. UploadNamesWithin(v, n)
      BY DEF NamesInv
  <2>2. CASE v = u
    <3>1. asset[u].source[2] = 0 /\ NamesWithin(asset[u].source, n)
        BY <1>0, <2>1, <2>2 DEF UploadNamesWithin
    <3>2. <<m, k>>[2] # 0 /\ NamesWithin(<<m, k>>, n)
        BY <1>1, <3>1 DEF NamesWithin
    <3> HIDE DEF n, m
    <3> QED
        BY <1>3, <1>4, <1>5, <2>2, <3>1, <3>2 DEF UploadNamesWithin, n
  <2>3. CASE v # u
      BY <1>3, <1>4, <1>5, <2>1, <2>3 DEF UploadNamesWithin
  <2> QED
      BY <2>2, <2>3
<1> QED
    BY <1>2, <1>5, <1>6, <1>7 DEF NamesInv

LEMMA WriteKeepsNames ==
    ASSUME AssetTyped, NamesInv, NEW u \in Uploads, WriteSource(u) \/ WritePreview(u)
    PROVE  NamesInv'
<1> DEFINE n == Cardinality(Begun)
<1>1. PICK f : /\ WriteSource(u) => f = asset[u].source
               /\ WritePreview(u) => f = asset[u].preview
    BY DEF WriteSource, WritePreview, Step
<1>2. /\ UNCHANGED <<asset, met>> /\ Put(f, u)
      /\ \/ Step(u, "both named", "source") /\ f = asset[u].source
         \/ Step(u, "source", "written") /\ f = asset[u].preview
    BY <1>1 DEF WriteSource, WritePreview
<1>3. \A v \in Uploads \ {u} : upload'[v] = upload[v]
    BY <1>2, UploadSteps
<1>4. Begun' = Begun
    BY <1>2, <1>3, UploadSteps DEF Begun
<1>5. UploadNamesWithin(u, n)
    BY DEF NamesInv
<1>6. f \in FileName /\ NamesWithin(f, n)
  <2>1. asset[u].source \in FileName /\ asset[u].preview \in FileName
      BY DEF AssetTyped, AssetType, FileName
  <2>2. CASE Step(u, "both named", "source") /\ f = asset[u].source
    <3>1. upload[u] = "both named"
        BY <2>2, UploadSteps
    <3> QED
        BY <1>5, <2>1, <2>2, <3>1 DEF UploadNamesWithin
  <2>3. CASE Step(u, "source", "written") /\ f = asset[u].preview
    <3>1. upload[u] = "source"
        BY <2>3, UploadSteps
    <3> QED
        BY <1>5, <2>1, <2>3, <3>1 DEF UploadNamesWithin
  <2> QED
      BY <1>2, <2>2, <2>3
<1>7. /\ DOMAIN files' = DOMAIN files \cup {f} /\ files'[f] = u
      /\ \A g \in DOMAIN files \ {f} : files'[g] = files[g]
    BY <1>2, <1>6, PutWrites
<1>8. FileIsOwn(f)'
  <2>1. CASE Step(u, "both named", "source") /\ f = asset[u].source
    <3>1. upload[u] = "both named" /\ upload'[u] = "source"
        BY <2>1, UploadSteps
    <3>2. f[2] = 0
        BY <1>5, <2>1, <3>1 DEF UploadNamesWithin
    <3> QED
        BY <1>2, <1>7, <2>1, <3>1, <3>2 DEF FileIsOwn
  <2>2. CASE Step(u, "source", "written") /\ f = asset[u].preview
    <3>1. upload[u] = "source" /\ upload'[u] = "written"
        BY <2>2, UploadSteps
    <3>2. f[2] # 0
        BY <1>5, <2>2, <3>1 DEF UploadNamesWithin
    <3> QED
        BY <1>2, <1>7, <2>2, <3>1, <3>2 DEF FileIsOwn
  <2> QED
      BY <1>2, <2>1, <2>2
<1>9. ASSUME NEW g \in DOMAIN files \ {f} PROVE FileIsOwn(g)'
  <2>1. FileIsOwn(g) /\ files[g] \in Uploads /\ files'[g] = files[g]
      BY <1>7 DEF NamesInv, AssetTyped
  <2>2. upload[files[g]] \in {"source", "written", "over"}
        => upload'[files[g]] \in {"source", "written", "over"}
      BY <1>2, <1>3, <2>1, UploadSteps
  <2>3. upload[files[g]] \in {"written", "over"} => upload'[files[g]] \in {"written", "over"}
      BY <1>2, <1>3, <2>1, UploadSteps
  <2> QED
      BY <1>2, <2>1, <2>2, <2>3 DEF FileIsOwn
<1>10. ASSUME NEW v \in Uploads PROVE UploadNamesWithin(v, n)'
  <2>1. UploadNamesWithin(v, n)
      BY DEF NamesInv
  <2>2. CASE v = u
      BY <1>2, <1>4, <2>1, <2>2, UploadSteps DEF UploadNamesWithin
  <2>3. CASE v # u
      BY <1>2, <1>3, <1>4, <2>1, <2>3 DEF UploadNamesWithin
  <2> QED
      BY <2>2, <2>3
<1> QED
    BY <1>2, <1>4, <1>6, <1>7, <1>8, <1>9, <1>10 DEF NamesInv

LEMMA NamesStep == AssetTyped /\ NamesInv /\ [AssetNext]_assetVars => NamesInv'
<1> SUFFICES ASSUME AssetTyped, NamesInv, [AssetNext]_assetVars PROVE NamesInv'
    OBVIOUS
<1>1. ASSUME NEW u \in Uploads, SaveAsset(u) \/ UploadFails(u) \/ EndUpload(u) PROVE NamesInv'
  <2>1. \A v \in Uploads : \/ upload'[v] = upload[v]
                           \/ upload[v] # "idle" /\ upload'[v] = "over"
      BY <1>1 DEF SaveAsset, UploadFails, EndUpload, Step, AssetTyped
  <2>2. \A v \in Uploads : /\ asset'[v].source = asset[v].source
                           /\ asset'[v].preview = asset[v].preview
    <3>1. CASE SaveAsset(u)
        BY <3>1 DEF SaveAsset, AssetTyped, AssetType
    <3>2. CASE UploadFails(u)
        BY <3>2 DEF UploadFails
    <3>3. CASE EndUpload(u)
      <4>1. PICK w : asset' = [asset EXCEPT ![u].row = w]
          BY <3>3 DEF EndUpload
      <4> QED
          BY <4>1 DEF AssetTyped, AssetType
    <3> QED
        BY <1>1, <3>1, <3>2, <3>3
  <2>3. UNCHANGED <<files, met>>
      BY <1>1 DEF SaveAsset, UploadFails, EndUpload
  <2> QED
      BY <2>1, <2>2, <2>3, NamesStay
<1>2. ASSUME NEW d \in Deletions,
             \/ LoadAsset(d) \/ RemoveRow(d) \/ DeleteSourceFile(d)
             \/ DeletePreviewFile(d) \/ EndDeletion(d)
      PROVE  NamesInv'
  <2>1. UNCHANGED upload /\ met' \subseteq met \cup {"deletions", "undone"}
      BY <1>2 DEF LoadAsset, RemoveRow, DeleteSourceFile, DeletePreviewFile, EndDeletion
  <2>2. \A v \in Uploads : /\ asset'[v].source = asset[v].source
                           /\ asset'[v].preview = asset[v].preview
    <3>1. CASE LoadAsset(d) \/ DeleteSourceFile(d) \/ DeletePreviewFile(d)
        BY <3>1 DEF LoadAsset, DeleteSourceFile, DeletePreviewFile
    <3>2. CASE RemoveRow(d)
      <4>1. PICK w : asset' = [asset EXCEPT ![deletion[d].of].row = w]
          BY <3>2 DEF RemoveRow
      <4> QED
          BY <4>1 DEF AssetTyped, AssetType
    <3>3. CASE EndDeletion(d)
      <4>1. PICK w : asset' = [asset EXCEPT ![deletion[d].of].row = w]
          BY <3>3 DEF EndDeletion
      <4> QED
          BY <4>1 DEF AssetTyped, AssetType
    <3> QED
        BY <1>2, <3>1, <3>2, <3>3
  <2>3. DOMAIN files' \subseteq DOMAIN files /\ \A f \in DOMAIN files' : files'[f] = files[f]
      BY <1>2 DEF LoadAsset, RemoveRow, DeleteSourceFile, DeletePreviewFile, EndDeletion,
                  DeleteFile
  <2> QED
      BY <2>1, <2>2, <2>3, NamesStay
<1>3. CASE UNCHANGED assetVars
    BY <1>3, NamesStay DEF assetVars
<1>4. CASE AssetNext
    BY <1>1, <1>2, <1>4, ChooseSourceKeepsNames, ChoosePreviewKeepsNames, WriteKeepsNames
       DEF AssetNext
<1> QED
    BY <1>3, <1>4

LEMMA InitNames == AssetInit => NamesInv
<1> SUFFICES ASSUME AssetInit PROVE NamesInv
    OBVIOUS
<1>1. Begun = {} /\ DOMAIN files = {} /\ met = {}
    BY DEF AssetInit, Begun
<1>2. \A u \in Uploads : upload[u] = "idle"
    BY DEF AssetInit
<1>3. IsFiniteSet(Begun)
    BY <1>1, FS_EmptySet
<1> QED
    BY <1>1, <1>2, <1>3 DEF NamesInv, UploadNamesWithin

LEMMA AssetTypes == AssetInv /\ NamesInv => AssetTypeOK
<1> SUFFICES ASSUME AssetTyped, NamesInv PROVE AssetTypeOK
    BY DEF AssetInv
<1>1. DOMAIN files \subseteq (1 .. Cardinality(Begun)) \X (0 .. Cardinality(Begun))
  <2> SUFFICES ASSUME NEW f \in DOMAIN files
               PROVE  f \in (1 .. Cardinality(Begun)) \X (0 .. Cardinality(Begun))
      OBVIOUS
  <2>1. f \in Nat \X Nat /\ NamesWithin(f, Cardinality(Begun))
      BY DEF AssetTyped, FileName, NamesInv
  <2> QED
      BY <2>1 DEF NamesWithin
<1>2. \A u \in Uploads : asset[u].row \in {"none", "saved", "live", "removed", "gone"}
    BY DEF AssetTyped, AssetType
<1>3. ASSUME NEW d \in Deletions
      PROVE  /\ deletion[d].at \in {"idle", "loaded", "source", "preview", "ends"}
             /\ deletion[d].at # "idle" => deletion[d].of \in Uploads
  <2>1. CASE deletion[d].at = "idle"
      BY <2>1
  <2>2. CASE deletion[d].at # "idle"
      BY <2>2, DeletionOfUpload
  <2> QED
      BY <2>1, <2>2
<1> QED
    BY <1>1, <1>2, <1>3 DEF AssetTyped, AssetTypeOK, NamesInv

\* generateUniqueName: names are made again when files are deleted, and whatever
\* uploads and deletions overlap, no more names than there were uploads.
THEOREM NamesAreUsedAgain == AssetSpec => []AssetTypeOK
<1>1. AssetInit => DeletedAreOver
    BY DEF AssetInit, DeletedAreOver, NoDeletion
<1>2. AssetInv => AssetTyped
    BY DEF AssetInv
<1> QED
    BY <1>1, <1>2, InitAsset, AssetStep, OverStep, InitNames, NamesStep, AssetTypes, PTL
       DEF AssetSpec

-----------------------------------------------------------------------------
(***************************************************************************)
(* The SuperAdmin roles that are granted, asked for and read are rows, and *)
(* whoever has no user yet has nothing else either.                        *)
(***************************************************************************)
StartIsOnUser(p) == starting[p].at \in OnSome => IsUser(starting[p].on)

RolesAreRows ==
    /\ superRoles \subseteq 1 .. MaxSuperRoles
    /\ \A a \in Admins : /\ admin[a].roles \subseteq superRoles
                         /\ admin[a].user = "none" => admin[a] = Blank
    /\ \A r \in AdminRequests : calling[r].want \subseteq superRoles
    /\ \A p \in Processes : starting[p].seen \subseteq superRoles /\ StartIsOnUser(p)

\* What has to be shown of a step: of the rows it changes only.
LEMMA RolesStay ==
    ASSUME AdminTyped, RolesAreRows,
           superRoles \subseteq superRoles', superRoles' \subseteq 1 .. MaxSuperRoles,
           \A a \in Admins : \/ admin'[a] = admin[a]
                             \/ IsUser(a)' /\ admin'[a].roles \subseteq superRoles',
           \A r \in AdminRequests : \/ calling'[r] = calling[r]
                                    \/ calling'[r].want \subseteq superRoles',
           \A p \in Processes : \/ starting'[p] = starting[p]
                                \/ starting'[p].seen \subseteq superRoles' /\ StartIsOnUser(p)'
    PROVE  RolesAreRows'
<1>1. ASSUME NEW a \in Admins
      PROVE  /\ admin'[a].roles \subseteq superRoles'
             /\ admin'[a].user = "none" => admin'[a] = Blank
    BY DEF RolesAreRows, IsUser
<1>2. \A r \in AdminRequests : calling'[r].want \subseteq superRoles'
    BY DEF RolesAreRows
<1>3. ASSUME NEW p \in Processes PROVE starting'[p].seen \subseteq superRoles' /\ StartIsOnUser(p)'
  <2>1. CASE starting'[p] = starting[p]
    <3>1. starting[p].at \in OnSome => starting[p].on \in Admins
        BY DEF AdminTyped
    <3>2. \A a \in Admins : IsUser(a) => IsUser(a)'
        BY DEF IsUser
    <3> QED
        BY <2>1, <3>1, <3>2 DEF RolesAreRows, StartIsOnUser
  <2> QED
      BY <2>1
<1> QED
    BY <1>1, <1>2, <1>3 DEF RolesAreRows

\* A step of a start.
LEMMA StartKeepsRoles ==
    ASSUME AdminTyped, RolesAreRows, ConfiguredIsUser, NEW p \in Processes,
           \/ Launch(p) \/ EnsureSuperAdminRole(p) \/ CreateSuperAdminRole(p)
           \/ FindSuperAdminUser(p) \/ NewSuperAdminUser(p) \/ ReviveUser(p)
           \/ EnsureAdministrator(p) \/ LoadNewAdministrator(p) \/ EnsureRole(p)
           \/ StartFails(p)
    PROVE  RolesAreRows'
<1>1. \A s : starting' = [starting EXCEPT ![p] = s] =>
                /\ starting'[p] = s
                /\ \A q \in Processes \ {p} : starting'[q] = starting[q]
    BY DEF AdminTyped
<1>2. PICK s : starting' = [starting EXCEPT ![p] = s]
  <2>1. \A at : starting' = [starting EXCEPT ![p].at = at]
                => starting' = [starting EXCEPT ![p] = [@ EXCEPT !.at = at]]
      OBVIOUS
  <2>2. LoadNewAdministrator(p) => \E s : starting' = [starting EXCEPT ![p] = s]
      BY DEF LoadNewAdministrator, AdminTyped
  <2>3. EnsureAdministrator(p) => \E s : starting' = [starting EXCEPT ![p] = s]
      BY DEF EnsureAdministrator, AdminTyped
  <2>4. EnsureSuperAdminRole(p) => \E s : starting' = [starting EXCEPT ![p] = s]
      BY <2>1 DEF EnsureSuperAdminRole
  <2>5. FindSuperAdminUser(p) => \E s : starting' = [starting EXCEPT ![p] = s]
      BY DEF FindSuperAdminUser
  <2>6. NewSuperAdminUser(p) => \E s : starting' = [starting EXCEPT ![p] = s]
      BY DEF NewSuperAdminUser
  <2> QED
      BY <2>1, <2>2, <2>3, <2>4, <2>5, <2>6
         DEF Launch, CreateSuperAdminRole, ReviveUser, EnsureRole, StartFails
<1>3. starting'[p] = s /\ \A q \in Processes \ {p} : starting'[q] = starting[q]
    BY <1>1, <1>2
<1>4. UNCHANGED calling
    BY DEF Launch, EnsureSuperAdminRole, CreateSuperAdminRole, FindSuperAdminUser,
           NewSuperAdminUser, ReviveUser, EnsureAdministrator, LoadNewAdministrator, EnsureRole,
           StartFails
<1>5. starting[p] \in StartType /\ starting[p].seen \subseteq superRoles /\ StartIsOnUser(p)
    BY DEF AdminTyped, RolesAreRows
<1>6. superRoles \subseteq superRoles' /\ superRoles' \subseteq 1 .. MaxSuperRoles
  <2>1. CASE CreateSuperAdminRole(p)
    <3>1. Cardinality(superRoles) \in Nat /\ Cardinality(superRoles) < MaxSuperRoles
        BY <2>1, FS_CardinalityType DEF CreateSuperAdminRole, AdminTyped
    <3>2. superRoles' = superRoles \cup {Cardinality(superRoles) + 1}
        BY <2>1 DEF CreateSuperAdminRole
    <3>3. Cardinality(superRoles) + 1 \in 1 .. MaxSuperRoles
        BY <3>1, AdministratorsAssumption
    <3> QED
        BY <3>2, <3>3 DEF RolesAreRows
  <2>2. CASE UNCHANGED superRoles
      BY <2>2 DEF RolesAreRows
  <2> QED
      BY <2>1, <2>2 DEF Launch, EnsureSuperAdminRole, FindSuperAdminUser, NewSuperAdminUser,
             ReviveUser, EnsureAdministrator, LoadNewAdministrator, EnsureRole, StartFails
<1>7. CASE s.at \notin OnSome /\ UNCHANGED admin /\ s.seen \subseteq superRoles
    BY <1>3, <1>4, <1>6, <1>7, RolesStay DEF StartIsOnUser
<1>8. CASE Launch(p) \/ EnsureSuperAdminRole(p) \/ CreateSuperAdminRole(p)
  <2>1. PICK at \in {"role", "no role", "user", "off"} : starting' = [starting EXCEPT ![p].at = at]
      BY <1>8 DEF Launch, EnsureSuperAdminRole, CreateSuperAdminRole, WithRoles
  <2>2. s.at = at /\ s.seen = starting[p].seen
      BY <1>3, <1>5, <2>1 DEF AdminTyped, StartType
  <2>3. UNCHANGED admin
      BY <1>8 DEF Launch, EnsureSuperAdminRole, CreateSuperAdminRole
  <2> QED
      BY <1>5, <1>7, <2>1, <2>2, <2>3 DEF OnSome
<1>9. CASE FindSuperAdminUser(p)
  <2>1. UNCHANGED admin
      BY <1>9 DEF FindSuperAdminUser
  <2>2. CASE configured = NoAdmin
    <3>1. starting' = [starting EXCEPT ![p].at = "new user"]
        BY <1>9, <2>2 DEF FindSuperAdminUser
    <3>2. s.at = "new user" /\ s.seen = starting[p].seen
        BY <1>3, <1>5, <3>1 DEF AdminTyped, StartType
    <3> QED
        BY <1>5, <1>7, <2>1, <3>2 DEF OnSome
  <2>3. CASE configured # NoAdmin
    <3>1. configured \in Admins /\ IsUser(configured) /\ admin[configured].roles \subseteq superRoles
        BY <2>3 DEF ConfiguredIsUser, RolesAreRows
    <3>2. starting'[p].on = configured /\ starting'[p].seen = admin[configured].roles
        BY <1>9, <2>3 DEF FindSuperAdminUser, AdminTyped
    <3> QED
        BY <1>3, <1>4, <1>6, <2>1, <3>1, <3>2, RolesStay DEF StartIsOnUser, IsUser
  <2> QED
      BY <2>2, <2>3
<1>10. CASE NewSuperAdminUser(p)
  <2>1. PICK a \in Admins : /\ admin[a] = Blank /\ admin' = [admin EXCEPT ![a].user = "live"]
                            /\ starting'[p] = [at |-> "new row", on |-> a, seen |-> {}]
      BY <1>10 DEF NewSuperAdminUser, AdminTyped
  <2>2. /\ admin'[a].user = "live" /\ admin'[a].roles = admin[a].roles
        /\ \A b \in Admins \ {a} : admin'[b] = admin[b]
      BY <2>1 DEF AdminTyped, AdminType
  <2>3. admin[a].roles = {}
    <3>1. admin[a] = Blank
        BY <2>1
    <3>2. Blank.roles = {}
        BY DEF Blank
    <3> QED
        BY <3>1, <3>2
  <2>4. starting'[p].on = a /\ starting'[p].seen = {}
    <3>1. PICK new : new = [at |-> "new row", on |-> a, seen |-> {}]
        OBVIOUS
    <3>2. new.on = a /\ new.seen = {}
        BY <3>1
    <3>3. starting'[p] = new
        BY <2>1, <3>1
    <3> QED
        BY <3>2, <3>3
  <2>5. IsUser(a)' /\ admin'[a].roles \subseteq superRoles'
      BY <2>2, <2>3 DEF IsUser
  <2>6. StartIsOnUser(p)' /\ starting'[p].seen \subseteq superRoles'
      BY <2>4, <2>5 DEF StartIsOnUser
  <2> QED
      BY <1>3, <1>4, <1>6, <2>2, <2>5, <2>6, RolesStay
<1>11. CASE ReviveUser(p)
  <2>1. /\ starting[p].at = "revive" /\ SaveSuperAdminUser(p, starting[p].seen)
        /\ starting' = [starting EXCEPT ![p].at = "row"]
      BY <1>11 DEF ReviveUser
  <2>2. starting'[p].on = starting[p].on /\ starting'[p].seen = starting[p].seen
      BY <1>5, <2>1 DEF AdminTyped, StartType
  <2>3. starting[p].on \in Admins
      BY <2>1 DEF AdminTyped, OnSome
  <2>4. /\ admin'[starting[p].on].user = "live" /\ admin'[starting[p].on].roles = starting[p].seen
        /\ \A b \in Admins \ {starting[p].on} : admin'[b] = admin[b]
      BY <2>1, <2>3 DEF SaveSuperAdminUser, AdminTyped, AdminType
  <2> QED
      BY <1>3, <1>4, <1>5, <1>6, <2>2, <2>3, <2>4, RolesStay DEF StartIsOnUser, IsUser
<1>12. CASE EnsureAdministrator(p)
  <2>1. PICK at \in {"own role", "first role"} :
           /\ starting[p].at \in {"row", "new row"}
           /\ admin' = [admin EXCEPT ![starting[p].on].row = "live"]
           /\ starting' = [starting EXCEPT ![p].at = at]
      BY <1>12 DEF EnsureAdministrator
  <2>2. starting'[p].on = starting[p].on /\ starting'[p].seen = starting[p].seen
      BY <1>5, <2>1 DEF AdminTyped, StartType
  <2>3. starting[p].on \in Admins /\ IsUser(starting[p].on)
      BY <1>5, <2>1 DEF AdminTyped, OnSome, StartIsOnUser
  <2>4. /\ admin'[starting[p].on].user = admin[starting[p].on].user
        /\ admin'[starting[p].on].roles = admin[starting[p].on].roles
        /\ \A b \in Admins \ {starting[p].on} : admin'[b] = admin[b]
      BY <2>1, <2>3 DEF AdminTyped, AdminType
  <2>5. admin[starting[p].on].roles \subseteq superRoles
      BY <2>3 DEF RolesAreRows
  <2> QED
      BY <1>3, <1>4, <1>5, <1>6, <2>2, <2>3, <2>4, <2>5, RolesStay DEF StartIsOnUser, IsUser
<1>13. CASE LoadNewAdministrator(p)
  <2>1. /\ starting[p].at = "first role" /\ UNCHANGED admin
        /\ starting' = [starting EXCEPT ![p].at = "own role",
                                        ![p].seen = admin[starting[p].on].roles]
      BY <1>13 DEF LoadNewAdministrator
  <2>2. starting'[p].on = starting[p].on /\ starting'[p].seen = admin[starting[p].on].roles
      BY <1>5, <2>1 DEF AdminTyped, StartType
  <2>3. starting[p].on \in Admins /\ IsUser(starting[p].on)
      BY <1>5, <2>1 DEF AdminTyped, OnSome, StartIsOnUser
  <2>4. admin[starting[p].on].roles \subseteq superRoles
      BY <2>3 DEF RolesAreRows
  <2> QED
      BY <1>3, <1>4, <1>6, <2>1, <2>2, <2>3, <2>4, RolesStay DEF StartIsOnUser, IsUser
<1>14. CASE EnsureRole(p)
  <2>1. starting[p].at = "own role" /\ starting'[p] = NotStarting
      BY <1>1, <1>14 DEF EnsureRole
  <2>2. s.at \notin OnSome /\ s.seen \subseteq superRoles
    <3>1. s = NotStarting
        BY <1>3, <2>1
    <3>2. NotStarting.at = "off" /\ NotStarting.seen = {}
        BY DEF NotStarting
    <3> QED
        BY <3>1, <3>2 DEF OnSome
  <2>3. CASE UNCHANGED admin
      BY <1>7, <2>2, <2>3
  <2>4. ASSUME NEW role \in superRoles, SaveSuperAdminUser(p, starting[p].seen \cup {role})
        PROVE  RolesAreRows'
    <3>1. starting[p].on \in Admins
        BY <2>1 DEF AdminTyped, OnSome
    <3>2. /\ admin'[starting[p].on].user = "live"
          /\ admin'[starting[p].on].roles = starting[p].seen \cup {role}
          /\ \A b \in Admins \ {starting[p].on} : admin'[b] = admin[b]
        BY <2>4, <3>1 DEF SaveSuperAdminUser, AdminTyped, AdminType
    <3>3. admin'[starting[p].on].roles \subseteq superRoles
        BY <1>5, <3>2
    <3> QED
        BY <1>3, <1>4, <1>6, <2>2, <3>2, <3>3, RolesStay DEF StartIsOnUser, IsUser
  <2> QED
      BY <1>14, <2>3, <2>4 DEF EnsureRole, Missing
<1>15. CASE StartFails(p)
  <2>1. starting'[p] = NotStarting /\ UNCHANGED admin
      BY <1>1, <1>15 DEF StartFails
  <2> QED
      BY <1>3, <1>7, <2>1 DEF NotStarting, OnSome
<1> QED
    BY <1>8, <1>9, <1>10, <1>11, <1>12, <1>13, <1>14, <1>15

\* A request that begins, or goes on, and asks for rows.
LEMMA RequestKeepsRoles ==
    ASSUME AdminTyped, RolesAreRows, NEW r \in AdminRequests, NEW want \in SUBSET superRoles,
           NEW c, c.want = want, calling' = [calling EXCEPT ![r] = c],
           UNCHANGED <<superRoles, admin, starting>>
    PROVE  RolesAreRows'
<1>1. calling'[r] = c /\ \A q \in AdminRequests \ {r} : calling'[q] = calling[q]
    BY DEF AdminTyped
<1>2. superRoles \subseteq superRoles' /\ superRoles' \subseteq 1 .. MaxSuperRoles
    BY DEF RolesAreRows
<1> QED
    BY <1>1, <1>2, RolesStay

LEMMA CommitKeepsRoles ==
    ASSUME AdminTyped, RolesAreRows, CallsAreOnUsers, NEW r \in AdminRequests, CommitCall(r)
    PROVE  RolesAreRows'
<1>1. PICK c : c = calling[r]
    OBVIOUS
<1>2. c \in CallType /\ c.at = "saved" /\ c.want \subseteq superRoles /\ CallIsOnUsers(r)
    BY <1>1 DEF CommitCall, AdminTyped, RolesAreRows, CallsAreOnUsers
<1>3. /\ calling'[r] = NotCalling /\ \A q \in AdminRequests \ {r} : calling'[q] = calling[q]
      /\ UNCHANGED <<superRoles, starting>>
    BY DEF CommitCall, AdminTyped
<1>4. superRoles' \subseteq 1 .. MaxSuperRoles /\ calling'[r].want \subseteq superRoles'
    BY <1>3 DEF RolesAreRows, NotCalling
<1>5. CASE CommitDelete(r)
  <2>1. ASSUME NEW a \in Admins
        PROVE  \/ admin'[a] = admin[a]
               \/ IsUser(a)' /\ admin'[a].roles \subseteq superRoles'
    <3>1. CASE a \notin c.on
        BY <1>1, <1>5, <2>1, <3>1 DEF CommitDelete
    <3>2. CASE a \in c.on
      <4>1. admin'[a].user = "gone" /\ admin'[a].roles = admin[a].roles
          BY <1>1, <1>5, <2>1, <3>2 DEF CommitDelete, AdminTyped, AdminType
      <4> QED
          BY <1>3, <4>1 DEF IsUser, RolesAreRows
    <3> QED
        BY <3>1, <3>2
  <2> QED
      BY <1>3, <1>4, <2>1, RolesStay
<1>6. CASE CommitSave(r)
  <2>1. PICK a \in c.on :
           admin' = [admin EXCEPT
              ![a] = [row |-> IF "row" \in c.revives THEN "live" ELSE @.row,
                      user |-> IF "user" \in c.revives THEN "live" ELSE @.user,
                      roles |-> (@.roles \ c.drop) \cup c.want]]
      BY <1>1, <1>6 DEF CommitSave
  <2>2. a \in Admins /\ admin[a].roles \subseteq superRoles
      BY <1>2 DEF CallType, RolesAreRows
  <2>3. /\ admin'[a].user = IF "user" \in c.revives THEN "live" ELSE admin[a].user
        /\ admin'[a].roles = (admin[a].roles \ c.drop) \cup c.want
        /\ \A b \in Admins \ {a} : admin'[b] = admin[b]
      BY <2>1, <2>2 DEF AdminTyped
  <2>4. IsUser(a)'
    <3>1. "user" \notin c.revives => IsUser(a)
        BY <1>1, <1>2 DEF CallIsOnUsers
    <3> QED
        BY <2>3, <3>1 DEF IsUser
  <2>5. admin'[a].roles \subseteq superRoles'
      BY <1>2, <1>3, <2>2, <2>3
  <2> QED
      BY <1>3, <1>4, <2>3, <2>4, <2>5, RolesStay
<1> QED
    BY <1>5, <1>6 DEF CommitCall

LEMMA RolesStep == AdminInv /\ RolesAreRows /\ [AdminsNext]_adminVars => RolesAreRows'
<1> SUFFICES ASSUME AdminInv, RolesAreRows, [AdminsNext]_adminVars PROVE RolesAreRows'
    OBVIOUS
<1>1. AdminTyped /\ ConfiguredIsUser /\ CallsAreOnUsers
    BY DEF AdminInv
<1>2. ASSUME NEW r \in AdminRequests, NEW c, Call(r, c), c.want \subseteq superRoles
      PROVE  RolesAreRows'
    BY <1>1, <1>2, RequestKeepsRoles DEF Call
<1>3. Grantable \subseteq SUBSET superRoles
    BY DEF Grantable
<1>4. ASSUME NEW r \in AdminRequests, CreateAdministrator(r) PROVE RolesAreRows'
  <2>1. PICK a \in Admins, roles \in Grantable, named \in {"other", "configured"} :
           Call(r, [NotCalling EXCEPT !.at = "saved", !.kind = "create", !.on = {a},
                                      !.want = roles, !.revives = {"row", "user"},
                                      !.named = named])
      BY <1>4 DEF CreateAdministrator
  <2> QED
      BY <1>2, <1>3, <2>1 DEF NotCalling
<1>5. ASSUME NEW r \in AdminRequests, UpdateAdministrator(r) PROVE RolesAreRows'
  <2>1. PICK a \in LiveAdmins, named \in {"keep", "other", "configured"} :
       \/ \E roles \in Grantable :
             Call(r, [NotCalling EXCEPT !.at = "loaded", !.kind = "update", !.on = {a},
                                        !.want = roles, !.named = named])
       \/ Call(r, [NotCalling EXCEPT !.at = "loaded", !.on = {a}, !.want = admin[a].roles,
                       !.kind = IF named = "keep" THEN "patch" ELSE "update", !.named = named])
      BY <1>5 DEF UpdateAdministrator
  <2>2. admin[a].roles \subseteq superRoles
      BY DEF LiveAdmins, RolesAreRows
  <2>3. CASE \E roles \in Grantable :
                Call(r, [NotCalling EXCEPT !.at = "loaded", !.kind = "update", !.on = {a},
                                           !.want = roles, !.named = named])
      BY <1>2, <1>3, <2>3 DEF NotCalling
  <2>4. CASE Call(r, [NotCalling EXCEPT !.at = "loaded", !.on = {a}, !.want = admin[a].roles,
                         !.kind = IF named = "keep" THEN "patch" ELSE "update", !.named = named])
      BY <1>2, <2>2, <2>4 DEF NotCalling
  <2> QED
      BY <2>1, <2>3, <2>4
<1>6. ASSUME NEW r \in AdminRequests, AssignRole(r) PROVE RolesAreRows'
  <2>1. PICK a \in LiveAdmins, roles \in Grantable :
           Call(r, [NotCalling EXCEPT !.at = "row saved", !.kind = "assign", !.on = {a},
                                      !.want = admin[a].roles \cup roles])
      BY <1>6 DEF AssignRole
  <2>2. admin[a].roles \cup roles \subseteq superRoles
      BY <1>3 DEF LiveAdmins, RolesAreRows
  <2> QED
      BY <1>2, <2>1, <2>2 DEF NotCalling
<1>7. ASSUME NEW r \in AdminRequests, SoftDelete(r) PROVE RolesAreRows'
  <2>1. PICK S : Call(r, [NotCalling EXCEPT !.at = "saved", !.kind = "delete", !.on = S])
      BY <1>7 DEF SoftDelete
  <2> QED
      BY <1>2, <2>1 DEF NotCalling
<1>8. ASSUME NEW r \in AdminRequests,
             SaveAdministrator(r) \/ SaveUserOfAdministrator(r) \/ CallRejected(r)
      PROVE  RolesAreRows'
  <2>1. calling[r] \in CallType /\ calling[r].want \subseteq superRoles
      BY <1>1 DEF AdminTyped, RolesAreRows
  <2>2. calling'[r].want \subseteq superRoles
    <3>1. CASE SaveAdministrator(r)
      <4>1. PICK a, want :
               /\ calling' = [calling EXCEPT
                    ![r].at = IF calling[r].kind = "patch" THEN "saved" ELSE "row saved",
                    ![r].want = want,
                    ![r].revives = IF admin[a].row = "gone" THEN {"row"} ELSE {}]
               /\ want = IF calling[r].kind = "patch" THEN {} ELSE calling[r].want
        <5>1. PICK a \in calling[r].on :
                 calling' = [calling EXCEPT
                    ![r].at = IF calling[r].kind = "patch" THEN "saved" ELSE "row saved",
                    ![r].want = IF calling[r].kind = "patch" THEN {} ELSE calling[r].want,
                    ![r].revives = IF admin[a].row = "gone" THEN {"row"} ELSE {}]
            BY <3>1 DEF SaveAdministrator
        <5> QED
            BY <5>1
      <4>2. calling'[r].want = want
          BY <1>1, <2>1, <4>1 DEF AdminTyped, CallType
      <4>3. CASE calling[r].kind = "patch"
        <5>1. want = {}
            BY <4>1, <4>3
        <5> QED
            BY <4>2, <5>1
      <4>4. CASE calling[r].kind # "patch"
        <5>1. want = calling[r].want
            BY <4>1, <4>4
        <5> QED
            BY <2>1, <4>2, <5>1
      <4> QED
          BY <4>3, <4>4
    <3>2. CASE SaveUserOfAdministrator(r)
      <4>1. PICK a \in calling[r].on :
               calling' = [calling EXCEPT
                  ![r].at = "saved",
                  ![r].revives = calling[r].revives
                                    \cup (IF admin[a].user = "gone" THEN {"user"} ELSE {}),
                  ![r].drop = admin[a].roles \ calling[r].want,
                  ![r].want = calling[r].want \ admin[a].roles]
          BY <3>2 DEF SaveUserOfAdministrator
      <4>2. calling'[r].want = calling[r].want \ admin[a].roles
          BY <1>1, <2>1, <4>1 DEF AdminTyped, CallType
      <4>3. \A want, roles : want \subseteq superRoles => want \ roles \subseteq superRoles
          OBVIOUS
      <4> QED
          BY <2>1, <4>2, <4>3
    <3>3. CASE CallRejected(r)
        BY <1>1, <3>3 DEF CallRejected, AdminTyped, NotCalling
    <3> QED
        BY <1>8, <3>1, <3>2, <3>3
  <2>3. /\ UNCHANGED <<superRoles, admin, starting>>
        /\ \A q \in AdminRequests \ {r} : calling'[q] = calling[q]
      BY <1>1, <1>8 DEF SaveAdministrator, SaveUserOfAdministrator, CallRejected, AdminTyped
  <2>4. superRoles' \subseteq 1 .. MaxSuperRoles
      BY <2>3 DEF RolesAreRows
  <2> QED
      BY <1>1, <2>2, <2>3, <2>4, RolesStay
<1>9. CASE UNCHANGED adminVars
    BY <1>9 DEF adminVars, RolesAreRows, StartIsOnUser, IsUser
<1> QED
    BY <1>1, <1>4, <1>5, <1>6, <1>7, <1>8, <1>9, StartKeepsRoles, CommitKeepsRoles DEF AdminsNext

LEMMA InitRoles == AdminsInit => RolesAreRows
<1> SUFFICES ASSUME AdminsInit PROVE RolesAreRows
    OBVIOUS
<1>1. \A a \in Admins : admin[a] = Blank /\ admin[a].roles = {}
    BY DEF AdminsInit, Blank
<1>2. \A r \in AdminRequests : calling[r].want = {}
    BY DEF AdminsInit, NotCalling
<1>3. \A p \in Processes : starting[p].at = "off" /\ starting[p].seen = {}
    BY DEF AdminsInit, NotStarting
<1>4. superRoles = {}
    BY DEF AdminsInit
<1> QED
    BY <1>1, <1>2, <1>3, <1>4 DEF RolesAreRows, StartIsOnUser, OnSome

LEMMA AdminTypes == AdminInv /\ RolesAreRows => AdminsTypeOK
<1> SUFFICES ASSUME AdminTyped, RolesAreRows PROVE AdminsTypeOK
    BY DEF AdminInv
<1>1. \A a \in Admins : {admin[a].row, admin[a].user} \subseteq {"none", "live", "gone"}
    BY DEF AdminTyped, AdminType, Standing
<1>2. \A r \in AdminRequests : /\ calling[r].at \in {"idle", "loaded", "row saved", "saved"}
                               /\ calling[r].on \subseteq Admins
    BY DEF AdminTyped, CallType
<1>3. \A p \in Processes : starting[p].at \in {"off", "role", "no role", "user", "new user",
                                "new row", "first role", "revive", "row", "own role"}
    BY DEF AdminTyped, StartType
<1> QED
    BY <1>1, <1>2, <1>3 DEF AdminTyped, AdminsTypeOK, RolesAreRows

\* Whatever is granted of the SuperAdmin role is one of its rows.
LEMMA AdminTypeInvariance == AdminSpec => []AdminsTypeOK
BY InitAdmins, AdminStep, InitRoles, RolesStep, AdminTypes, PTL DEF AdminSpec

-----------------------------------------------------------------------------
(***************************************************************************)
(* The services together: what one does leaves the others alone, so that a *)
(* behaviour of all of them is one of each.                                *)
(***************************************************************************)
LEMMA ServicesStep ==
    [Next]_<<servicesVars, moving>> =>
       /\ [LedgerNext]_ledgerVars /\ [AccountsNext]_accountVars /\ [TreeNext]_treeVars
       /\ [AssetNext]_assetVars /\ [CacheNext]_cacheVars /\ [HandlersNext]_handlerVars
       /\ [AdminsNext]_adminVars
BY DEF Next, servicesVars

\* What is proved of the services one at a time holds of them together.
THEOREM ServicesAreIndependent ==
    Spec => /\ LedgerSpec /\ AccountsSpec /\ TreeSpec /\ AssetSpec
            /\ CacheSpec /\ HandlersSpec /\ AdminSpec
<1>1. Init => /\ LedgerInit /\ AccountsInit /\ TreeInit /\ AssetInit
              /\ CacheInit /\ HandlersInit /\ AdminsInit
    BY DEF Init
<1> QED
    BY <1>1, ServicesStep, PTL DEF Spec, LedgerSpec, AccountsSpec, TreeSpec, AssetSpec,
                                   CacheSpec, HandlersSpec, AdminSpec

\* Every variable of the ledger, the accounts, the collections, the assets, the
\* caches, the handlers of the event bus and the administrators has its type, for
\* any number of requests that overlap.
THEOREM ServicesTypeCorrect == Spec => []TypeOK
<1>1. CacheInv => CacheTypeOK
    BY DEF CacheInv, CacheTyped
<1>2. CacheSpec => []CacheTypeOK
    BY <1>1, InitCache, CacheStep, PTL DEF CacheSpec
<1> QED
    BY <1>2, ServicesAreIndependent, LedgerTypeCorrect, AccountsTypeInvariance,
       TreeTypeInvariance, NamesAreUsedAgain, HandlersTypeCorrect, AdminTypeInvariance, PTL
       DEF TypeOK
=============================================================================
