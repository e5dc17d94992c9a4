-------------------------- MODULE Services_proofs ---------------------------
(***************************************************************************)
(* The services with a store of their own: alert states, the news digest,  *)
(* the predictions of the 15-minute markets, the candles and the           *)
(* announcements, each for all values of its constants; and their          *)
(* composition, in which every part behaves as its own specification says. *)
(***************************************************************************)
EXTENDS MCServices, Dashboard_proofs, Positions_proofs, SequenceTheorems

-----------------------------------------------------------------------------
(* Alert states                                                            *)

Server(k) == IF Watched[k].kind = "scenario" THEN "orchestrator" ELSE "monitor"

\* The process that serves a key remembers at least as long as the key has to be
\* quiet, unless a restart took its memory.  The other process's copy, and the
\* file, may be older: nobody decides on them before a restart.
ServerRemembers ==
    \A k \in Keys : k \notin forgot => quiet[k] <= known[Server(k)][k].left

AlertInv == AlertTypeOK /\ ServerRemembers

-----------------------------------------------------------------------------
LEMMA CooldownIsNat == Cooldown \in Nat /\ Cooldown > 0
BY AlertAssumption DEF AlertAssumption

LEMMA ServerServes ==
    ASSUME NEW k \in Keys
    PROVE  /\ Server(k) \in Processes
           /\ \A p \in Processes : Serves(p, k) => p = Server(k)
           /\ Serves(Server(k), k)
<1>1. Watched[k].kind \in Kinds
  BY AlertAssumption DEF AlertAssumption
<1> QED
  BY <1>1 DEF Server, Serves, Processes, Kinds

LEMMA RecordFields ==
    ASSUME NEW r \in Record
    PROVE  r.state \in AlertStates /\ r.left \in Nat /\ r.left <= Cooldown
BY CooldownIsNat DEF Record

LEMMA RecordMade ==
    ASSUME NEW s \in AlertStates, NEW n \in 0..Cooldown
    PROVE  /\ [state |-> s, left |-> n] \in Record
           /\ [state |-> s, left |-> n].left = n
BY DEF Record

LEMMA StateIsState ==
    ASSUME NEW k \in Keys, NEW price
    PROVE  StateAt(k, price) \in AlertStates
<1>1. UpdateScenarioState(Watched[k], price) \in AlertStates
  BY DEF UpdateScenarioState, AlertStates
<1>2. DetectLevelState(Watched[k], price) \in AlertStates
  BY DEF DetectLevelState, AlertStates
<1> QED
  BY <1>1, <1>2 DEF StateAt

LEMMA AlertInvInit == AlertInit => AlertInv
<1> SUFFICES ASSUME AlertInit PROVE AlertInv
  OBVIOUS
<1>1. Blank \in [Keys -> Record] /\ \A k \in Keys : Blank[k].left = 0
  BY CooldownIsNat DEF Blank, NoRecord, Record, AlertStates
<1>2. AlertTypeOK
  BY <1>1, CooldownIsNat, AlertAssumption DEF AlertAssumption, AlertInit, AlertTypeOK
<1>3. ServerRemembers
  BY <1>1, ServerServes DEF AlertInit, ServerRemembers
<1> QED
  BY <1>2, <1>3 DEF AlertInv

\* A poll that alerts starts from a record whose cooldown is over.
LEMMA PollStep ==
    ASSUME AlertInv, NEW p \in Processes, NEW k \in Keys, NEW price, Poll(p, k, price)
    PROVE  /\ AlertInv'
           /\ \A j \in Keys : quiet'[j] > quiet[j] => quiet[j] = 0 \/ j \in forgot
<1> DEFINE state == StateAt(k, price)
           alert == ShouldAlert(p, k, state)
           left == IF alert THEN CooldownOf(k) ELSE known[p][k].left
           record == [state |-> state, left |-> left]
           copy == [known[p] EXCEPT ![k] = record]
           loud == alert /\ state \in Announced
<1>1. /\ known \in [Processes -> [Keys -> Record]] /\ quiet \in [Keys -> 0..Cooldown]
      /\ onDisk \in [Keys -> Record]
  BY DEF AlertInv, AlertTypeOK
<1>2. /\ known' = [known EXCEPT ![p] = copy] /\ Save(copy)
      /\ quiet' = [quiet EXCEPT ![k] = IF loud THEN CooldownOf(k) ELSE quiet[k]]
      /\ UNCHANGED <<forgot, restarts>> /\ p = Server(k)
  BY ServerServes DEF Poll
<1>3. CooldownOf(k) \in 0..Cooldown
  BY CooldownIsNat DEF CooldownOf
<1>4. left \in 0..Cooldown /\ known[p][k] \in Record /\ known[p][k].left \in Nat
  BY <1>1, <1>3, RecordFields, CooldownIsNat
<1>5. record \in Record /\ record.left = left
  <2> HIDE DEF left, state
  <2>1. state \in AlertStates
    BY StateIsState DEF state
  <2> QED
    BY <1>4, <2>1, RecordMade
<1>6. alert => known[p][k].left = 0
  BY DEF ShouldAlert
<1>7. left = (IF alert THEN CooldownOf(k) ELSE known[p][k].left)
  OBVIOUS
<1>8. loud => alert
  OBVIOUS
<1> HIDE DEF record, left, alert, loud, state
<1>9. copy \in [Keys -> Record] /\ copy[k] = record /\ \A j \in Keys \ {k} : copy[j] = known[p][j]
  BY <1>1, <1>5
<1> HIDE DEF copy
<1>10. /\ known' \in [Processes -> [Keys -> Record]] /\ known'[p] = copy
       /\ \A q \in Processes \ {p} : known'[q] = known[q]
  BY <1>1, <1>2, <1>9
<1>11. /\ quiet' \in [Keys -> 0..Cooldown]
       /\ quiet'[k] = IF loud THEN CooldownOf(k) ELSE quiet[k]
       /\ \A j \in Keys \ {k} : quiet'[j] = quiet[j]
  BY <1>1, <1>2, <1>3
<1>12. onDisk' \in [Keys -> Record] /\ lostSaves' \in 0..MaxLostSaves
  BY <1>1, <1>2, <1>9, AlertAssumption DEF Save, AlertAssumption, AlertInv, AlertTypeOK
<1>13. AlertTypeOK'
  BY <1>2, <1>10, <1>11, <1>12 DEF AlertInv, AlertTypeOK
<1>14. k \notin forgot => quiet[k] \in Nat /\ quiet[k] <= known[p][k].left
  BY <1>1, <1>2, CooldownIsNat DEF AlertInv, ServerRemembers
<1>15. ServerRemembers'
  <2> SUFFICES ASSUME NEW j \in Keys, j \notin forgot
               PROVE  quiet'[j] <= known'[Server(j)][j].left
    BY <1>2 DEF ServerRemembers
  <2>1. CASE j = k
    <3>1. known'[Server(j)][j].left = left /\ CooldownOf(k) \in Nat
      BY <1>2, <1>3, <1>5, <1>9, <1>10, <2>1
    <3>2. quiet[k] <= known[p][k].left /\ quiet[k] \in Nat
      BY <1>14, <2>1
    <3> QED
      BY <1>4, <1>6, <1>7, <1>8, <1>11, <2>1, <3>1, <3>2
  <2>2. CASE j # k
    <3>1. known'[Server(j)][j] = known[Server(j)][j]
      BY <1>9, <1>10, <2>2, ServerServes
    <3> QED
      BY <1>11, <2>2, <3>1 DEF AlertInv, ServerRemembers
  <2> QED
    BY <2>1, <2>2
<1>16. ASSUME NEW j \in Keys, quiet'[j] > quiet[j]
       PROVE  quiet[j] = 0 \/ j \in forgot
  <2>1. CASE j = k
    <3>1. alert
      BY <1>1, <1>8, <1>11, <1>16, <2>1
    <3> QED
      BY <1>6, <1>14, <2>1, <3>1
  <2>2. CASE j # k
    BY <1>1, <1>11, <1>16, <2>2
  <2> QED
    BY <2>1, <2>2
<1> QED
  BY <1>13, <1>15, <1>16 DEF AlertInv

\* A process that comes back with a record older than the one it had is said to
\* have forgotten the key.
LEMMA RestartStep ==
    ASSUME AlertInv, NEW p \in Processes, Restart(p)
    PROVE  AlertInv'
<1>1. /\ known \in [Processes -> [Keys -> Record]] /\ onDisk \in [Keys -> Record]
      /\ UNCHANGED quiet
  BY DEF AlertInv, AlertTypeOK, Restart
<1>2. Blank \in [Keys -> Record]
  BY CooldownIsNat DEF Blank, NoRecord, Record, AlertStates
<1>3. onDisk' \in [Keys -> Record] /\ known' = [known EXCEPT ![p] = onDisk']
  BY <1>1, <1>2 DEF Restart
<1>4. /\ known' \in [Processes -> [Keys -> Record]] /\ known'[p] = onDisk'
      /\ \A q \in Processes \ {p} : known'[q] = known[q]
  BY <1>1, <1>3
<1>5. lostSaves' \in 0..MaxLostSaves /\ restarts' \in 0..MaxRestarts
  BY AlertAssumption DEF AlertAssumption, Restart, AlertInv, AlertTypeOK
<1>6. forgot' = forgot \cup {k \in Keys : Serves(p, k) /\ onDisk'[k] # known[p][k]}
  BY DEF Restart
<1>7. AlertTypeOK'
  BY <1>1, <1>3, <1>4, <1>5, <1>6 DEF AlertInv, AlertTypeOK
<1>8. ServerRemembers'
  <2> SUFFICES ASSUME NEW k \in Keys, k \notin forgot'
               PROVE  quiet'[k] <= known'[Server(k)][k].left
    BY DEF ServerRemembers
  <2>1. quiet[k] <= known[Server(k)][k].left
    BY <1>6 DEF AlertInv, ServerRemembers
  <2>2. known'[Server(k)][k] = known[Server(k)][k]
    BY <1>4, <1>6, ServerServes
  <2> QED
    BY <1>1, <2>1, <2>2
<1> QED
  BY <1>7, <1>8 DEF AlertInv

LEMMA FewerOrder ==
    ASSUME NEW m \in Nat, NEW n \in Nat, m <= n
    PROVE  /\ Fewer(m) \in Nat /\ Fewer(n) \in Nat
           /\ Fewer(m) <= Fewer(n) /\ Fewer(m) <= m
BY DEF Fewer

LEMMA AgedRecords ==
    ASSUME NEW copy \in [Keys -> Record]
    PROVE  /\ Aged(copy) \in [Keys -> Record]
           /\ \A k \in Keys : Aged(copy)[k].left = Fewer(copy[k].left)
<1> SUFFICES ASSUME NEW k \in Keys
             PROVE  /\ [copy[k] EXCEPT !.left = Fewer(@)] \in Record
                    /\ [copy[k] EXCEPT !.left = Fewer(@)].left = Fewer(copy[k].left)
  BY DEF Aged
<1> DEFINE n == Fewer(copy[k].left)
<1>1. n \in 0..Cooldown
  BY RecordFields, CooldownIsNat DEF Fewer
<1> HIDE DEF n
<1>2. [copy[k] EXCEPT !.left = n] \in Record /\ [copy[k] EXCEPT !.left = n].left = n
  BY <1>1 DEF Record
<1> QED
  BY <1>2 DEF n

LEMMA TickStep ==
    ASSUME AlertInv, AlertTick
    PROVE  /\ AlertInv'
           /\ \A k \in Keys : ~(quiet'[k] > quiet[k])
<1>1. /\ known \in [Processes -> [Keys -> Record]] /\ onDisk \in [Keys -> Record]
      /\ quiet \in [Keys -> 0..Cooldown]
  BY DEF AlertInv, AlertTypeOK
<1>2. /\ known' = [p \in Processes |-> Aged(known[p])] /\ onDisk' = Aged(onDisk)
      /\ quiet' = [k \in Keys |-> Fewer(quiet[k])]
      /\ UNCHANGED <<forgot, lostSaves, restarts>>
  BY DEF AlertTick
<1>3. /\ known' \in [Processes -> [Keys -> Record]] /\ onDisk' \in [Keys -> Record]
      /\ \A p \in Processes, k \in Keys : known'[p][k].left = Fewer(known[p][k].left)
  BY <1>1, <1>2, AgedRecords
<1>4. ASSUME NEW k \in Keys
      PROVE  /\ quiet'[k] = Fewer(quiet[k]) /\ quiet'[k] \in 0..Cooldown
             /\ quiet'[k] <= quiet[k] /\ quiet[k] \in Nat
  <2>1. quiet[k] \in Nat /\ quiet[k] <= Cooldown
    BY <1>1, CooldownIsNat
  <2>2. Fewer(quiet[k]) \in Nat /\ Fewer(quiet[k]) <= quiet[k]
    BY <2>1, FewerOrder
  <2> QED
    BY <1>2, <2>1, <2>2, CooldownIsNat
<1>5. quiet' \in [Keys -> 0..Cooldown]
  BY <1>2, <1>4
<1>6. AlertTypeOK'
  BY <1>2, <1>3, <1>5 DEF AlertInv, AlertTypeOK
<1>7. ServerRemembers'
  <2> SUFFICES ASSUME NEW k \in Keys, k \notin forgot
               PROVE  quiet'[k] <= known'[Server(k)][k].left
    BY <1>2 DEF ServerRemembers
  <2>1. known[Server(k)][k].left \in Nat
    BY <1>1, ServerServes, RecordFields
  <2>2. quiet[k] <= known[Server(k)][k].left
    BY DEF AlertInv, ServerRemembers
  <2> QED
    BY <1>3, <1>4, <2>1, <2>2, FewerOrder, ServerServes
<1>8. \A k \in Keys : ~(quiet'[k] > quiet[k])
  <2> SUFFICES ASSUME NEW k \in Keys PROVE ~(quiet'[k] > quiet[k])
    OBVIOUS
  <2>1. quiet'[k] \in Nat /\ quiet[k] \in Nat /\ quiet'[k] <= quiet[k]
    BY <1>4, CooldownIsNat
  <2> QED
    BY <2>1
<1> QED
  BY <1>6, <1>7, <1>8 DEF AlertInv

LEMMA AlertStep ==
    ASSUME AlertInv, [AlertNext]_alertVars
    PROVE  /\ AlertInv'
           /\ \A k \in Keys : quiet'[k] > quiet[k] => quiet[k] = 0 \/ k \in forgot
<1>0. quiet \in [Keys -> 0..Cooldown]
  BY DEF AlertInv, AlertTypeOK
<1>1. ASSUME UNCHANGED quiet
      PROVE  \A k \in Keys : ~(quiet'[k] > quiet[k])
  BY <1>0, <1>1, CooldownIsNat
<1>2. CASE UNCHANGED alertVars
  <2>1. AlertInv'
    BY <1>2 DEF alertVars, AlertInv, AlertTypeOK, ServerRemembers
  <2> QED
    BY <1>1, <1>2, <2>1 DEF alertVars
<1>3. ASSUME NEW p \in Processes, Restart(p)
      PROVE  AlertInv' /\ UNCHANGED quiet
  BY <1>3, RestartStep DEF Restart
<1> QED
  BY <1>1, <1>2, <1>3, PollStep, TickStep DEF AlertNext

\* Whatever the file holds and however often saves fail: two messages about one key
\* are a cooldown apart, unless the process that serves it came back from a file
\* behind what it knew (should_alert, _save).
THEOREM AlertsStaySpaced == AlertSpec => AlertsSpaced
<1>1. AlertInv /\ [AlertNext]_alertVars => AlertInv'
  BY AlertStep
<1>2. AlertInv /\ [AlertNext]_alertVars
        => [\A k \in Keys : quiet'[k] > quiet[k] => quiet[k] = 0 \/ k \in forgot]_alertVars
  BY AlertStep
<1> QED
  BY AlertInvInit, <1>1, <1>2, PTL DEF AlertSpec, AlertsSpaced

\* What the processes know, the file and the cooldowns keep their types.
THEOREM AlertTypesHold == AlertSpec => []AlertTypeOK
<1>1. AlertInv /\ [AlertNext]_alertVars => AlertInv'
  BY AlertStep
<1>2. AlertInv => AlertTypeOK
  BY DEF AlertInv
<1> QED
  BY AlertInvInit, <1>1, <1>2, PTL DEF AlertSpec

-----------------------------------------------------------------------------
(* The news digest                                                         *)

\* What the digest in the making holds is not recorded yet: ReadFeeds compares
\* the feed with news_items, and only the digest's own cycle writes there.
DigestIsNew == digest \cap recorded = {}

\* Between the digest and their records its items have been mailed.
Mailed(n) == n \in recorded \/ (newsStage = "record" /\ n \in digest)

\* A cycle that fails is the only one to leave an item mailed and unrecorded.
MailedByFaults ==
    \A n \in News :
        /\ mailed[n] <= newsFaults + IF Mailed(n) THEN 1 ELSE 0
        /\ Mailed(n) => mailed[n] > 0

NewsShape ==
    /\ feed \subseteq News
    /\ recorded \subseteq News
    /\ mailed \in [News -> Nat]
    /\ digest \subseteq News
    /\ newsStage \in {"sleep", "send", "record"}
    /\ newsFaults \in Nat

NewsInv == NewsShape /\ DigestIsNew /\ MailedByFaults

-----------------------------------------------------------------------------
LEMMA NewsInitOK == NewsInit => NewsInv
BY DEF NewsInit, NewsInv, NewsShape, DigestIsNew, MailedByFaults, Mailed

LEMMA ReadStep ==
    ASSUME NewsInv, ReadFeeds
    PROVE  NewsInv'
<1>1. digest' \subseteq UnsentNews
  BY DEF ReadFeeds, NewestNews
<1>2. UnsentNews \cap recorded = {}
  BY DEF UnsentNews
<1>3. newsStage = "sleep" /\ newsStage' = "send"
      /\ UNCHANGED <<feed, recorded, mailed, newsFaults>>
  BY DEF ReadFeeds
<1>4. digest' \subseteq News
  BY <1>1 DEF UnsentNews, NewsInv, NewsShape
<1> QED
  BY <1>1, <1>2, <1>3, <1>4 DEF NewsInv, NewsShape, DigestIsNew, MailedByFaults, Mailed

\* The items of the digest were neither recorded nor mailed by this cycle.
LEMMA SendStep ==
    ASSUME NewsInv, SendDigest
    PROVE  NewsInv'
<1>1. /\ newsStage = "send" /\ newsStage' = "record"
      /\ mailed' = [n \in News |-> mailed[n] + IF n \in digest THEN 1 ELSE 0]
      /\ UNCHANGED <<feed, recorded, digest, newsFaults>>
  BY DEF SendDigest
<1>2. NewsShape' /\ DigestIsNew'
  BY <1>1 DEF NewsInv, NewsShape, DigestIsNew
<1>3. MailedByFaults'
  <2> SUFFICES ASSUME NEW n \in News
               PROVE  /\ mailed'[n] <= newsFaults + IF Mailed(n)' THEN 1 ELSE 0
                      /\ Mailed(n)' => mailed'[n] > 0
    BY <1>1 DEF MailedByFaults
  <2>1. mailed[n] \in Nat /\ newsFaults \in Nat
    BY DEF NewsInv, NewsShape
  <2>2. /\ mailed[n] <= newsFaults + IF n \in recorded THEN 1 ELSE 0
        /\ n \in recorded => mailed[n] > 0
    BY <1>1 DEF NewsInv, MailedByFaults, Mailed
  <2>3. ~(n \in digest /\ n \in recorded)
    BY DEF NewsInv, DigestIsNew
  <2>4. Mailed(n)' <=> n \in recorded \/ n \in digest
    BY <1>1 DEF Mailed
  <2>5. mailed'[n] = mailed[n] + IF n \in digest THEN 1 ELSE 0
    BY <1>1
  <2> QED
    BY <2>1, <2>2, <2>3, <2>4, <2>5
<1> QED
  BY <1>2, <1>3 DEF NewsInv

\* An item goes from the digest to the table, and stays mailed.
LEMMA RecordStep ==
    ASSUME NewsInv, NEW k \in News, RecordItem(k)
    PROVE  NewsInv'
<1>1. /\ newsStage = "record" /\ k \in digest
      /\ recorded' = recorded \cup {k} /\ digest' = digest \ {k}
      /\ newsStage' = IF digest = {k} THEN "sleep" ELSE "record"
      /\ UNCHANGED <<feed, mailed, newsFaults>>
  BY DEF RecordItem
<1>2. NewsShape' /\ DigestIsNew'
  BY <1>1 DEF NewsInv, NewsShape, DigestIsNew
<1>3. \A n \in News : Mailed(n)' <=> Mailed(n)
  BY <1>1 DEF Mailed
<1> QED
  BY <1>1, <1>2, <1>3 DEF NewsInv, MailedByFaults

LEMMA FailureStep ==
    ASSUME NewsInv, NewsCycleFails
    PROVE  NewsInv'
<1>1. /\ newsStage' = "sleep" /\ digest' = {} /\ newsFaults' = newsFaults + 1
      /\ UNCHANGED <<feed, recorded, mailed>>
  BY DEF NewsCycleFails
<1>2. NewsShape' /\ DigestIsNew'
  BY <1>1 DEF NewsInv, NewsShape, DigestIsNew
<1>3. MailedByFaults'
  <2> SUFFICES ASSUME NEW n \in News
               PROVE  /\ mailed[n] <= newsFaults' + IF n \in recorded THEN 1 ELSE 0
                      /\ n \in recorded => mailed[n] > 0
    BY <1>1 DEF MailedByFaults, Mailed
  <2>1. mailed[n] \in Nat /\ newsFaults \in Nat
    BY DEF NewsInv, NewsShape
  <2>2. /\ mailed[n] <= newsFaults + 1
        /\ n \in recorded => mailed[n] > 0
        /\ mailed[n] > newsFaults => Mailed(n)
    BY <2>1 DEF NewsInv, MailedByFaults, Mailed
  <2> QED
    BY <1>1, <2>1, <2>2
<1> QED
  BY <1>2, <1>3 DEF NewsInv

LEMMA NewsStep ==
    ASSUME NewsInv, [NewsNext]_newsVars
    PROVE  NewsInv'
<1>1. ASSUME NEW items \in SUBSET News, FeedMoves(items)
      PROVE  NewsInv'
  BY <1>1 DEF FeedMoves, NewsInv, NewsShape, DigestIsNew, MailedByFaults, Mailed
<1>2. CASE UNCHANGED newsVars
  BY <1>2 DEF newsVars, NewsInv, NewsShape, DigestIsNew, MailedByFaults, Mailed
<1> QED
  BY <1>1, <1>2, ReadStep, SendStep, RecordStep, FailureStep DEF NewsNext, NewsCycle

\* No item is mailed more often than once and once for each failed cycle, and what
\* is recorded was mailed (process_news_cycle).
THEOREM MailedOnce == NewsSpec => []MailedOncePerFault
<1>1. NewsInv => MailedOncePerFault
  BY DEF NewsInv, NewsShape, MailedByFaults, MailedOncePerFault, Mailed
<1> QED
  BY <1>1, NewsInitOK, NewsStep, PTL DEF NewsSpec

-----------------------------------------------------------------------------
\* A digest has room for all of its items: those above the oldest are among the
\* fewer than MaxItems newer ones that let it in.
LEMMA DigestHasRoom ==
    ASSUME NEW items \in SUBSET News
    PROVE  Cardinality(NewestNews(items)) <= MaxItems
<1> DEFINE D == NewestNews(items)
<1>1. /\ IsFiniteSet(items) /\ D \subseteq items /\ D \subseteq Nat /\ MaxItems \in Nat \ {0}
  BY NewsAssumption, FS_Subset DEF NewsAssumption, NewestNews
<1>2. CASE D = {}
  BY <1>1, <1>2, FS_EmptySet
<1>3. CASE D # {}
  <2>1. PICK oldest \in D : \A n \in D : n >= oldest
    <3>1. IsFiniteSet(D) /\ \A k \in D : k \in Int
      BY <1>1, FS_Subset
    <3> HIDE DEF D
    <3> QED
      BY <1>1, <1>3, <3>1, LeastNumber
  <2> DEFINE newer == {k \in items : k > oldest}
  <2>2. Cardinality(newer) < MaxItems
    BY <2>1 DEF NewestNews
  <2>3. D \ {oldest} \subseteq newer /\ newer \subseteq items
    BY <1>1, <2>1
  <2> HIDE DEF newer, D
  <2>4. IsFiniteSet(newer) /\ IsFiniteSet(D)
    BY <1>1, <2>3, FS_Subset
  <2>5. Cardinality(D \ {oldest}) <= Cardinality(newer)
    BY <2>3, <2>4, FS_Subset
  <2>6. Cardinality(D \ {oldest}) = Cardinality(D) - 1
    BY <2>1, <2>4, FS_RemoveElement
  <2>7. Cardinality(D) \in Nat /\ Cardinality(newer) \in Nat
    BY <2>4, FS_CardinalityType
  <2> QED
    BY <1>1, <2>2, <2>5, <2>6, <2>7 DEF D
<1> QED
  BY <1>2, <1>3

\* The newest of the items is in the digest.
LEMMA NewestIsIn ==
    ASSUME NEW items \in SUBSET News, items # {}
    PROVE  NewestNews(items) # {}
<1>1. IsFiniteSet(items) /\ items \subseteq Nat /\ MaxItems \in Nat \ {0}
  BY NewsAssumption, FS_Subset DEF NewsAssumption
<1>2. PICK n \in items : \A k \in items : n >= k
  <2>1. \A k \in items : k \in Int
    BY <1>1
  <2> QED
    BY <1>1, <2>1, GreatestNumber
<1>3. {k \in items : k > n} = {}
  <2>1. \A k \in items : k \in Nat /\ n \in Nat /\ ~(k > n)
    BY <1>1, <1>2
  <2> QED
    BY <2>1
<1>4. Cardinality({k \in items : k > n}) = 0
  BY <1>3, FS_EmptySet
<1> QED
  BY <1>1, <1>4 DEF NewestNews

LEMMA NewsTypeStep ==
    ASSUME NewsTypeOK, [NewsNext]_newsVars
    PROVE  NewsTypeOK'
<1>1. IsFiniteSet(digest)
  BY NewsAssumption, FS_Subset DEF NewsAssumption, NewsTypeOK
<1>2. ASSUME NEW items \in SUBSET News, FeedMoves(items)
      PROVE  NewsTypeOK'
  BY <1>2 DEF FeedMoves, NewsTypeOK
<1>3. CASE UNCHANGED newsVars
  BY <1>3 DEF newsVars, NewsTypeOK
<1>4. CASE ReadFeeds
  <2>1. UnsentNews \in SUBSET News /\ UnsentNews # {} /\ digest' = NewestNews(UnsentNews)
        /\ newsStage' = "send" /\ UNCHANGED <<feed, recorded, mailed, newsFaults>>
    BY <1>4 DEF ReadFeeds, UnsentNews, NewsTypeOK
  <2>2. Cardinality(digest') <= MaxItems
    BY <2>1, DigestHasRoom
  <2>3. digest' \subseteq News
    BY <2>1 DEF NewestNews
  <2>4. digest' # {}
    BY <2>1, NewestIsIn
  <2> QED
    BY <2>1, <2>2, <2>3, <2>4 DEF NewsTypeOK
<1>5. CASE SendDigest
  BY <1>5 DEF SendDigest, NewsTypeOK
<1>6. ASSUME NEW n \in News, RecordItem(n)
      PROVE  NewsTypeOK'
  <2>1. Cardinality(digest \ {n}) <= Cardinality(digest) /\ IsFiniteSet(digest \ {n})
    BY <1>1, FS_Subset
  <2>2. Cardinality(digest \ {n}) \in Nat /\ Cardinality(digest) \in Nat /\ MaxItems \in Nat
    BY <1>1, <2>1, FS_CardinalityType, NewsAssumption DEF NewsAssumption
  <2>3. digest' = digest \ {n} /\ UNCHANGED <<feed, mailed, newsFaults>>
        /\ newsStage' = (IF digest = {n} THEN "sleep" ELSE "record")
        /\ n \in digest /\ recorded' = recorded \cup {n}
    BY <1>6 DEF RecordItem
  <2>4. Cardinality(digest') <= MaxItems
    BY <2>1, <2>2, <2>3 DEF NewsTypeOK
  <2> QED
    BY <2>3, <2>4 DEF NewsTypeOK
<1>7. CASE NewsCycleFails
  BY <1>7, FS_EmptySet, NewsAssumption DEF NewsAssumption, NewsCycleFails, NewsTypeOK
<1> QED
  BY <1>2, <1>3, <1>4, <1>5, <1>6, <1>7 DEF NewsNext, NewsCycle

\* A digest holds max_items at most and is there while a cycle runs, for any items
\* and feeds (process_news_cycle).
THEOREM NewsTypesHold == NewsSpec => []NewsTypeOK
<1>1. NewsInit => NewsTypeOK
  BY FS_EmptySet, NewsAssumption DEF NewsAssumption, NewsInit, NewsTypeOK
<1> QED
  BY <1>1, NewsTypeStep, PTL DEF NewsSpec

-----------------------------------------------------------------------------
(* Predictions of the 15-minute markets                                    *)

Wins == {"none", "won", "lost"}

Prediction == [ticker : Tickers, bias : {"BULLISH", "BEARISH"}, win : Wins, target : Nat]

Stages == {"idle", "resolve", "decide"}

\* The types the argument needs; what a price or a scenario is does not matter.
SlotShape ==
    /\ moment \in Nat
    /\ call \in [at : Stages, now : Nat, ticker : Tickers]
    /\ pendingSlot \in [is : BOOLEAN, ticker : Tickers, target : Nat,
                        bias : {"BULLISH", "BEARISH"}, confirmation : Int]
    /\ predictions \subseteq Prediction
    /\ \A w \in unanswered : w \in Nat

\* A ticker of the bot's own exists only where Kalshi gave no answer.
Own(ticker) == ticker.market = FALSE

OwnUnanswered ==
    /\ call.at = "decide" /\ Own(call.ticker) => call.ticker.window \in unanswered
    /\ pendingSlot.is /\ Own(pendingSlot.ticker) => pendingSlot.ticker.window \in unanswered
    /\ \A r \in predictions : Own(r.ticker) => r.ticker.window \in unanswered

\* A ticker is recorded once: make_prediction looks before it inserts.
RecordedOnce == \A r, q \in predictions : r.ticker = q.ticker => r = q

SettledLate ==
    \A r \in predictions : r.win # "none" => moment >= Expiry(r.ticker) + Grace

PendingUnrecorded == pendingSlot.is => ~Recorded(pendingSlot.ticker)

SlotInv ==
    /\ SlotShape
    /\ OwnUnanswered
    /\ RecordedOnce
    /\ SettledLate
    /\ PendingUnrecorded

-----------------------------------------------------------------------------
LEMMA WindowIsNat ==
    ASSUME NEW at \in Nat
    PROVE  Window(at) \in Nat
<1>1. WindowLength \in Nat /\ WindowLength > 0
  BY SlotAssumption DEF SlotAssumption
<1> QED
  BY <1>1 DEF Window

LEMMA ExpiryIsNat ==
    ASSUME NEW ticker \in Tickers
    PROVE  Expiry(ticker) \in Nat /\ Grace \in Nat
<1>1. WindowLength \in Nat /\ ticker.window \in Nat /\ Grace \in Nat
  BY SlotAssumption DEF SlotAssumption, Tickers
<1> QED
  BY <1>1 DEF Expiry

LEMMA PredictionFields ==
    ASSUME NEW r \in Prediction
    PROVE  /\ r.ticker \in Tickers
           /\ r.ticker.window \in Nat
           /\ r.ticker.market \in BOOLEAN
           /\ r.win \in Wins
BY DEF Prediction, Tickers

\* Tickers of one window are the same, or one of them is the bot's own.
LEMMA SameWindow ==
    ASSUME NEW s \in Tickers, NEW t \in Tickers, s.window = t.window, ~Own(s), ~Own(t)
    PROVE  s = t
BY DEF Tickers, Own

LEMMA NoCallShape ==
    /\ NoCall \in [at : Stages, now : Nat, ticker : Tickers]
    /\ NoCall.at = "idle"
    /\ NoPending \in [is : BOOLEAN, ticker : Tickers, target : Nat,
                      bias : {"BULLISH", "BEARISH"}, confirmation : Int]
    /\ NoPending.is = FALSE
BY DEF NoCall, NoPending, NoTicker, Tickers, Stages

LEMMA SlotInvInit == SlotInit => SlotInv
BY NoCallShape DEF SlotInit, SlotInv, SlotShape, OwnUnanswered, RecordedOnce, SettledLate,
   PendingUnrecorded

-----------------------------------------------------------------------------
(* The steps that record nothing.                                          *)

LEMMA ReadClockStep == SlotInv /\ ReadClock => SlotInv'
<1> SUFFICES ASSUME SlotInv, ReadClock PROVE SlotInv'
  OBVIOUS
<1>1. call' \in [at : Stages, now : Nat, ticker : Tickers] /\ call'.at = "resolve"
  BY NoCallShape DEF ReadClock, SlotInv, SlotShape, NoCall, Stages
<1> QED
  BY <1>1 DEF ReadClock, SlotInv, SlotShape, OwnUnanswered, RecordedOnce, SettledLate,
     PendingUnrecorded, Recorded

LEMMA ResolveSlotStep == SlotInv /\ ResolveSlot => SlotInv'
<1> SUFFICES ASSUME SlotInv, ResolveSlot PROVE SlotInv'
  OBVIOUS
<1>1. call.now \in Nat /\ moment \in Nat
  BY DEF SlotInv, SlotShape
<1>2. Window(moment) \in Nat /\ Window(call.now) \in Nat
  BY <1>1, WindowIsNat
<1> DEFINE m == [market |-> TRUE, window |-> Window(moment)]
           o == [market |-> FALSE, window |-> Window(call.now)]
<1>3. /\ m \in Tickers /\ o \in Tickers /\ ~Own(m) /\ o.window = Window(call.now)
  BY <1>2 DEF Tickers, Own
<1>4. /\ \/ call' = [call EXCEPT !.at = "decide", !.ticker = m] /\ unanswered' = unanswered
         \/ /\ call' = [call EXCEPT !.at = "decide", !.ticker = o]
            /\ unanswered' = unanswered \cup {Window(call.now)}
      /\ UNCHANGED <<moment, pendingSlot, predictions>>
  BY DEF ResolveSlot
<1> HIDE DEF m, o
<1>5. /\ call' \in [at : Stages, now : Nat, ticker : Tickers]
      /\ \/ call'.ticker = m
         \/ call'.ticker = o /\ Window(call.now) \in unanswered'
  BY <1>3, <1>4 DEF SlotInv, SlotShape, Stages
<1>6. unanswered \subseteq unanswered' /\ \A w \in unanswered' : w \in Nat
  BY <1>2, <1>4 DEF SlotInv, SlotShape
<1>7. SlotShape'
  BY <1>4, <1>5, <1>6 DEF SlotInv, SlotShape
<1>8. OwnUnanswered'
  BY <1>3, <1>4, <1>5, <1>6 DEF SlotInv, OwnUnanswered
<1> QED
  BY <1>4, <1>7, <1>8 DEF SlotInv, RecordedOnce, SettledLate, PendingUnrecorded, Recorded

LEMMA AlreadyRecordedStep == SlotInv /\ AlreadyRecorded => SlotInv'
<1> SUFFICES ASSUME SlotInv, AlreadyRecorded PROVE SlotInv'
  OBVIOUS
<1>1. pendingSlot' \in {pendingSlot, NoPending} /\ call' = NoCall
      /\ UNCHANGED <<moment, predictions, unanswered>>
  BY DEF AlreadyRecorded, EndCall
<1> QED
  BY <1>1, NoCallShape DEF SlotInv, SlotShape, OwnUnanswered, RecordedOnce, SettledLate,
     PendingUnrecorded, Recorded

LEMMA LockScenarioStep == SlotInv /\ LockScenario => SlotInv'
<1> SUFFICES ASSUME SlotInv, LockScenario PROVE SlotInv'
  OBVIOUS
<1>1. call' = NoCall /\ call.at = "decide" /\ ~Recorded(call.ticker)
      /\ UNCHANGED <<moment, predictions, unanswered>>
  BY DEF LockScenario, EndCall
<1>2. CASE pendingSlot' = NoPending
  BY <1>1, <1>2, NoCallShape DEF SlotInv, SlotShape, OwnUnanswered, RecordedOnce, SettledLate,
     PendingUnrecorded, Recorded
<1>3. ASSUME NEW s \in SlotScenarios, NEW target \in Strikes, pendingSlot' = Locked(s, target)
      PROVE  SlotInv'
  <2>1. s.bias \in {"BULLISH", "BEARISH"} /\ s.confirmation \in Int /\ target \in Nat
    BY SlotAssumption DEF SlotAssumption, Strikes
  <2>2. /\ pendingSlot' \in [is : BOOLEAN, ticker : Tickers, target : Nat,
                             bias : {"BULLISH", "BEARISH"}, confirmation : Int]
        /\ pendingSlot'.ticker = call.ticker
    BY <1>3, <2>1 DEF Locked, SlotInv, SlotShape
  <2> QED
    BY <1>1, <2>2, NoCallShape DEF SlotInv, SlotShape, OwnUnanswered, RecordedOnce, SettledLate,
       PendingUnrecorded, Recorded
<1> QED
  BY <1>2, <1>3 DEF LockScenario

LEMMA SlotTickStep == SlotInv /\ SlotTick => SlotInv'
<1> SUFFICES ASSUME SlotInv, SlotTick PROVE SlotInv'
  OBVIOUS
<1>1. moment' = moment + 1 /\ UNCHANGED <<call, pendingSlot, predictions, unanswered>>
  BY DEF SlotTick
<1>2. SettledLate'
  <2> SUFFICES ASSUME NEW r \in predictions, r.win # "none"
               PROVE  moment + 1 >= Expiry(r.ticker) + Grace
    BY <1>1 DEF SettledLate
  <2>1. Expiry(r.ticker) \in Nat /\ Grace \in Nat /\ moment \in Nat
    BY ExpiryIsNat, PredictionFields DEF SlotInv, SlotShape
  <2>2. moment >= Expiry(r.ticker) + Grace
    BY DEF SlotInv, SettledLate
  <2> QED
    BY <2>1, <2>2
<1> QED
  BY <1>1, <1>2 DEF SlotInv, SlotShape, OwnUnanswered, RecordedOnce, PendingUnrecorded, Recorded

LEMMA SlotRestartStep == SlotInv /\ SlotRestart => SlotInv'
BY NoCallShape DEF SlotRestart, EndCall, SlotInv, SlotShape, OwnUnanswered, RecordedOnce,
   SettledLate, PendingUnrecorded, Recorded

-----------------------------------------------------------------------------
(* The two steps that write the table.                                     *)

LEMMA CheckConfirmationStep ==
    ASSUME SlotInv, NEW price \in SlotPrices, CheckConfirmation(price)
    PROVE  SlotInv'
<1>1. call' = NoCall /\ ~Recorded(call.ticker) /\ UNCHANGED <<moment, unanswered>>
      /\ pendingSlot.is /\ pendingSlot.ticker = call.ticker
  BY DEF CheckConfirmation, EndCall, Waiting
<1>2. CASE UNCHANGED <<pendingSlot, predictions>>
  BY <1>1, <1>2, NoCallShape DEF SlotInv, SlotShape, OwnUnanswered, RecordedOnce, SettledLate,
     PendingUnrecorded, Recorded
<1>3. CASE ~UNCHANGED <<pendingSlot, predictions>>
  <2> DEFINE target == IF pendingSlot.target = 0 THEN price ELSE pendingSlot.target
             born == [ticker |-> call.ticker, bias |-> pendingSlot.bias, win |-> "none",
                      target |-> target]
  <2>1. predictions' = predictions \cup {born} /\ pendingSlot' = NoPending
    BY <1>3 DEF CheckConfirmation
  <2>2. born \in Prediction /\ born.ticker = call.ticker /\ born.win = "none"
    <3>1. target \in Nat
      BY SlotAssumption DEF SlotAssumption, SlotInv, SlotShape
    <3> HIDE DEF target
    <3> QED
      BY <3>1 DEF Prediction, Wins, SlotInv, SlotShape
  <2>3. \A r \in predictions : r.ticker # call.ticker
    BY <1>1 DEF Recorded
  <2>4. Own(call.ticker) => call.ticker.window \in unanswered
    BY <1>1 DEF SlotInv, OwnUnanswered
  <2> HIDE DEF born
  <2>5. SlotShape'
    BY <1>1, <2>1, <2>2, NoCallShape DEF SlotInv, SlotShape
  <2>6. OwnUnanswered'
    BY <1>1, <2>1, <2>2, <2>4, NoCallShape DEF SlotInv, OwnUnanswered
  <2>7. RecordedOnce'
    BY <2>1, <2>2, <2>3 DEF SlotInv, RecordedOnce
  <2>8. SettledLate'
    BY <1>1, <2>1, <2>2 DEF SlotInv, SettledLate
  <2>9. PendingUnrecorded'
    BY <2>1, NoCallShape DEF PendingUnrecorded
  <2> QED
    BY <2>5, <2>6, <2>7, <2>8, <2>9 DEF SlotInv
<1> QED
  BY <1>2, <1>3

LEMMA ResolvePredictionStep ==
    ASSUME SlotInv, NEW r \in predictions, NEW price \in SlotPrices,
           ResolvePrediction(r, price)
    PROVE  SlotInv'
<1> DEFINE win == IF (IF price > r.target THEN "BULLISH" ELSE "BEARISH") = r.bias
                  THEN "won" ELSE "lost"
           settled == [r EXCEPT !.win = win]
<1>1. predictions' = (predictions \ {r}) \cup {settled}
      /\ UNCHANGED <<moment, call, pendingSlot, unanswered>>
  BY DEF ResolvePrediction
<1>2. r \in Prediction /\ win \in Wins
  BY DEF SlotInv, SlotShape, Wins
<1> HIDE DEF win
<1>3. settled \in Prediction /\ settled.ticker = r.ticker
  BY <1>2 DEF Prediction
<1>4. moment >= Expiry(r.ticker) + Grace
  BY DEF ResolvePrediction, Due
<1> HIDE DEF settled
<1>5. SlotShape'
  BY <1>1, <1>3 DEF SlotInv, SlotShape
<1>6. OwnUnanswered'
  BY <1>1, <1>3 DEF SlotInv, OwnUnanswered
<1>7. RecordedOnce'
  BY <1>1, <1>3 DEF SlotInv, RecordedOnce
<1>8. SettledLate'
  <2>1. Expiry(settled.ticker) = Expiry(r.ticker)
    BY <1>3
  <2> QED
    BY <1>1, <1>4, <2>1 DEF SlotInv, SettledLate
<1>9. PendingUnrecorded'
  BY <1>1, <1>3 DEF SlotInv, PendingUnrecorded, Recorded
<1> QED
  BY <1>5, <1>6, <1>7, <1>8, <1>9 DEF SlotInv

-----------------------------------------------------------------------------
LEMMA SlotInvStep == SlotInv /\ [SlotNext]_slotVars => SlotInv'
<1>1. ASSUME SlotInv, UNCHANGED slotVars PROVE SlotInv'
  BY <1>1 DEF slotVars, SlotInv, SlotShape, OwnUnanswered, RecordedOnce, SettledLate,
     PendingUnrecorded, Recorded
<1>2. ASSUME SlotInv, SlotNext PROVE SlotInv'
  BY <1>2, ReadClockStep, ResolveSlotStep, AlreadyRecordedStep, LockScenarioStep,
     SlotTickStep, SlotRestartStep, CheckConfirmationStep, ResolvePredictionStep DEF SlotNext
<1> QED
  BY <1>1, <1>2

LEMMA OneFromInv == SlotInv => OnePredictionPerWindow
<1> SUFFICES ASSUME SlotInv PROVE OnePredictionPerWindow
  OBVIOUS
<1>1. ASSUME NEW r \in predictions, NEW q \in predictions,
             r.ticker.window = q.ticker.window, r.ticker.window \notin unanswered
      PROVE  r = q
  <2>1. r.ticker \in Tickers /\ q.ticker \in Tickers
    BY PredictionFields DEF SlotInv, SlotShape
  <2>2. ~Own(r.ticker) /\ ~Own(q.ticker)
    BY <1>1 DEF SlotInv, OwnUnanswered
  <2>3. r.ticker = q.ticker
    BY <1>1, <2>1, <2>2, SameWindow
  <2> QED
    BY <2>3 DEF SlotInv, RecordedOnce
<1>2. \A r \in predictions : r.win # "none" => moment >= Expiry(r.ticker) + Grace
  BY DEF SlotInv, SettledLate
<1>3. pendingSlot.is => ~Recorded(pendingSlot.ticker)
  BY DEF SlotInv, PendingUnrecorded
<1> QED
  BY <1>1, <1>2, <1>3 DEF OnePredictionPerWindow

\* However time passes between reading the clock, resolving the market and asking
\* for a price, however often the process starts again and whatever it locks: a
\* window that Kalshi always answered for has one prediction at most, it is settled
\* after the window and its grace, and nothing recorded is locked again
\* (make_prediction, resolve_predictions).
THEOREM PredictedOnce == SlotSpec => []OnePredictionPerWindow
BY SlotInvInit, SlotInvStep, OneFromInv, PTL DEF SlotSpec

\* The bounds of a behaviour, and the expiry of what a call decides about: the time it
\* read lies before the end of the window it then resolves.
SlotBounds ==
    /\ moment \in 0..MaxMoment
    /\ crashes \in 0..MaxCrashes
    /\ call.now <= moment
    /\ call.at = "decide" => call.now < Expiry(call.ticker)

LEMMA WindowEndsLater ==
    ASSUME NEW at \in Nat, NEW read \in Nat, read <= at, NEW ticker \in Tickers,
           ticker.window = Window(at)
    PROVE  read < Expiry(ticker)
BY SlotAssumption DEF SlotAssumption, Window, Expiry, Tickers

LEMMA SlotBoundsStep == SlotInv /\ SlotBounds /\ [SlotNext]_slotVars => SlotBounds'
<1> SUFFICES ASSUME SlotInv, SlotBounds, [SlotNext]_slotVars PROVE SlotBounds'
  OBVIOUS
<1>1. /\ moment \in Nat /\ call \in [at : Stages, now : Nat, ticker : Tickers]
      /\ MaxMoment \in Nat /\ MaxCrashes \in Nat
  BY SlotAssumption DEF SlotAssumption, SlotInv, SlotShape
<1>2. ASSUME call' = NoCall, moment' = moment, crashes' \in 0..MaxCrashes
      PROVE  SlotBounds'
  BY <1>1, <1>2, NoCallShape DEF SlotBounds, NoCall
<1>3. CASE UNCHANGED slotVars
  BY <1>3 DEF slotVars, SlotBounds, Expiry
<1>4. CASE ReadClock
  <2>1. /\ call' = [NoCall EXCEPT !.at = "resolve", !.now = moment]
        /\ moment' = moment /\ crashes' = crashes
    BY <1>4 DEF ReadClock
  <2>2. call'.at = "resolve" /\ call'.now = moment
    BY <2>1 DEF NoCall
  <2> QED
    BY <1>1, <2>1, <2>2 DEF SlotBounds
<1>5. CASE ResolveSlot
  <2>1. PICK market \in BOOLEAN, w \in {Window(moment), Window(call.now)} :
           /\ call' = [call EXCEPT !.at = "decide", !.ticker = [market |-> market, window |-> w]]
           /\ moment' = moment /\ crashes' = crashes
    BY <1>5 DEF ResolveSlot
  <2>2. Window(moment) \in Nat /\ Window(call.now) \in Nat
    BY <1>1, WindowIsNat
  <2> DEFINE ticker == [market |-> market, window |-> w]
  <2>3. ticker \in Tickers /\ ticker.window = w
    BY <2>2 DEF Tickers
  <2>4. call'.at = "decide" /\ call'.now = call.now /\ call'.ticker = ticker
    BY <1>1, <2>1
  <2>5. call.now <= moment /\ call.now \in Nat
    BY <1>1 DEF SlotBounds
  <2> HIDE DEF ticker
  <2>6. call.now < Expiry(ticker)
    BY <1>1, <2>3, <2>5, WindowEndsLater
  <2>7. call'.now < Expiry(call'.ticker)
    BY <2>4, <2>6
  <2> QED
    BY <2>1, <2>4, <2>5, <2>7 DEF SlotBounds, Expiry
<1>6. CASE AlreadyRecorded \/ LockScenario \/ \E price \in SlotPrices : CheckConfirmation(price)
  <2>1. call' = NoCall /\ moment' = moment /\ crashes' = crashes
    BY <1>6 DEF AlreadyRecorded, LockScenario, CheckConfirmation, EndCall
  <2> QED
    BY <1>2, <2>1 DEF SlotBounds
<1>7. CASE \E r \in predictions, price \in SlotPrices : ResolvePrediction(r, price)
  BY <1>7 DEF ResolvePrediction, SlotBounds, Expiry
<1>8. CASE SlotTick
  BY <1>1, <1>8 DEF SlotTick, SlotBounds, Expiry
<1>9. CASE SlotRestart
  <2>1. call' = NoCall /\ moment' = moment /\ crashes' = crashes + 1 /\ crashes < MaxCrashes
    BY <1>9 DEF SlotRestart, EndCall
  <2> QED
    BY <1>1, <1>2, <2>1 DEF SlotBounds
<1> QED
  BY <1>3, <1>4, <1>5, <1>6, <1>7, <1>8, <1>9 DEF SlotNext

\* Tickers, predictions and calls keep their types, and no call decides about a window
\* that was over when it read the clock: the test of the expiry in make_prediction
\* never fails.
THEOREM SlotTypesHold == SlotSpec => []SlotTypeOK
<1>1. SlotInit => SlotBounds
  BY SlotAssumption DEF SlotAssumption, SlotInit, SlotBounds, NoCall
<1>2. SlotInv /\ SlotBounds => SlotTypeOK
  <2> SUFFICES ASSUME SlotInv, SlotBounds PROVE SlotTypeOK
    OBVIOUS
  <2>1. \A r \in predictions : r.ticker \in Tickers /\ r.win \in {"none", "won", "lost"}
    BY PredictionFields DEF SlotInv, SlotShape, Prediction, Wins
  <2> QED
    BY <2>1 DEF SlotInv, SlotShape, SlotBounds, SlotTypeOK, Stages
<1> QED
  BY <1>1, <1>2, SlotInvInit, SlotInvStep, SlotBoundsStep, PTL DEF SlotSpec

-----------------------------------------------------------------------------
(* Candles                                                                 *)

\* k is the last candle of rows.
IsLast(rows, k) ==
    /\ k \in Candles /\ rows[k] # "none"
    /\ \A c \in Candles : rows[c] # "none" => c <= k

\* What a sync fetches is the final form of every candle but the last.
OnlyLastForms(rows) ==
    \A c, k \in Candles : IsLast(rows, k) /\ c < k => rows[c] # "partial"

NotAhead(rows) == \A c \in Candles : rows[c] # "none" => c <= now

\* A running sync has rows, no newer than the exchange; a recent one keeps them as fetched.
SyncOrdered(p) ==
    syncing[p].at # "idle" =>
        /\ \E k \in 1..now : IsLast(syncing[p].rows, k)
        /\ p = "recent" => OnlyLastForms(syncing[p].rows)

FetchedInOrder == \A p \in Syncs : SyncOrdered(p)

FileBehind == NotAhead(csv) /\ \A p \in Syncs : NotAhead(syncing[p].merged)

CandleInv == CandleTypeOK /\ FetchedInOrder /\ FileBehind /\ TableFinal

-----------------------------------------------------------------------------
LEMMA CandleBounds == MaxCandles \in Nat /\ MaxCandles >= 1 /\ Lookback \in Nat /\ Lookback >= 1
                        /\ MaxDeaths \in Nat
BY CandleAssumption DEF CandleAssumption

LEMMA LastIsUnique ==
    ASSUME NEW rows, NEW k, IsLast(rows, k)
    PROVE  /\ LastOf(rows) = k
           /\ \A m : IsLast(rows, m) => m = k
<1>1. \A m : IsLast(rows, m) => m = k
  BY CandleBounds DEF IsLast, Candles
<1>2. \A m \in Candles : (rows[m] # "none" /\ \A d \in Candles : rows[d] # "none" => d <= m)
                            <=> IsLast(rows, m)
  BY DEF IsLast
<1>3. k \in Candles
  BY DEF IsLast
<1> DEFINE L == LastOf(rows)
<1>4. L \in Candles /\ (rows[L] # "none" /\ \A d \in Candles : rows[d] # "none" => d <= L)
  BY <1>2, <1>3 DEF LastOf
<1> QED
  BY <1>1, <1>2, <1>4

\* What is fetched ends with the candle that forms.
LEMMA FetchIsOrderly ==
    ASSUME NEW first \in Int, now \in Candles, first <= now
    PROVE  /\ Fetched(first) \in [Candles -> Forms]
           /\ IsLast(Fetched(first), now)
           /\ OnlyLastForms(Fetched(first))
<1>1. Fetched(first) \in [Candles -> Forms]
  BY DEF Fetched, Forms
<1>2. \A c \in Candles : c > now => Fetched(first)[c] = "none"
  BY DEF Fetched
<1>3. Fetched(first)[now] = "partial"
  BY CandleBounds DEF Fetched, Candles
<1>4. \A c \in Candles : c # now => Fetched(first)[c] # "partial"
  BY DEF Fetched
<1>5. IsLast(Fetched(first), now)
  BY <1>2, <1>3, CandleBounds DEF IsLast, Candles
<1>6. \A c, k \in Candles : IsLast(Fetched(first), k) /\ c < k => c # now
  BY <1>5, LastIsUnique, CandleBounds DEF Candles
<1> QED
  BY <1>1, <1>4, <1>5, <1>6 DEF OnlyLastForms

-----------------------------------------------------------------------------
\* Rows that are not all missing have a last one.
LEMMA LastExists ==
    ASSUME now \in Candles, NEW rows, NotAhead(rows), NEW d \in Candles, rows[d] # "none"
    PROVE  \E k \in 1..now : IsLast(rows, k)
<1> USE CandleBounds
<1> DEFINE S == {c \in Candles : rows[c] # "none"}
<1>1. S \subseteq Int /\ d \in S /\ IsFiniteSet(Candles)
  BY FS_Interval DEF Candles
<1>2. IsFiniteSet(S)
  BY <1>1, FS_Subset
<1>3. PICK k \in S : \A c \in S : c <= k
  BY <1>1, <1>2, GreatestNumber
<1>4. k \in Candles /\ rows[k] # "none" /\ k <= now
  BY <1>3 DEF NotAhead
<1> QED
  BY <1>3, <1>4 DEF IsLast, Candles

LEMMA NoSyncIdle ==
    /\ NoSync \in Sync /\ NoSync.at = "idle" /\ NoSync.merged = Nothing
    /\ NotAhead(Nothing)
    /\ Nothing \in [Candles -> Forms]
BY DEF NoSync, Sync, Nothing, Forms, NotAhead

LEMMA CandleInitHolds == CandleInit => CandleInv
<1> SUFFICES ASSUME CandleInit PROVE CandleInv
  OBVIOUS
<1>1. \A p \in Syncs : syncing[p] = NoSync
  BY DEF CandleInit
<1>2. CandleTypeOK
  BY NoSyncIdle, CandleBounds DEF CandleInit, CandleTypeOK, Candles
<1>3. FetchedInOrder /\ FileBehind
  BY <1>1, NoSyncIdle DEF CandleInit, FetchedInOrder, SyncOrdered, FileBehind
<1>4. TableFinal
  BY DEF CandleInit, TableFinal
<1> QED
  BY <1>2, <1>3, <1>4 DEF CandleInv

LEMMA CloseKeeps == CandleInv /\ CandleCloses => CandleInv'
<1> SUFFICES ASSUME CandleInv, CandleCloses PROVE CandleInv'
  OBVIOUS
<1> USE CandleBounds
<1>1. CandleTypeOK'
  BY DEF CandleInv, CandleTypeOK, CandleCloses, Candles
<1>2. now \in Nat /\ now' = now + 1 /\ UNCHANGED <<syncing, csv, db, lastFetch, skipped, lagging>>
  BY DEF CandleInv, CandleTypeOK, CandleCloses, Candles
<1>3. \A k \in 1..now : k \in 1..now'
  BY <1>2
<1>4. FetchedInOrder'
  BY <1>2, <1>3 DEF CandleInv, FetchedInOrder, SyncOrdered
<1>5. \A rows : NotAhead(rows) => NotAhead(rows)'
  BY <1>2 DEF NotAhead, Candles
<1>6. FileBehind'
  BY <1>2, <1>5 DEF CandleInv, FileBehind, NotAhead, Candles
<1>7. TableFinal'
  BY <1>2 DEF CandleInv, TableFinal
<1> QED
  BY <1>1, <1>4, <1>6, <1>7 DEF CandleInv

\* A process goes on with what it has, and the stores stay as they are.
LEMMA SyncStepKeeps ==
    ASSUME CandleInv, NEW p \in Syncs, NEW s \in Sync,
           syncing' = [syncing EXCEPT ![p] = s],
           UNCHANGED <<now, db, skipped, lastFetch, lagging>>,
           csv' \in [Candles -> Forms], NotAhead(csv'), deaths' \in 0..MaxDeaths,
           NotAhead(s.merged),
           s.at # "idle" => /\ \E k \in 1..now : IsLast(s.rows, k)
                            /\ p = "recent" => OnlyLastForms(s.rows)
    PROVE  CandleInv'
<1>1. /\ syncing' \in [Syncs -> Sync] /\ syncing'[p] = s
      /\ \A q \in Syncs : q # p => syncing'[q] = syncing[q]
  BY DEF CandleInv, CandleTypeOK
<1>2. CandleTypeOK'
  BY <1>1 DEF CandleInv, CandleTypeOK
<1>3. FetchedInOrder'
  <2> SUFFICES ASSUME NEW q \in Syncs, syncing'[q].at # "idle"
               PROVE  /\ \E k \in 1..now : IsLast(syncing'[q].rows, k)
                      /\ q = "recent" => OnlyLastForms(syncing'[q].rows)
    BY DEF FetchedInOrder, SyncOrdered
  <2>1. CASE q = p
    BY <1>1, <2>1
  <2>2. CASE q # p
    BY <1>1, <2>2 DEF CandleInv, FetchedInOrder, SyncOrdered
  <2> QED
    BY <2>1, <2>2
<1>4. FileBehind'
  <2>1. ASSUME NEW q \in Syncs PROVE NotAhead(syncing'[q].merged)
    BY <1>1 DEF CandleInv, FileBehind
  <2> QED
    BY <2>1 DEF FileBehind, NotAhead
<1>5. TableFinal'
  BY DEF CandleInv, TableFinal
<1> QED
  BY <1>2, <1>3, <1>4, <1>5 DEF CandleInv

LEMMA BeginKeeps ==
    ASSUME CandleInv, NEW first \in Int, first <= now, NEW p \in Syncs, Begin(p, Fetched(first))
    PROVE  CandleInv'
<1> DEFINE s == [at |-> "read", rows |-> Fetched(first), merged |-> Nothing]
<1>1. now \in Candles
  BY DEF CandleInv, CandleTypeOK
<1>2. /\ Fetched(first) \in [Candles -> Forms]
      /\ IsLast(Fetched(first), now)
      /\ OnlyLastForms(Fetched(first))
  BY <1>1, FetchIsOrderly
<1>3. now \in 1..now
  BY <1>1, CandleBounds DEF Candles
<1>4. /\ s \in Sync /\ NotAhead(s.merged) /\ \E k \in 1..now : IsLast(s.rows, k)
      /\ OnlyLastForms(s.rows)
  BY <1>2, <1>3, NoSyncIdle DEF Sync
<1>5. /\ syncing' = [syncing EXCEPT ![p] = s]
      /\ UNCHANGED <<now, csv, db, skipped, lastFetch, lagging, deaths>>
  BY DEF Begin
<1>6. csv' \in [Candles -> Forms] /\ NotAhead(csv') /\ deaths' \in 0..MaxDeaths
  BY <1>5 DEF CandleInv, CandleTypeOK, FileBehind
<1> HIDE DEF s
<1> QED
  BY <1>4, <1>5, <1>6, SyncStepKeeps

LEMMA SyncRecentKeeps == CandleInv /\ SyncRecent => CandleInv'
<1> SUFFICES ASSUME CandleInv, SyncRecent PROVE CandleInv'
  OBVIOUS
<1>1. PICK file : Begin("recent", Fetched(IF file # Nothing THEN RecentFirst ELSE 1))
  BY DEF SyncRecent
<1> DEFINE first == IF file # Nothing THEN RecentFirst ELSE 1
<1>2. first \in Int /\ first <= now
  BY CandleBounds DEF CandleInv, CandleTypeOK, Candles, RecentFirst
<1>3. Begin("recent", Fetched(first)) /\ "recent" \in Syncs
  BY <1>1 DEF Syncs
<1> HIDE DEF first
<1> QED
  BY <1>2, <1>3, BeginKeeps

LEMMA SyncAllKeeps == CandleInv /\ SyncAll => CandleInv'
<1> SUFFICES ASSUME CandleInv, SyncAll PROVE CandleInv'
  OBVIOUS
<1>1. 1 \in Int /\ 1 <= now
  BY CandleBounds DEF CandleInv, CandleTypeOK, Candles
<1>2. Begin("whole", Fetched(1)) /\ "whole" \in Syncs
  BY DEF SyncAll, Syncs
<1> QED
  BY <1>1, <1>2, BeginKeeps

\* A merge has the candles of both, in the form of one of them.
LEMMA MergeHasBoth ==
    ASSUME NEW old \in [Candles -> Forms], NEW new \in [Candles -> Forms],
           NEW merged \in Merges(old, new)
    PROVE  /\ merged \in [Candles -> Forms]
           /\ \A c \in Candles : merged[c] # "none" <=> old[c] # "none" \/ new[c] # "none"
BY DEF Merges, Forms

\* The first rows of a file have nothing that is not in it.
LEMMA FirstRowsBehind ==
    ASSUME NEW merged \in [Candles -> Forms], NotAhead(merged), NEW file \in FirstRows(merged)
    PROVE  file \in [Candles -> Forms] /\ NotAhead(file)
BY DEF FirstRows, Forms, NotAhead

LEMMA FileReadIsBehind ==
    ASSUME CandleInv, NEW p \in Syncs, NEW file \in FilesRead(p)
    PROVE  file \in [Candles -> Forms] /\ NotAhead(file)
<1>1. CASE file = csv
  BY <1>1 DEF CandleInv, CandleTypeOK, FileBehind
<1>2. CASE file # csv
  <2>1. PICK q \in Syncs : file \in FirstRows(syncing[q].merged)
    BY <1>2 DEF FilesRead
  <2>2. syncing[q].merged \in [Candles -> Forms] /\ NotAhead(syncing[q].merged)
    BY DEF CandleInv, CandleTypeOK, FileBehind, Sync
  <2> QED
    BY <2>1, <2>2, FirstRowsBehind
<1> QED
  BY <1>1, <1>2

LEMMA MergeKeeps ==
    ASSUME CandleInv, NEW p \in Syncs, MergeCsv(p)
    PROVE  CandleInv'
<1> DEFINE old == syncing[p].rows
<1>1. PICK file \in FilesRead(p) : \E all \in Merges(file, old) :
         syncing' = [syncing EXCEPT ![p] =
             [at |-> "save", merged |-> all, rows |-> IF p = "whole" THEN all ELSE old]]
  BY DEF MergeCsv
<1>14. PICK all \in Merges(file, old) :
         syncing' = [syncing EXCEPT ![p] =
             [at |-> "save", merged |-> all, rows |-> IF p = "whole" THEN all ELSE old]]
  BY <1>1
<1> DEFINE s == [at |-> "save", merged |-> all, rows |-> IF p = "whole" THEN all ELSE old]
<1>2. /\ now \in Candles /\ old \in [Candles -> Forms] /\ syncing[p].at # "idle"
      /\ UNCHANGED <<now, csv, db, skipped, lastFetch, lagging, deaths>>
  BY DEF CandleInv, CandleTypeOK, Sync, MergeCsv
<1>3. file \in [Candles -> Forms] /\ NotAhead(file)
  BY FileReadIsBehind
<1>4. /\ all \in [Candles -> Forms]
      /\ \A c \in Candles : all[c] # "none" <=> file[c] # "none" \/ old[c] # "none"
  BY <1>2, <1>3, MergeHasBoth
<1>5. PICK k \in 1..now : IsLast(old, k)
  BY <1>2 DEF CandleInv, FetchedInOrder, SyncOrdered
<1>6. NotAhead(old)
  BY <1>2, <1>5, CandleBounds DEF NotAhead, IsLast, Candles
<1>7. NotAhead(all) /\ k \in Candles /\ all[k] # "none"
  BY <1>3, <1>4, <1>5, <1>6 DEF NotAhead, IsLast
<1>8. \E m \in 1..now : IsLast(all, m)
  BY <1>2, <1>7, LastExists
<1>9. p = "recent" => OnlyLastForms(old)
  BY <1>2 DEF CandleInv, FetchedInOrder, SyncOrdered
<1> HIDE DEF old
<1>10. s \in Sync /\ NotAhead(s.merged)
  BY <1>2, <1>4, <1>7 DEF Sync
<1>11. (\E m \in 1..now : IsLast(s.rows, m)) /\ (p = "recent" => OnlyLastForms(s.rows))
  BY <1>5, <1>8, <1>9
<1>12. csv' \in [Candles -> Forms] /\ NotAhead(csv') /\ deaths' \in 0..MaxDeaths
  BY <1>2 DEF CandleInv, CandleTypeOK, FileBehind
<1>13. syncing' = [syncing EXCEPT ![p] = s]
  BY <1>14
<1> HIDE DEF s
<1> QED
  BY <1>2, <1>10, <1>11, <1>12, <1>13, SyncStepKeeps

LEMMA SaveKeeps ==
    ASSUME CandleInv, NEW p \in Syncs, SaveCsv(p)
    PROVE  CandleInv'
<1> DEFINE s == [syncing[p] EXCEPT !.at = "upsert", !.merged = Nothing]
<1>1. /\ csv' = syncing[p].merged /\ syncing[p].at # "idle"
      /\ UNCHANGED <<now, db, skipped, lastFetch, lagging, deaths>>
      /\ syncing' = [syncing EXCEPT ![p].at = "upsert", ![p].merged = Nothing]
  BY DEF SaveCsv
<1>2. syncing[p] \in Sync /\ syncing \in [Syncs -> Sync]
  BY DEF CandleInv, CandleTypeOK
<1>3. syncing' = [syncing EXCEPT ![p] = s]
  BY <1>1, <1>2
<1>4. /\ s \in Sync /\ s.merged = Nothing /\ s.rows = syncing[p].rows
  BY <1>2, NoSyncIdle DEF Sync
<1>5. csv' \in [Candles -> Forms] /\ NotAhead(csv') /\ deaths' \in 0..MaxDeaths
  BY <1>1, <1>2 DEF CandleInv, CandleTypeOK, FileBehind, Sync
<1>6. /\ \E k \in 1..now : IsLast(syncing[p].rows, k)
      /\ p = "recent" => OnlyLastForms(syncing[p].rows)
  BY <1>1 DEF CandleInv, FetchedInOrder, SyncOrdered
<1>7. NotAhead(s.merged)
  BY <1>4, NoSyncIdle
<1>8. (\E k \in 1..now : IsLast(s.rows, k)) /\ (p = "recent" => OnlyLastForms(s.rows))
  BY <1>4, <1>6
<1> HIDE DEF s
<1> QED
  BY <1>1, <1>3, <1>4, <1>5, <1>7, <1>8, SyncStepKeeps

LEMMA UpsertKeeps ==
    ASSUME CandleInv, NEW p \in Syncs, UpsertCandles(p)
    PROVE  CandleInv'
<1> USE CandleBounds
<1> DEFINE rows == syncing[p].rows
<1>1. PICK k \in 1..now : IsLast(rows, k)
  BY DEF CandleInv, FetchedInOrder, SyncOrdered, UpsertCandles
<1>2. LastOf(rows) = k /\ k \in Candles
  BY <1>1, LastIsUnique DEF IsLast
<1>3. /\ now \in Candles /\ csv \in [Candles -> Forms] /\ db \in [Candles -> Forms]
      /\ rows \in [Candles -> Forms] /\ skipped \subseteq Candles /\ lagging \subseteq Candles
      /\ lastFetch \in Candles /\ syncing[p].at # "idle" /\ deaths \in 0..MaxDeaths
      /\ syncing \in [Syncs -> Sync]
  BY DEF CandleInv, CandleTypeOK, UpsertCandles, Sync
<1> DEFINE top == IF k < lastFetch THEN lastFetch ELSE k
<1>4. /\ db' = Upserted(rows) /\ lastFetch' = top /\ syncing' = [syncing EXCEPT ![p] = NoSync]
      /\ UNCHANGED <<now, csv, deaths>>
      /\ skipped' = {c \in skipped \cup (lastFetch..k - 1) : rows[c] = "none"}
      /\ lagging' = {c \in lagging : rows[c] # "final"} \cup
                      {c \in 1..top - 1 : (p = "whole" \/ k < lastFetch) /\ rows[c] = "partial"}
  BY <1>2 DEF UpsertCandles, Overtaken
<1>5. OnlyLastForms(rows) \/ p = "whole"
  BY <1>3 DEF CandleInv, FetchedInOrder, SyncOrdered, Syncs
<1> HIDE DEF rows
<1>6. top \in Candles /\ top >= k /\ top >= lastFetch /\ (top = lastFetch \/ top = k)
  BY <1>2, <1>3 DEF Candles
<1>7. CandleTypeOK'
  <2>1. db' \in [Candles -> Forms]
    BY <1>3, <1>4 DEF Upserted
  <2>2. lastFetch..k - 1 \subseteq Candles /\ 1..top - 1 \subseteq Candles
    BY <1>2, <1>3, <1>6 DEF Candles
  <2>3. skipped' \subseteq Candles
    BY <1>3, <1>4, <2>2
  <2>4. lagging' \subseteq Candles
    BY <1>3, <1>4, <2>2
  <2>5. syncing' \in [Syncs -> Sync]
    BY <1>3, <1>4, NoSyncIdle
  <2> QED
    BY <1>3, <1>4, <1>6, <2>1, <2>3, <2>4, <2>5 DEF CandleTypeOK
<1>8. FetchedInOrder' /\ FileBehind'
  <2>1. /\ syncing'[p] = NoSync
        /\ \A q \in Syncs : q # p => syncing'[q] = syncing[q]
    BY <1>3, <1>4
  <2>2. ASSUME NEW q \in Syncs PROVE SyncOrdered(q)' /\ NotAhead(syncing'[q].merged)
    <3>1. CASE q = p
      BY <2>1, <3>1, NoSyncIdle DEF SyncOrdered
    <3>2. CASE q # p
      <4>1. syncing'[q] = syncing[q] /\ now' = now
        BY <1>4, <2>1, <3>2
      <4> QED
        BY <4>1 DEF CandleInv, FetchedInOrder, SyncOrdered, FileBehind
    <3> QED
      BY <3>1, <3>2
  <2>3. NotAhead(csv)
    BY DEF CandleInv, FileBehind
  <2> QED
    BY <1>4, <2>2, <2>3 DEF FetchedInOrder, FileBehind, NotAhead
<1>9. ASSUME NEW c \in 1..top - 1
      PROVE  db'[c] = "final" \/ c \in skipped' \/ c \in lagging'
  <2>1. c \in Candles /\ c < top
    BY <1>6 DEF Candles
  <2>2. rows[c] \in {"none", "partial", "final"}
    BY <1>3, <2>1 DEF Forms
  <2>3. CASE rows[c] = "final"
    BY <1>4, <2>1, <2>3 DEF Upserted
  <2>4. CASE rows[c] = "partial"
    <3>1. p = "whole" \/ k < lastFetch
      <4>1. CASE k < lastFetch
        BY <4>1
      <4>2. CASE ~(k < lastFetch)
        <5>1. c < k
          BY <2>1, <4>2
        <5> QED
          BY <1>1, <1>2, <1>5, <2>1, <2>4, <5>1 DEF OnlyLastForms
      <4> QED
        BY <4>1, <4>2
    <3> QED
      BY <1>4, <2>4, <3>1
  <2>5. CASE rows[c] = "none"
    <3>1. db'[c] = db[c]
      BY <1>4, <2>1, <2>5 DEF Upserted
    <3>2. CASE c < lastFetch
      <4>1. c \in 1..lastFetch - 1
        BY <1>3, <3>2 DEF Candles
      <4>2. db[c] = "final" \/ c \in skipped \/ c \in lagging
        BY <4>1 DEF CandleInv, TableFinal
      <4> QED
        BY <1>4, <2>5, <3>1, <4>2
    <3>3. CASE c >= lastFetch
      <4>1. c \in lastFetch..k - 1
        BY <1>2, <1>3, <1>6, <2>1, <3>3 DEF Candles
      <4> QED
        BY <1>4, <2>5, <4>1
    <3> QED
      BY <1>3, <3>2, <3>3, <2>1 DEF Candles
  <2> QED
    BY <2>2, <2>3, <2>4, <2>5
<1>10. TableFinal'
  BY <1>4, <1>9 DEF TableFinal
<1> QED
  BY <1>7, <1>8, <1>10 DEF CandleInv

LEMMA SyncDiesKeeps ==
    ASSUME CandleInv, NEW p \in Syncs, SyncDies(p)
    PROVE  CandleInv'
<1>1. /\ deaths' \in 0..MaxDeaths /\ syncing' = [syncing EXCEPT ![p] = NoSync]
      /\ UNCHANGED <<now, db, skipped, lastFetch, lagging>>
  BY CandleBounds DEF CandleInv, CandleTypeOK, SyncDies
<1>2. csv' \in [Candles -> Forms] /\ NotAhead(csv')
  <2>1. CASE UNCHANGED csv
    BY <2>1 DEF CandleInv, CandleTypeOK, FileBehind
  <2>2. CASE csv' \in FirstRows(syncing[p].merged)
    <3>1. syncing[p].merged \in [Candles -> Forms] /\ NotAhead(syncing[p].merged)
      BY DEF CandleInv, CandleTypeOK, FileBehind, Sync
    <3> QED
      BY <2>2, <3>1, FirstRowsBehind
  <2> QED
    BY <2>1, <2>2 DEF SyncDies
<1> QED
  BY <1>1, <1>2, NoSyncIdle, SyncStepKeeps

LEMMA CandleInvHolds == CandleSpec => []CandleInv
<1>1. CandleInv /\ UNCHANGED candleVars => CandleInv'
  BY DEF CandleInv, CandleTypeOK, FetchedInOrder, SyncOrdered, FileBehind, NotAhead, TableFinal,
     candleVars, IsLast, OnlyLastForms
<1>2. CandleInv /\ CandleNext => CandleInv'
  BY CloseKeeps, SyncRecentKeeps, SyncAllKeeps, MergeKeeps, SaveKeeps, UpsertKeeps, SyncDiesKeeps
     DEF CandleNext
<1> QED
  BY CandleInitHolds, <1>1, <1>2, PTL DEF CandleSpec

\* The table market_candles holds the final form of every candle that closed before the
\* newest one in it opened, unless no sync came by in time, or a whole sync or one that
\* was overtaken wrote an older form back, for any lookback and any number of candles and
\* deaths, with the two processes at any steps (market_data_sync.py).
THEOREM SyncFinishesCandles == CandleSpec => []TableFinal
<1>1. CandleInv => TableFinal
  BY DEF CandleInv
<1> QED
  BY CandleInvHolds, <1>1, PTL

\* The file, the table and the running syncs hold forms of candles that opened.
THEOREM CandleTypesHold == CandleSpec => []CandleTypeOK
<1>1. CandleInv => CandleTypeOK
  BY DEF CandleInv
<1> QED
  BY CandleInvHolds, <1>1, PTL

-----------------------------------------------------------------------------
(* Announcements                                                           *)

\* What the orchestrator is still going to send.
Pending == IF stage = "mark" THEN ToSet(Tail(todo)) ELSE ToSet(todo)

\* The item that was sent and is not marked yet.
Sent(i) == stage = "mark" /\ i = Head(todo)

\* The copies lost marks, or the fill of an entry the synchronisation announced, allow.
Allowed(i) == unmarked[i] + (IF i \in filled /\ exchangeMode = "market" THEN 1 ELSE 0)

\* The queue of announcements names nothing twice.
NoRepeats == todo \in Seq(Items) /\ IsInjective(todo)

\* Before the next copy of an item, and while it has no mark, there is one in hand.
CopiesAllowed ==
    \A i \in Items :
        /\ copies[i] <= 1 + Allowed(i)
        /\ i \in Pending \/ (i \notin marked /\ ~Sent(i)) => copies[i] <= Allowed(i)
        /\ i \in marked \/ Sent(i) => copies[i] > 0

\* Only an entry is announced that has happened.
EntriesHappened ==
    \A s \in Entries : entry[s] = "waiting" => s \notin marked /\ s \notin ToSet(todo)

AnnInv ==
    /\ AnnounceTypeOK
    /\ exchangeMode \in ExchangeModes
    /\ NoRepeats
    /\ CopiesAllowed
    /\ EntriesHappened

-----------------------------------------------------------------------------
LEMMA AnnConstants ==
    /\ MaxFaults \in Nat /\ IsFiniteSet(Entries) /\ Entries \cap Jobs = {}
    /\ ExchangeModes \subseteq {"off", "market", "managed"}
BY AnnouncementAssumption DEF AnnouncementAssumption

\* A set of entries is announced in some order, each of them once.
LEMMA SequenceOfSet ==
    ASSUME NEW S, IsFiniteSet(S)
    PROVE  /\ SetToSeq(S) \in Seq(S)
           /\ IsInjective(SetToSeq(S))
           /\ ToSet(SetToSeq(S)) \subseteq S
<1> DEFINE n == Cardinality(S)
           fs == {f \in [1..n -> S] : IsInjective(f)}
<1>1. n \in Nat /\ ExistsBijection(1..n, S)
  BY FS_CardinalityType
<1>2. \E f \in [1..n -> S] : IsInjective(f)
  BY <1>1 DEF ExistsBijection, Bijection, Injection
<1>3. SetToSeq(S) \in [1..n -> S] /\ IsInjective(SetToSeq(S))
  BY <1>2 DEF SetToSeq
<1>4. SetToSeq(S) \in Seq(S)
  BY <1>1, <1>3, SeqDef
<1>5. ToSet(SetToSeq(S)) \subseteq S
  BY <1>3 DEF ToSet
<1> QED
  BY <1>3, <1>4, <1>5

\* What is left of a queue without repetitions.
LEMMA TailHasRest ==
    ASSUME NEW T, NEW q \in Seq(T), IsInjective(q), q # << >>
    PROVE  /\ Tail(q) \in Seq(T) /\ IsInjective(Tail(q))
           /\ Head(q) \in T /\ Head(q) \in ToSet(q)
           /\ ToSet(Tail(q)) \subseteq ToSet(q)
           /\ Head(q) \notin ToSet(Tail(q))
           /\ ToSet(q) \subseteq ToSet(Tail(q)) \cup {Head(q)}
<1>1. Len(q) \in Nat /\ Len(q) > 0 /\ DOMAIN q = 1..Len(q) /\ \A i \in 1..Len(q) : q[i] \in T
  OBVIOUS
<1>2. /\ Tail(q) \in Seq(T) /\ Len(Tail(q)) = Len(q) - 1
      /\ DOMAIN Tail(q) = 1..Len(q) - 1
      /\ \A i \in 1..Len(q) - 1 : Tail(q)[i] = q[i + 1]
  BY <1>1
<1>3. Head(q) = q[1]
  BY <1>1
<1>4. \A i, j \in 1..Len(q) : q[i] = q[j] => i = j
  BY <1>1 DEF IsInjective
<1>5. IsInjective(Tail(q))
  <2> SUFFICES ASSUME NEW i \in 1..Len(q) - 1, NEW j \in 1..Len(q) - 1, Tail(q)[i] = Tail(q)[j]
               PROVE  i = j
    BY <1>2 DEF IsInjective
  <2>1. i + 1 \in 1..Len(q) /\ j + 1 \in 1..Len(q) /\ q[i + 1] = q[j + 1]
    BY <1>1, <1>2
  <2> QED
    BY <1>4, <2>1
<1>6. Head(q) \in T /\ Head(q) \in ToSet(q)
  BY <1>1, <1>3 DEF ToSet
<1>7. ASSUME NEW x \in ToSet(Tail(q)) PROVE x \in ToSet(q) /\ x # Head(q)
  <2>1. PICK i \in 1..Len(q) - 1 : x = Tail(q)[i]
    BY <1>2 DEF ToSet
  <2>2. i + 1 \in 1..Len(q) /\ 1 \in 1..Len(q) /\ i + 1 # 1 /\ x = q[i + 1]
    BY <1>1, <1>2, <2>1
  <2> QED
    BY <1>1, <1>3, <1>4, <2>2 DEF ToSet
<1>8. ASSUME NEW x \in ToSet(q), x # Head(q) PROVE x \in ToSet(Tail(q))
  <2>1. PICK i \in 1..Len(q) : x = q[i]
    BY <1>1 DEF ToSet
  <2>2. i - 1 \in 1..Len(q) - 1 /\ (i - 1) + 1 = i
    BY <1>1, <1>3, <1>8, <2>1
  <2>3. Tail(q)[i - 1] = x
    BY <1>2, <2>1, <2>2
  <2> QED
    BY <1>2, <2>2, <2>3 DEF ToSet
<1> QED
  BY <1>2, <1>5, <1>6, <1>7, <1>8

LEMMA ShortQueues ==
    /\ ToSet(<< >>) = {}
    /\ << >> \in Seq(Items) /\ IsInjective(<< >>)
    /\ \A i \in Items : <<i>> \in Seq(Items) /\ IsInjective(<<i>>) /\ ToSet(<<i>>) = {i}
                          /\ <<i>> # << >>
BY DEF ToSet, IsInjective

\* The types and the order of the queue, whatever is announced next.
LEMMA NextQueue ==
    ASSUME AnnounceTypeOK, NEW items \in Seq(Items), Announce(items)
    PROVE  /\ todo' = items /\ ToSet(items) \subseteq Items /\ sweeping' \in BOOLEAN
           /\ stage' \in {"idle", "send"} /\ (stage' \in {"send", "mark"}) = (todo' # << >>)
           /\ Pending' = ToSet(items) /\ \A i : ~Sent(i)'
<1>1. ToSet(items) \subseteq Items
  BY DEF ToSet
<1> QED
  BY <1>1 DEF Announce, AnnounceTypeOK, Pending, Sent

-----------------------------------------------------------------------------
LEMMA AnnInitHolds == AnnounceInit => AnnInv
<1> SUFFICES ASSUME AnnounceInit PROVE AnnInv
  OBVIOUS
<1>1. ToSet(todo) = {} /\ NoRepeats
  BY ShortQueues DEF AnnounceInit, NoRepeats
<1>2. AnnounceTypeOK
  <2>1. /\ entry \in [Entries -> {"waiting", "entered", "closed"}] /\ copies \in [Items -> Nat]
        /\ filled = {} /\ dropped = {} /\ marked = {} /\ faults \in 0..MaxFaults
        /\ unmarked \in [Items -> Nat]
    BY AnnConstants DEF AnnounceInit
  <2>2. stage = "idle" /\ sweeping = FALSE /\ todo = << >>
    BY DEF AnnounceInit
  <2>3. stage \notin {"send", "mark"} /\ ~(todo # << >>)
    BY <2>2
  <2>4. ToSet(todo) \subseteq Entries \cup Jobs
    BY <1>1
  <2>5. stage \in {"idle", "send", "mark", "down"} /\ sweeping \in BOOLEAN
    BY <2>2
  <2>6. (stage \in {"send", "mark"}) = (todo # << >>)
    BY <2>3
  <2>7. filled \subseteq Entries /\ dropped \subseteq Entries /\ marked \subseteq Items
    BY <2>1
  <2> QED
    BY <2>1, <2>4, <2>5, <2>6, <2>7, Zenon DEF AnnounceTypeOK
<1>3. CopiesAllowed /\ EntriesHappened
  BY <1>1 DEF AnnounceInit, CopiesAllowed, EntriesHappened, Pending, Sent, Allowed
<1> QED
  BY <1>1, <1>2, <1>3 DEF AnnInv, AnnounceInit

\* A free process takes up a queue of things that may be sent.
LEMMA TakeUpKeeps ==
    ASSUME AnnInv, stage \in {"idle", "down"}, NEW items \in Seq(Items), Announce(items),
           IsInjective(items),
           entry' \in [Entries -> {"waiting", "entered", "closed"}],
           filled' \subseteq Entries, filled \subseteq filled', dropped' \subseteq Entries,
           UNCHANGED <<marked, copies, faults, unmarked, exchangeMode>>,
           \A i \in ToSet(items) : copies[i] <= Allowed(i)',
           \A s \in Entries : entry'[s] = "waiting" => entry[s] = "waiting" /\ s \notin ToSet(items)
    PROVE  AnnInv'
<1>1. AnnounceTypeOK
  BY DEF AnnInv
<1>2. /\ todo' = items /\ ToSet(items) \subseteq Items /\ sweeping' \in BOOLEAN
      /\ stage' \in {"idle", "send"} /\ (stage' \in {"send", "mark"}) = (todo' # << >>)
      /\ Pending' = ToSet(items) /\ \A i : ~Sent(i)'
  BY <1>1, NextQueue
<1>3. AnnounceTypeOK'
  BY <1>1, <1>2 DEF AnnounceTypeOK, Items
<1>4. NoRepeats'
  BY <1>2 DEF NoRepeats
<1>5. \A i \in Items : Allowed(i) <= Allowed(i)' /\ Allowed(i) \in Nat /\ Allowed(i)' \in Nat
  BY <1>1, AnnConstants DEF Allowed, AnnounceTypeOK
<1>6. \A i : ~Sent(i)
  BY DEF Sent
<1>7. \A i \in Items : copies[i] \in Nat
  BY <1>1 DEF AnnounceTypeOK
<1>8. CopiesAllowed'
  <2> SUFFICES ASSUME NEW i \in Items
               PROVE  /\ copies[i] <= 1 + Allowed(i)'
                      /\ i \in Pending' \/ i \notin marked => copies[i] <= Allowed(i)'
                      /\ i \in marked => copies[i] > 0
    BY <1>2 DEF CopiesAllowed
  <2>1. /\ copies[i] <= 1 + Allowed(i)
        /\ i \notin marked => copies[i] <= Allowed(i)
        /\ i \in marked => copies[i] > 0
    BY <1>6 DEF AnnInv, CopiesAllowed
  <2> QED
    BY <1>2, <1>5, <1>7, <2>1
<1>9. EntriesHappened'
  BY <1>2 DEF AnnInv, EntriesHappened
<1> QED
  BY <1>3, <1>4, <1>8, <1>9 DEF AnnInv

\* An item without a mark may be sent, before it is taken up.
LEMMA UnmarkedMayBeSent ==
    ASSUME AnnInv, stage \in {"idle", "down"}, NEW i \in Items, i \notin marked,
           UNCHANGED <<unmarked, exchangeMode>>, filled \subseteq filled'
    PROVE  copies[i] <= Allowed(i)'
<1>1. copies[i] <= Allowed(i) /\ copies[i] \in Nat
  BY DEF AnnInv, CopiesAllowed, Sent, AnnounceTypeOK
<1> QED
  BY <1>1, AnnConstants DEF AnnInv, AnnounceTypeOK, Allowed

LEMMA TickKeeps ==
    ASSUME AnnInv, NEW entries \in SUBSET Entries, Tick(entries)
    PROVE  AnnInv'
<1> DEFINE items == IF exchangeMode = "off" THEN SetToSeq(entries) ELSE << >>
<1>1. IsFiniteSet(entries)
  BY AnnConstants, FS_Subset
<1>2. /\ SetToSeq(entries) \in Seq(entries) /\ IsInjective(SetToSeq(entries))
      /\ ToSet(SetToSeq(entries)) \subseteq entries
  BY <1>1, SequenceOfSet
<1>3. Seq(entries) \subseteq Seq(Items)
  BY DEF Items
<1>4. items \in Seq(Items) /\ IsInjective(items) /\ ToSet(items) \subseteq entries
  BY <1>2, <1>3, ShortQueues
<1>5. /\ stage \in {"idle", "down"} /\ Announce(items)
      /\ UNCHANGED <<filled, marked, copies, faults, unmarked, dropped, exchangeMode>>
      /\ entry' = [s \in Entries |-> IF s \in entries THEN "entered" ELSE entry[s]]
      /\ \A s \in entries : entry[s] = "waiting"
  BY DEF Tick, Free, faultState
<1> HIDE DEF items
<1>6. /\ entry \in [Entries -> {"waiting", "entered", "closed"}]
      /\ filled \subseteq Entries /\ dropped \subseteq Entries
  BY DEF AnnInv, AnnounceTypeOK
<1>7. entry' \in [Entries -> {"waiting", "entered", "closed"}]
  BY <1>5, <1>6
<1>8. \A i \in ToSet(items) : copies[i] <= Allowed(i)'
  BY <1>4, <1>5, UnmarkedMayBeSent DEF AnnInv, EntriesHappened, Items
<1>9. \A s \in Entries : entry'[s] = "waiting" => entry[s] = "waiting" /\ s \notin ToSet(items)
  BY <1>4, <1>5, <1>6
<1> QED
  BY <1>4, <1>5, <1>6, <1>7, <1>8, <1>9, TakeUpKeeps

LEMMA SyncEntryKeeps ==
    ASSUME AnnInv, NEW s \in Entries, SyncEntry(s)
    PROVE  AnnInv'
<1>1. /\ <<s>> \in Seq(Items) /\ IsInjective(<<s>>) /\ ToSet(<<s>>) = {s}
  BY ShortQueues DEF Items
<1>2. /\ stage \in {"idle", "down"} /\ Announce(<<s>>)
      /\ UNCHANGED <<filled, marked, copies, faults, unmarked, dropped, exchangeMode>>
      /\ entry' = [entry EXCEPT ![s] = "entered"] /\ entry[s] = "waiting"
  BY DEF SyncEntry, Free, faultState
<1>3. /\ entry \in [Entries -> {"waiting", "entered", "closed"}]
      /\ filled \subseteq Entries /\ dropped \subseteq Entries
  BY DEF AnnInv, AnnounceTypeOK
<1>4. entry' \in [Entries -> {"waiting", "entered", "closed"}]
  BY <1>2, <1>3
<1>5. s \notin marked /\ s \in Items
  BY <1>2 DEF AnnInv, EntriesHappened, Items
<1>6. \A i \in ToSet(<<s>>) : copies[i] <= Allowed(i)'
  BY <1>1, <1>2, <1>5, UnmarkedMayBeSent
<1>7. \A x \in Entries : entry'[x] = "waiting" => entry[x] = "waiting" /\ x \notin ToSet(<<s>>)
  BY <1>1, <1>2, <1>3
<1> QED
  BY <1>1, <1>2, <1>3, <1>4, <1>6, <1>7, TakeUpKeeps

LEMMA ReportFillKeeps ==
    ASSUME AnnInv, NEW s \in Entries, ReportFill(s)
    PROVE  AnnInv'
<1>1. /\ <<s>> \in Seq(Items) /\ IsInjective(<<s>>) /\ ToSet(<<s>>) = {s}
  BY ShortQueues DEF Items
<1>2. /\ stage \in {"idle", "down"} /\ Announce(<<s>>)
      /\ UNCHANGED <<marked, copies, faults, unmarked, dropped, exchangeMode>>
      /\ entry' = [entry EXCEPT ![s] = "entered"] /\ filled' = filled \cup {s}
      /\ s \notin filled /\ exchangeMode # "off"
      /\ entry[s] = IF exchangeMode = "market" THEN "entered" ELSE "waiting"
  BY DEF ReportFill, Free, faultState
<1>3. /\ entry \in [Entries -> {"waiting", "entered", "closed"}]
      /\ filled \subseteq Entries /\ dropped \subseteq Entries /\ unmarked[s] \in Nat
  BY AnnConstants DEF AnnInv, AnnounceTypeOK, Items
<1>4. /\ entry' \in [Entries -> {"waiting", "entered", "closed"}]
      /\ filled' \subseteq Entries /\ filled \subseteq filled'
  BY <1>2, <1>3
<1>5. s \in Items /\ copies[s] <= 1 + Allowed(s) /\ copies[s] \in Nat
  BY DEF AnnInv, CopiesAllowed, AnnounceTypeOK, Items
<1>6. copies[s] <= Allowed(s)'
  <2>1. CASE exchangeMode = "market"
    <3>1. Allowed(s) = unmarked[s] /\ Allowed(s)' = unmarked[s] + 1
      BY <1>2, <1>3, <2>1 DEF Allowed
    <3> QED
      BY <1>3, <1>5, <3>1
  <2>2. CASE exchangeMode # "market"
    <3>1. s \notin marked
      BY <1>2, <2>2 DEF AnnInv, EntriesHappened
    <3> QED
      BY <1>2, <1>4, <1>5, <3>1, UnmarkedMayBeSent
  <2> QED
    BY <2>1, <2>2
<1>7. \A i \in ToSet(<<s>>) : copies[i] <= Allowed(i)'
  BY <1>1, <1>6
<1>8. \A x \in Entries : entry'[x] = "waiting" => entry[x] = "waiting" /\ x \notin ToSet(<<s>>)
  BY <1>1, <1>2, <1>3
<1> QED
  BY <1>1, <1>2, <1>3, <1>4, <1>7, <1>8, TakeUpKeeps

\* Without a queue, whatever happens to an entry.
LEMMA QuietKeeps ==
    ASSUME AnnInv, UNCHANGED <<todo, stage, sweeping, marked, copies, faults, unmarked,
                     exchangeMode>>,
           entry' \in [Entries -> {"waiting", "entered", "closed"}],
           filled' \subseteq Entries, filled \subseteq filled', dropped' \subseteq Entries,
           \A s \in Entries : entry'[s] = "waiting" => entry[s] = "waiting"
    PROVE  AnnInv'
<1>1. AnnounceTypeOK' /\ NoRepeats' /\ EntriesHappened' /\ exchangeMode' \in ExchangeModes
  BY DEF AnnInv, AnnounceTypeOK, NoRepeats, EntriesHappened
<1>2. \A i \in Items : Allowed(i) <= Allowed(i)' /\ Allowed(i) \in Nat /\ Allowed(i)' \in Nat
                         /\ copies[i] \in Nat
  BY AnnConstants DEF Allowed, AnnounceTypeOK, AnnInv
<1>3. Pending' = Pending /\ \A i : Sent(i)' = Sent(i)
  BY DEF Pending, Sent
<1>4. CopiesAllowed'
  <2> SUFFICES ASSUME NEW i \in Items
               PROVE  /\ copies[i] <= 1 + Allowed(i)'
                      /\ i \in Pending \/ (i \notin marked /\ ~Sent(i)) => copies[i] <= Allowed(i)'
                      /\ i \in marked \/ Sent(i) => copies[i] > 0
    BY <1>3 DEF CopiesAllowed
  <2> QED
    BY <1>2 DEF AnnInv, CopiesAllowed
<1> QED
  BY <1>1, <1>4 DEF AnnInv

LEMMA SettleKeeps ==
    ASSUME AnnInv, NEW s \in Entries, RecoverFill(s) \/ CloseSignal(s)
    PROVE  AnnInv'
<1>1. /\ entry \in [Entries -> {"waiting", "entered", "closed"}]
      /\ filled \subseteq Entries /\ dropped \subseteq Entries
  BY DEF AnnInv, AnnounceTypeOK
<1>2. CASE RecoverFill(s)
  <2>1. /\ entry' = [entry EXCEPT ![s] = "entered"] /\ filled' = filled \cup {s}
        /\ dropped' = dropped \cup {s}
        /\ UNCHANGED <<todo, stage, sweeping, marked, copies, faults, unmarked,
                     exchangeMode>>
    BY <1>2 DEF RecoverFill, faultState
  <2>2. /\ entry' \in [Entries -> {"waiting", "entered", "closed"}]
        /\ filled' \subseteq Entries /\ filled \subseteq filled' /\ dropped' \subseteq Entries
        /\ \A x \in Entries : entry'[x] = "waiting" => entry[x] = "waiting"
    BY <1>1, <2>1
  <2> QED
    BY <2>1, <2>2, QuietKeeps
<1>3. CASE CloseSignal(s)
  <2>1. /\ entry' = [entry EXCEPT ![s] = "closed"] /\ UNCHANGED <<filled, dropped>>
        /\ UNCHANGED <<todo, stage, sweeping, marked, copies, faults, unmarked,
                     exchangeMode>>
    BY <1>3 DEF CloseSignal, faultState
  <2>2. /\ entry' \in [Entries -> {"waiting", "entered", "closed"}]
        /\ filled' \subseteq Entries /\ filled \subseteq filled' /\ dropped' \subseteq Entries
        /\ \A x \in Entries : entry'[x] = "waiting" => entry[x] = "waiting"
    BY <1>1, <2>1
  <2> QED
    BY <2>1, <2>2, QuietKeeps
<1> QED
  BY <1>2, <1>3

LEMMA WindowKeeps == AnnInv /\ (WindowMoves \/ UNCHANGED announceVars) => AnnInv'
<1> SUFFICES ASSUME AnnInv, WindowMoves \/ UNCHANGED announceVars PROVE AnnInv'
  OBVIOUS
<1>1. UNCHANGED <<entry, filled, dropped, todo, stage, sweeping, marked, copies, faults,
                  unmarked, exchangeMode>>
  BY DEF WindowMoves, announceVars, signalState, faultState
<1>2. /\ entry \in [Entries -> {"waiting", "entered", "closed"}]
      /\ filled \subseteq Entries /\ dropped \subseteq Entries
  BY DEF AnnInv, AnnounceTypeOK
<1> QED
  BY <1>1, <1>2, QuietKeeps

LEMMA RunJobKeeps ==
    ASSUME AnnInv, NEW j \in Jobs, RunJob(j)
    PROVE  AnnInv'
<1>1. /\ <<j>> \in Seq(Items) /\ IsInjective(<<j>>) /\ ToSet(<<j>>) = {j} /\ j \in Items
  BY ShortQueues DEF Items
<1>2. /\ stage \in {"idle", "down"} /\ Announce(<<j>>) /\ j \notin marked
      /\ UNCHANGED <<entry, filled, dropped, exchangeMode, marked, copies, faults, unmarked>>
  BY DEF RunJob, Free, signalState, faultState
<1>3. /\ entry \in [Entries -> {"waiting", "entered", "closed"}]
      /\ filled \subseteq Entries /\ dropped \subseteq Entries
  BY DEF AnnInv, AnnounceTypeOK
<1>4. \A i \in ToSet(<<j>>) : copies[i] <= Allowed(i)'
  BY <1>1, <1>2, UnmarkedMayBeSent
<1>5. \A x \in Entries : entry'[x] = "waiting" => entry[x] = "waiting" /\ x \notin ToSet(<<j>>)
  BY <1>1, <1>2, AnnConstants
<1> QED
  BY <1>1, <1>2, <1>3, <1>4, <1>5, TakeUpKeeps

LEMMA StartAnnKeeps ==
    ASSUME AnnInv, OrchestratorStarts
    PROVE  AnnInv'
<1> DEFINE entries == Unannounced(Entries)
           items == SetToSeq(entries)
<1>1. entries \subseteq Entries /\ \A s \in entries : entry[s] = "entered" /\ s \notin marked
  BY DEF Unannounced
<1>2. IsFiniteSet(entries)
  BY <1>1, AnnConstants, FS_Subset
<1>3. items \in Seq(entries) /\ IsInjective(items) /\ ToSet(items) \subseteq entries
  BY <1>2, SequenceOfSet
<1>4. items \in Seq(Items)
  BY <1>1, <1>3 DEF Items
<1>5. /\ stage \in {"idle", "down"} /\ Announce(items)
      /\ UNCHANGED <<entry, filled, dropped, exchangeMode, marked, copies, faults, unmarked>>
  BY DEF OrchestratorStarts, signalState, faultState
<1> HIDE DEF entries, items
<1>6. /\ entry \in [Entries -> {"waiting", "entered", "closed"}]
      /\ filled \subseteq Entries /\ dropped \subseteq Entries
  BY DEF AnnInv, AnnounceTypeOK
<1>7. \A i \in ToSet(items) : copies[i] <= Allowed(i)'
  BY <1>1, <1>3, <1>5, UnmarkedMayBeSent DEF Items
<1>8. \A x \in Entries : entry'[x] = "waiting" => entry[x] = "waiting" /\ x \notin ToSet(items)
  BY <1>1, <1>3, <1>5
<1> QED
  BY <1>3, <1>4, <1>5, <1>6, <1>7, <1>8, TakeUpKeeps

-----------------------------------------------------------------------------
LEMMA SendKeeps == AnnInv /\ SendNext => AnnInv'
<1> SUFFICES ASSUME AnnInv, SendNext PROVE AnnInv'
  OBVIOUS
<1> DEFINE h == Head(todo)
<1>1. todo # << >> /\ todo \in Seq(Items) /\ IsInjective(todo) /\ stage = "send"
  BY DEF AnnInv, AnnounceTypeOK, NoRepeats, SendNext
<1>2. /\ h \in Items /\ h \in ToSet(todo) /\ ToSet(Tail(todo)) \subseteq ToSet(todo)
      /\ h \notin ToSet(Tail(todo))
  BY <1>1, TailHasRest
<1>3. /\ copies' = [copies EXCEPT ![h] = @ + 1] /\ stage' = "mark"
      /\ UNCHANGED <<entry, filled, dropped, exchangeMode, marked, todo, sweeping, faults,
                  unmarked>>
  BY DEF SendNext, signalState, faultState
<1> HIDE DEF h
<1>4. copies \in [Items -> Nat]
  BY DEF AnnInv, AnnounceTypeOK
<1>5. /\ copies' \in [Items -> Nat] /\ copies'[h] = copies[h] + 1
      /\ \A i \in Items : i # h => copies'[i] = copies[i]
  BY <1>2, <1>3, <1>4
<1>6. AnnounceTypeOK' /\ NoRepeats' /\ EntriesHappened' /\ exchangeMode' \in ExchangeModes
  BY <1>1, <1>3, <1>5 DEF AnnInv, AnnounceTypeOK, NoRepeats, EntriesHappened
<1>7. \A i \in Items : Allowed(i)' = Allowed(i) /\ Allowed(i) \in Nat
  BY <1>3, AnnConstants DEF Allowed, AnnInv, AnnounceTypeOK
<1>8. /\ Pending = ToSet(todo) /\ Pending' = ToSet(Tail(todo))
      /\ \A i : ~Sent(i) /\ (Sent(i)' <=> i = h)
  BY <1>1, <1>3 DEF Pending, Sent, h
<1>9. CopiesAllowed'
  <2> SUFFICES ASSUME NEW i \in Items
               PROVE  /\ copies'[i] <= 1 + Allowed(i)
                      /\ i \in ToSet(Tail(todo)) \/ (i \notin marked /\ i # h)
                            => copies'[i] <= Allowed(i)
                      /\ i \in marked \/ i = h => copies'[i] > 0
    BY <1>3, <1>7, <1>8 DEF CopiesAllowed
  <2>1. /\ copies[i] <= 1 + Allowed(i)
        /\ i \in ToSet(todo) \/ i \notin marked => copies[i] <= Allowed(i)
        /\ i \in marked => copies[i] > 0
    BY <1>8 DEF AnnInv, CopiesAllowed
  <2> QED
    BY <1>2, <1>4, <1>5, <1>7, <2>1
<1> QED
  BY <1>6, <1>9 DEF AnnInv

\* A lost mark counts for the item in hand and for no other.
LEMMA MarksLost ==
    ASSUME AnnInv, LoseMark
    PROVE  /\ unmarked' \in [Items -> Nat]
           /\ \A i \in Items : unmarked'[i] = unmarked[i] + (IF Sent(i) THEN 1 ELSE 0)
<1>1. unmarked \in [Items -> Nat]
  BY DEF AnnInv, AnnounceTypeOK
<1>2. CASE stage = "mark"
  <2>1. unmarked' = [unmarked EXCEPT ![Head(todo)] = unmarked[Head(todo)] + 1]
    BY <1>2 DEF LoseMark
  <2>4. Head(todo) \in Items
    <3>1. todo # << >> /\ todo \in Seq(Items) /\ IsInjective(todo)
      BY <1>2 DEF AnnInv, AnnounceTypeOK, NoRepeats
    <3> QED
      BY <3>1, TailHasRest
  <2>2. \A i \in Items : unmarked'[i] = IF i = Head(todo) THEN unmarked[i] + 1 ELSE unmarked[i]
    BY <1>1, <2>1
  <2>3. unmarked' \in [Items -> Nat]
    BY <1>1, <2>1, <2>4
  <2> QED
    BY <1>1, <1>2, <2>2, <2>3 DEF Sent
<1>3. CASE stage # "mark"
  BY <1>1, <1>3 DEF LoseMark, Sent
<1> QED
  BY <1>2, <1>3

\* What follows when the process has marked an item, or goes on after a fault.
LEMMA GoOnKeeps ==
    ASSUME AnnInv, stage \in {"send", "mark"}, NEW rest \in {Tail(todo), << >>}, Announce(rest),
           UNCHANGED <<entry, filled, exchangeMode, copies>>, dropped' \subseteq Entries,
           faults' \in 0..MaxFaults,
           \/ stage = "mark" /\ marked' = marked \cup {Head(todo)} /\ unmarked' = unmarked
           \/ marked' = marked /\ LoseMark
    PROVE  AnnInv'
<1> DEFINE h == Head(todo)
<1>1. todo # << >> /\ todo \in Seq(Items) /\ IsInjective(todo)
  BY DEF AnnInv, AnnounceTypeOK, NoRepeats
<1>2. /\ Tail(todo) \in Seq(Items) /\ IsInjective(Tail(todo))
      /\ h \in Items /\ h \in ToSet(todo) /\ ToSet(Tail(todo)) \subseteq ToSet(todo)
      /\ h \notin ToSet(Tail(todo))
  BY <1>1, TailHasRest
<1> HIDE DEF h
<1>3. /\ rest \in Seq(Items) /\ IsInjective(rest) /\ ToSet(rest) \subseteq ToSet(Tail(todo))
  BY <1>2, ShortQueues
<1>4. /\ todo' = rest /\ ToSet(rest) \subseteq Items /\ sweeping' \in BOOLEAN
      /\ stage' \in {"idle", "send"} /\ (stage' \in {"send", "mark"}) = (todo' # << >>)
      /\ Pending' = ToSet(rest) /\ \A i : ~Sent(i)'
  BY <1>3, NextQueue DEF AnnInv
<1>5. marked' \subseteq Items
  BY <1>2 DEF AnnInv, AnnounceTypeOK, h
<1>0. /\ unmarked \in [Items -> Nat] /\ unmarked' \in [Items -> Nat]
      /\ \A i \in Items : unmarked'[i] >= unmarked[i]
      /\ LoseMark => \A i \in Items : unmarked'[i] = unmarked[i] + (IF Sent(i) THEN 1 ELSE 0)
  <2>1. unmarked \in [Items -> Nat]
    BY DEF AnnInv, AnnounceTypeOK
  <2>2. CASE unmarked' = unmarked /\ ~LoseMark
    BY <2>1, <2>2
  <2>3. CASE LoseMark
    BY <2>1, <2>3, MarksLost
  <2> QED
    BY <2>2, <2>3
<1>6. AnnounceTypeOK' /\ NoRepeats' /\ exchangeMode' \in ExchangeModes
  BY <1>3, <1>4, <1>5, <1>0 DEF AnnInv, AnnounceTypeOK, NoRepeats, Items
<1>7. \A i \in Items : /\ Allowed(i)' = Allowed(i) + unmarked'[i] - unmarked[i]
                       /\ Allowed(i) \in Nat /\ copies[i] \in Nat
  <2> SUFFICES ASSUME NEW i \in Items
               PROVE  /\ Allowed(i)' = Allowed(i) + unmarked'[i] - unmarked[i]
                      /\ Allowed(i) \in Nat /\ copies[i] \in Nat
    OBVIOUS
  <2>1. unmarked[i] \in Nat /\ unmarked'[i] \in Nat /\ copies[i] \in Nat
    BY <1>0 DEF AnnInv, AnnounceTypeOK
  <2> QED
    BY <2>1 DEF Allowed
<1>8. ToSet(Tail(todo)) \subseteq Pending
  BY <1>2 DEF Pending
<1>9. CopiesAllowed'
  <2> SUFFICES ASSUME NEW i \in Items
               PROVE  /\ copies[i] <= 1 + Allowed(i)'
                      /\ i \in ToSet(rest) \/ i \notin marked' => copies[i] <= Allowed(i)'
                      /\ i \in marked' => copies[i] > 0
    BY <1>4 DEF CopiesAllowed
  <2>1. /\ copies[i] <= 1 + Allowed(i)
        /\ i \in Pending \/ (i \notin marked /\ ~Sent(i)) => copies[i] <= Allowed(i)
        /\ i \in marked \/ Sent(i) => copies[i] > 0
    BY DEF AnnInv, CopiesAllowed
  <2>2. unmarked[i] \in Nat /\ unmarked'[i] \in Nat /\ unmarked'[i] >= unmarked[i]
    BY <1>0
  <2>3. CASE stage = "mark" /\ marked' = marked \cup {Head(todo)} /\ unmarked' = unmarked
    BY <1>3, <1>7, <1>8, <2>1, <2>2, <2>3 DEF Sent
  <2>4. CASE marked' = marked /\ LoseMark
    <3>1. Sent(i) => i = h /\ unmarked'[i] = unmarked[i] + 1
      BY <1>0, <2>4 DEF Sent, h
    <3>2. i \in ToSet(rest) => i \in Pending
      BY <1>3, <1>8
    <3> QED
      BY <1>7, <2>1, <2>2, <2>4, <3>1, <3>2
  <2> QED
    BY <2>3, <2>4
<1>10. EntriesHappened'
  <2>1. \A s \in Entries : entry[s] = "waiting" => s \notin marked /\ s \notin ToSet(todo)
    BY DEF AnnInv, EntriesHappened
  <2> QED
    BY <1>2, <1>3, <1>4, <2>1 DEF EntriesHappened, h
<1> QED
  BY <1>6, <1>9, <1>10 DEF AnnInv

LEMMA MarkKeeps == AnnInv /\ MarkNext => AnnInv'
<1> SUFFICES ASSUME AnnInv, MarkNext PROVE AnnInv'
  OBVIOUS
<1>1. /\ stage = "mark" /\ Announce(Tail(todo)) /\ marked' = marked \cup {Head(todo)}
      /\ UNCHANGED <<entry, filled, exchangeMode, copies, dropped, faults, unmarked>>
  BY DEF MarkNext, signalState, faultState
<1>2. dropped' \subseteq Entries /\ faults' \in 0..MaxFaults
  BY <1>1 DEF AnnInv, AnnounceTypeOK
<1>3. Tail(todo) \in {Tail(todo), << >>}
  OBVIOUS
<1> QED
  BY <1>1, <1>2, <1>3, GoOnKeeps

LEMMA FailKeeps == AnnInv /\ CycleFails => AnnInv'
<1> SUFFICES ASSUME AnnInv, CycleFails PROVE AnnInv'
  OBVIOUS
<1> DEFINE rest == IF sweeping THEN Tail(todo) ELSE << >>
<1>1. /\ stage \in {"send", "mark"} /\ faults < MaxFaults /\ faults' = faults + 1
      /\ dropped' = dropped \cup (Unsent \ ToSet(rest)) /\ Announce(rest) /\ LoseMark
      /\ UNCHANGED <<entry, filled, marked, copies, exchangeMode>>
  BY DEF CycleFails
<1>2. rest \in {Tail(todo), << >>}
  OBVIOUS
<1>3. faults' \in 0..MaxFaults
  BY <1>1, AnnConstants DEF AnnInv, AnnounceTypeOK
<1>4. dropped' \subseteq Entries
  BY <1>1 DEF AnnInv, AnnounceTypeOK, Unsent
<1> HIDE DEF rest
<1> QED
  BY <1>1, <1>2, <1>3, <1>4, GoOnKeeps

LEMMA DieKeeps == AnnInv /\ OrchestratorDies => AnnInv'
<1> SUFFICES ASSUME AnnInv, OrchestratorDies PROVE AnnInv'
  OBVIOUS
<1>1. /\ faults' \in 0..MaxFaults /\ LoseMark
      /\ todo' = << >> /\ stage' = "down" /\ sweeping' = FALSE
      /\ UNCHANGED <<entry, filled, marked, copies, exchangeMode>>
  BY AnnConstants DEF OrchestratorDies, AnnInv, AnnounceTypeOK
<1>2. dropped' \subseteq Entries
  BY DEF AnnInv, AnnounceTypeOK, Unsent, OrchestratorDies
<1>3. ToSet(todo') = {} /\ NoRepeats'
  BY <1>1, ShortQueues DEF NoRepeats
<1>0. /\ unmarked \in [Items -> Nat] /\ unmarked' \in [Items -> Nat]
      /\ \A i \in Items : /\ unmarked'[i] >= unmarked[i]
                          /\ Sent(i) => unmarked'[i] = unmarked[i] + 1
  <2>1. unmarked \in [Items -> Nat]
    BY DEF AnnInv, AnnounceTypeOK
  <2> QED
    BY <1>1, <2>1, MarksLost
<1>4. AnnounceTypeOK' /\ exchangeMode' \in ExchangeModes
  <2>1. /\ entry' \in [Entries -> {"waiting", "entered", "closed"}] /\ copies' \in [Items -> Nat]
        /\ filled' \subseteq Entries /\ marked' \subseteq Items /\ exchangeMode' \in ExchangeModes
    BY <1>1 DEF AnnInv, AnnounceTypeOK
  <2>2. stage' \notin {"send", "mark"} /\ ~(todo' # << >>)
    BY <1>1
  <2>3. ToSet(todo') \subseteq Entries \cup Jobs
    BY <1>3
  <2>4. stage' \in {"idle", "send", "mark", "down"} /\ sweeping' \in BOOLEAN
    BY <1>1
  <2>5. ((stage \in {"send", "mark"}) = (todo # << >>))'
    BY <2>2
  <2> QED
    BY <1>1, <1>2, <1>0, <2>1, <2>3, <2>4, <2>5, Zenon DEF AnnounceTypeOK
<1>5. Pending' = {} /\ \A i : ~Sent(i)'
  BY <1>1, <1>3 DEF Pending, Sent
<1>6. \A i \in Items : /\ Allowed(i)' = Allowed(i) + unmarked'[i] - unmarked[i]
                       /\ Allowed(i) \in Nat /\ copies[i] \in Nat
  BY <1>1, <1>0 DEF Allowed, AnnInv, AnnounceTypeOK
<1>7. CopiesAllowed' /\ EntriesHappened'
  <2>1. EntriesHappened'
    BY <1>1, <1>3 DEF AnnInv, EntriesHappened
  <2>2. ASSUME NEW i \in Items
        PROVE  /\ copies[i] <= 1 + Allowed(i)'
               /\ i \notin marked => copies[i] <= Allowed(i)'
               /\ i \in marked => copies[i] > 0
    <3>1. /\ copies[i] <= 1 + Allowed(i)
          /\ i \notin marked /\ ~Sent(i) => copies[i] <= Allowed(i)
          /\ i \in marked => copies[i] > 0
      BY DEF AnnInv, CopiesAllowed
    <3>2. /\ unmarked[i] \in Nat /\ unmarked'[i] \in Nat /\ unmarked'[i] >= unmarked[i]
          /\ Sent(i) => unmarked'[i] = unmarked[i] + 1
      BY <1>0
    <3>3. Allowed(i)' = Allowed(i) + unmarked'[i] - unmarked[i]
          /\ Allowed(i) \in Nat /\ copies[i] \in Nat
      BY <1>6
    <3> QED
      BY <3>1, <3>2, <3>3
  <2>3. CopiesAllowed'
    BY <1>1, <1>5, <2>2 DEF CopiesAllowed
  <2> QED
    BY <2>1, <2>3
<1> QED
  BY <1>3, <1>4, <1>7 DEF AnnInv

LEMMA AnnInvHolds == AnnounceSpec => []AnnInv
<1>1. AnnInv /\ [AnnounceNext]_announceVars => AnnInv'
  BY TickKeeps, SyncEntryKeeps, ReportFillKeeps, SettleKeeps, RunJobKeeps, WindowKeeps,
     StartAnnKeeps, SendKeeps, MarkKeeps, FailKeeps, DieKeeps DEF AnnounceNext, OrchestratorStep
<1> QED
  BY AnnInitHolds, <1>1, PTL DEF AnnounceSpec

\* An item is sent again only after its own mark was lost, or because it is a market entry
\* whose fill is announced as well, and whatever is marked was sent, for any entries and
\* daily messages and any number of faults (trading_orchestrator.py, daily_scheduler.py).
THEOREM CopiesBounded == AnnounceSpec => []RepeatedOnlyUnmarked
<1>1. AnnInv => RepeatedOnlyUnmarked
  <2> SUFFICES ASSUME AnnInv, NEW i \in Items
               PROVE  /\ copies[i] <= 1 + unmarked[i]
                            + (IF i \in filled /\ exchangeMode = "market" THEN 1 ELSE 0)
                      /\ i \in marked => copies[i] > 0
    BY DEF RepeatedOnlyUnmarked
  <2>1. copies[i] <= 1 + Allowed(i) /\ (i \in marked => copies[i] > 0)
    BY DEF AnnInv, CopiesAllowed
  <2>2. unmarked[i] \in Nat
    BY DEF AnnInv, AnnounceTypeOK
  <2> QED
    BY <2>1, <2>2 DEF Allowed
<1> QED
  BY AnnInvHolds, <1>1, PTL

\* The queue, the marks and the counts of the announcements have their types.
THEOREM AnnounceTypesHold == AnnounceSpec => []AnnounceTypeOK
<1>1. AnnInv => AnnounceTypeOK
  BY DEF AnnInv
<1> QED
  BY AnnInvHolds, <1>1, PTL

-----------------------------------------------------------------------------
(* All of them together                                                    *)

\* A step of the services is one of the part, or none of it.
LEMMA PartSteps ==
    ASSUME [ServicesNext]_serviceVars
    PROVE  /\ [FundNext]_fundVars /\ [AnnounceNext]_announceVars /\ [NewsNext]_newsVars
           /\ [AlertNext]_alertVars /\ [CandleNext]_candleVars /\ [AccountNext]_accountVars
           /\ [SlotNext]_slotVars /\ [LadderNext]_ladderVars /\ [LimitNext]_limitVars
<1>1. CASE UNCHANGED serviceVars
  BY <1>1 DEF serviceVars
<1>2. CASE FundNext /\ Others("fund")
  BY <1>2 DEF Others
<1>3. CASE AnnounceNext /\ Others("announcements")
  BY <1>3 DEF Others
<1>4. CASE NewsNext /\ Others("news")
  BY <1>4 DEF Others
<1>5. CASE AlertNext /\ Others("alerts")
  BY <1>5 DEF Others
<1>6. CASE CandleNext /\ Others("candles")
  BY <1>6 DEF Others
<1>7. CASE AccountNext /\ Others("accounts")
  BY <1>7 DEF Others
<1>8. CASE SlotNext /\ Others("slots")
  BY <1>8 DEF Others
<1>9. CASE LadderNext /\ Others("exits")
  BY <1>9 DEF Others
<1>10. CASE LimitNext /\ Others("limits")
  BY <1>10 DEF Others
<1> QED
  BY <1>1, <1>2, <1>3, <1>4, <1>5, <1>6, <1>7, <1>8, <1>9, <1>10 DEF ServicesNext

\* Every run of the composition is a run of each of its nine parts: focus keeps the
\* others still, and the fairness of the announcements is their own.
THEOREM PartsRun ==
    ServicesSpec => /\ FundSpec /\ AnnounceSpec /\ NewsSpec
                    /\ AlertSpec /\ CandleSpec /\ AccountSpec /\ SlotSpec /\ LadderSpec /\ LimitSpec
<1>1. ServicesInit => /\ FundInit /\ AnnounceInit /\ NewsInit /\ AlertInit /\ CandleInit
                      /\ AccountInit /\ SlotInit /\ LadderInit /\ LimitInit
  BY DEF ServicesInit
<1>2. [ServicesNext]_serviceVars =>
        /\ [FundNext]_fundVars /\ [AnnounceNext]_announceVars /\ [NewsNext]_newsVars
        /\ [AlertNext]_alertVars /\ [CandleNext]_candleVars /\ [AccountNext]_accountVars
        /\ [SlotNext]_slotVars /\ [LadderNext]_ladderVars /\ [LimitNext]_limitVars
  BY PartSteps
<1> QED
  BY <1>1, <1>2, PTL DEF ServicesSpec, FundSpec, AnnounceSpec, NewsSpec, AlertSpec, CandleSpec,
     AccountSpec, SlotSpec, LadderSpec, LimitSpec

\* The nine services, each taking steps while the others stand still, keep their types:
\* the composition implements the specification of every part, so that what is proved
\* of a part holds of it too.
THEOREM ServicesTypes == ServicesSpec => []ServicesTypeOK
BY PartsRun, FundTypesHold, AnnounceTypesHold, NewsTypesHold, AlertTypesHold, CandleTypesHold,
   AccountTypesHold, SlotTypesHold, LadderTypesHold, LimitTypesHold, PTL DEF ServicesTypeOK
=============================================================================
