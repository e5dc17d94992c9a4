----------------------------- MODULE NewsDigest -----------------------------
(***************************************************************************)
(* The news monitor (services/news_rss_monitor.py, process_news_cycle), a  *)
(* process of its own: once a day it sends one digest of the newest items  *)
(* that news_items does not hold yet, and records each of them.            *)
(*                                                                         *)
(* Items are numbered in their order of publication.                       *)
(***************************************************************************)
EXTENDS Integers, FiniteSets

CONSTANTS
    News,           \* items the feeds may show
    MaxItems,       \* max_items of a digest
    MaxNewsFaults   \* bound: failed or killed cycles

ASSUME NewsAssumption ==
    /\ News \subseteq Nat /\ IsFiniteSet(News)
    /\ MaxItems \in Nat \ {0}
    /\ MaxNewsFaults \in Nat

VARIABLES
    feed,           \* items the feeds show
    recorded,       \* table news_items
    mailed,         \* how often each item was in a digest sent
    digest,         \* items of the digest in the making
    newsStage,      \* sleep, send or record
    newsFaults      \* failed or killed cycles

newsVars == <<feed, recorded, mailed, digest, newsStage, newsFaults>>

-----------------------------------------------------------------------------
\* Items come and go in the feeds of several sources.
FeedMoves(items) ==
    /\ items # feed
    /\ feed' = items
    /\ UNCHANGED <<recorded, mailed, digest, newsStage, newsFaults>>

\* Mutant of NewestNews: a digest of everything.
NewestAll(items) == items

NewestNews(items) == {n \in items : Cardinality({k \in items : k > n}) < MaxItems}

\* Mutant of UnsentNews: the feed is not compared with news_items.
UnsentNewsOrNot == {n \in feed : mailed[n] < 3}

UnsentNews == feed \ recorded

\* The cycle of 08:00
ReadFeeds ==
    /\ newsStage = "sleep"
    /\ UnsentNews # {}
    /\ digest' = NewestNews(UnsentNews)
    /\ newsStage' = "send"
    /\ UNCHANGED <<feed, recorded, mailed, newsFaults>>

\* The answer of send_notification is not looked at.
SendDigest ==
    /\ newsStage = "send"
    /\ mailed' = [n \in News |-> mailed[n] + IF n \in digest THEN 1 ELSE 0]
    /\ newsStage' = "record"
    /\ UNCHANGED <<feed, recorded, digest, newsFaults>>

\* record_news_item commits each item by itself, the newest first.
RecordItem(n) ==
    /\ newsStage = "record"
    /\ n \in digest
    /\ \A k \in digest : k <= n
    /\ recorded' = recorded \cup {n}
    /\ digest' = digest \ {n}
    /\ newsStage' = IF digest = {n} THEN "sleep" ELSE "record"
    /\ UNCHANGED <<feed, mailed, newsFaults>>

\* An exception, which the loop catches, or a death and a new start
NewsCycleFails ==
    /\ newsStage # "sleep"
    /\ newsFaults < MaxNewsFaults
    /\ newsFaults' = newsFaults + 1
    /\ digest' = {}
    /\ newsStage' = "sleep"
    /\ UNCHANGED <<feed, recorded, mailed>>

-----------------------------------------------------------------------------
NewsInit ==
    /\ feed = {}
    /\ recorded = {}
    /\ mailed = [n \in News |-> 0]
    /\ digest = {}
    /\ newsStage = "sleep"
    /\ newsFaults = 0

NewsCycle == ReadFeeds \/ SendDigest \/ \E n \in News : RecordItem(n)

NewsNext ==
    \/ \E items \in SUBSET News : FeedMoves(items)
    \/ NewsCycle
    \/ NewsCycleFails

NewsSpec == NewsInit /\ [][NewsNext]_newsVars

-----------------------------------------------------------------------------
NewsTypeOK ==
    /\ feed \subseteq News
    /\ recorded \subseteq News
    /\ mailed \in [News -> Nat]
    /\ digest \subseteq News
    /\ Cardinality(digest) <= MaxItems
    /\ newsStage \in {"sleep", "send", "record"}
    /\ (newsStage = "sleep") = (digest = {})
    /\ newsFaults \in 0..MaxNewsFaults

(* An item is mailed twice only if a cycle failed between the digest and   *)
(* the item's record, and what is recorded was mailed: what a digest has   *)
(* no room for is not recorded with it.                                    *)
MailedOncePerFault ==
    \A n \in News :
        /\ mailed[n] <= 1 + newsFaults
        /\ n \in recorded => mailed[n] > 0
=============================================================================
