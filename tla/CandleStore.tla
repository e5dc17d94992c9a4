----------------------------- MODULE CandleStore -----------------------------
(***************************************************************************)
(* The candles of one symbol and timeframe, kept twice: in a CSV file and  *)
(* in the table market_candles (services/market_data_sync.py,              *)
(* data/market_data_fetcher.py, storage/wave_repository.py).  A candle is  *)
(* its number; candle "now" is still forming and the exchange answers with *)
(* what it is so far.  Two processes synchronise, without a lock: the      *)
(* orchestrator its recent candles, and the command line all history.      *)
(***************************************************************************)
EXTENDS Integers, FiniteSets

CONSTANTS
    Lookback,       \* lookback_candles of the recent sync
    MaxCandles,     \* bound: candles ever formed
    MaxDeaths       \* bound: deaths of a process while it syncs

ASSUME CandleAssumption ==
    /\ Lookback \in Nat \ {0}
    /\ MaxCandles \in Nat \ {0}
    /\ MaxDeaths \in Nat

VARIABLES
    now,        \* the candle that is forming
    csv,        \* the CSV file: what it holds of each candle
    db,         \* market_candles, likewise
    syncing,    \* what each running sync still has to write, see Sync
    skipped,    \* history: candles no sync fetched after they closed
    lastFetch,  \* history: the newest candle a sync has brought to the table
    lagging,    \* history: closed candles of which a sync wrote an older form back
    deaths

candleVars == <<now, csv, db, syncing, skipped, lastFetch, lagging, deaths>>

-----------------------------------------------------------------------------
Candles == 1..MaxCandles

Forms == {"none", "partial", "final"}

Nothing == [c \in Candles |-> "none"]

\* The running syncs: of the orchestrator, and of sync-market-data
Syncs == {"recent", "whole"}

\* rows: what was fetched and is upserted at the end; merged: what is written to the file.
Sync == [at : {"idle", "read", "save", "upsert"}, rows : [Candles -> Forms],
         merged : [Candles -> Forms]]

NoSync == [at |-> "idle", rows |-> Nothing, merged |-> Nothing]

\* The answer of the exchange for the candles from first on
Fetched(first) ==
    [c \in Candles |->
        IF c < first \/ c > now THEN "none" ELSE IF c = now THEN "partial" ELSE "final"]

\* The first rows of the file a sync is writing
FirstRows(merged) ==
    {[c \in Candles |-> IF c <= last THEN merged[c] ELSE "none"] : last \in 0..MaxCandles}

\* What a process may find in the file, which the other may be writing.
FilesRead(p) ==
    {csv} \cup UNION {FirstRows(syncing[q].merged) : q \in {q \in Syncs \ {p} : syncing[q].at = "save"}}

\* Candles that opened within the last Lookback intervals
RecentFirst == now - Lookback + 1

\* Rows of the same candle: sort_values is not stable and drop_duplicates keeps
\* the first, so that either may stay.
Merges(old, new) ==
    {m \in [Candles -> Forms] :
        \A c \in Candles :
            IF new[c] = "none" THEN m[c] = old[c]
            ELSE IF old[c] = "none" THEN m[c] = new[c]
            ELSE m[c] \in {old[c], new[c]}}

\* Mutant of Upserted: INSERT OR IGNORE.
UpsertedIfNew(rows) == [c \in Candles |-> IF db[c] = "none" THEN rows[c] ELSE db[c]]

\* ON CONFLICT DO UPDATE
Upserted(rows) == [c \in Candles |-> IF rows[c] = "none" THEN db[c] ELSE rows[c]]

-----------------------------------------------------------------------------
\* The next candle opens.
CandleCloses ==
    /\ now < MaxCandles
    /\ now' = now + 1
    /\ UNCHANGED <<csv, db, syncing, skipped, lastFetch, lagging, deaths>>

Begin(p, rows) ==
    /\ syncing[p].at = "idle"
    /\ syncing' = [syncing EXCEPT ![p] = [at |-> "read", rows |-> rows, merged |-> Nothing]]
    /\ UNCHANGED <<now, csv, db, skipped, lastFetch, lagging, deaths>>

\* sync_recent_market_data, at the start and every five minutes: the last
\* candles, or all of them if it finds the file empty.
SyncRecent ==
    \E file \in FilesRead("recent") :
        Begin("recent", Fetched(IF file # Nothing THEN RecentFirst ELSE 1))

\* sync_market_data, from the command line
SyncAll == Begin("whole", Fetched(1))

\* _merge_with_existing_csv.  A whole sync goes on with the merged rows, a
\* recent one with those it has fetched.
MergeCsv(p) ==
    /\ syncing[p].at = "read"
    /\ \E file \in FilesRead(p) : \E all \in Merges(file, syncing[p].rows) :
          syncing' = [syncing EXCEPT ![p] =
              [at |-> "save", merged |-> all, rows |-> IF p = "whole" THEN all ELSE @.rows]]
    /\ UNCHANGED <<now, csv, db, skipped, lastFetch, lagging, deaths>>

\* to_csv: the other process may have written in between.
SaveCsv(p) ==
    /\ syncing[p].at = "save"
    /\ csv' = syncing[p].merged
    /\ syncing' = [syncing EXCEPT ![p].at = "upsert", ![p].merged = Nothing]
    /\ UNCHANGED <<now, db, skipped, lastFetch, lagging, deaths>>

LastOf(rows) ==
    CHOOSE c \in Candles : rows[c] # "none" /\ \A d \in Candles : rows[d] # "none" => d <= c

\* The other process has brought a newer candle to the table.
Overtaken(rows) == LastOf(rows) < lastFetch

\* upsert_market_candles: one transaction
UpsertCandles(p) ==
    LET rows == syncing[p].rows IN
    /\ syncing[p].at = "upsert"
    /\ db' = Upserted(rows)
    /\ syncing' = [syncing EXCEPT ![p] = NoSync]
    /\ lastFetch' = IF Overtaken(rows) THEN lastFetch ELSE LastOf(rows)
    /\ skipped' = {c \in skipped \cup (lastFetch..LastOf(rows) - 1) : rows[c] = "none"}
    /\ lagging' = {c \in lagging : rows[c] # "final"} \cup
                    {c \in 1..lastFetch' - 1 :
                        (p = "whole" \/ Overtaken(rows)) /\ rows[c] = "partial"}
    /\ UNCHANGED <<now, csv, deaths>>

\* The process dies between the two stores, or while it writes the file, of
\* which the first rows are left.
SyncDies(p) ==
    /\ syncing[p].at # "idle"
    /\ deaths < MaxDeaths
    /\ deaths' = deaths + 1
    /\ \/ UNCHANGED csv
       \/ syncing[p].at = "save" /\ csv' \in FirstRows(syncing[p].merged)
    /\ syncing' = [syncing EXCEPT ![p] = NoSync]
    /\ UNCHANGED <<now, db, skipped, lastFetch, lagging>>

-----------------------------------------------------------------------------
CandleInit ==
    /\ now = 1
    /\ csv = Nothing
    /\ db = Nothing
    /\ syncing = [p \in Syncs |-> NoSync]
    /\ skipped = {}
    /\ lastFetch = 1
    /\ lagging = {}
    /\ deaths = 0

CandleNext ==
    \/ CandleCloses
    \/ SyncRecent
    \/ SyncAll
    \/ \E p \in Syncs : MergeCsv(p) \/ SaveCsv(p) \/ UpsertCandles(p) \/ SyncDies(p)

CandleSpec == CandleInit /\ [][CandleNext]_candleVars

-----------------------------------------------------------------------------
CandleTypeOK ==
    /\ now \in Candles
    /\ csv \in [Candles -> Forms]
    /\ db \in [Candles -> Forms]
    /\ syncing \in [Syncs -> Sync]
    /\ skipped \subseteq Candles
    /\ lastFetch \in Candles
    /\ lagging \subseteq Candles
    /\ deaths \in 0..MaxDeaths

(* The table holds the final form of every candle that closed before the   *)
(* newest one in it opened, unless no sync came by while the candle was    *)
(* among the last Lookback ones, or an older form of it was written back:  *)
(* by a whole sync from the file, or by a sync that the other process had  *)
(* overtaken.  A death between the two stores leaves no lasting trace.     *)
TableFinal ==
    \A c \in 1..lastFetch - 1 :
        \/ db[c] = "final"
        \/ c \in skipped
        \/ c \in lagging
=============================================================================
