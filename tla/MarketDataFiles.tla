--------------------------- MODULE MarketDataFiles ---------------------------
(***************************************************************************)
(* src/frontend/crypto/util/BybitTradesDownloader.cpp: which files a       *)
(* historical request reads, and the reader that hands out their trades.   *)
(* A day is Day units of time long; a file is the sequence of the trades   *)
(* of one day.                                                             *)
(***************************************************************************)
EXTENDS Integers, Sequences, SequencesExt

CONSTANTS
  Day,        \* 24 hours
  TradesOf    \* the file of each day: a function to sequences of trades

ASSUME DayIsPositive == Day \in Nat \ {0}

None == "none"   \* std::nullopt

ASSUME FilesHoldTrades ==
  \A d \in DOMAIN TradesOf : TradesOf[d] \in Seq(ToSet(TradesOf[d]) \ {None})

date(t) == t \div Day

(* Mutant: the days are stepped over as long as they begin inside the range. *)
time_range_to_string_list_Aligned(range) ==
  [k \in 1 .. (date(range.end - 1) - date(range.start)) |-> date(range.start) + k - 1]

(* The dates of start, start + 24 h, ... as long as that is before the end. *)
time_range_to_string_list(range) ==
  [k \in 1 .. ((range.end - range.start + Day - 1) \div Day) |-> date(range.start) + k - 1]

(* download: every file or, when one cannot be had, none. *)
download(range, available) ==
  LET days == time_range_to_string_list(range) IN
  IF ToSet(days) \subseteq available THEN days ELSE <<>>

(* SequentialMarketDataReader *)
NewReader(files) == [m_files |-> files, m_public_trades |-> <<>>]

(* Mutant: a file without trades ends the data. *)
FirstWithTrades_First(files) ==
  IF files # <<>> /\ TradesOf[files[1]] # <<>> THEN 1 ELSE 0

(* get_next calls itself after each file it has loaded. *)
FirstWithTrades(files) ==
  SelectInSeq(files, LAMBDA d : TradesOf[d] # <<>>)

(* get_next: the trade, and the reader that is left *)
get_next(reader) ==
  LET files == reader.m_files
      n     == FirstWithTrades(files)
  IN IF reader.m_public_trades # <<>>
     THEN [trade |-> Head(reader.m_public_trades),
           reader |-> [reader EXCEPT !.m_public_trades = Tail(@)]]
     ELSE IF n = 0
     THEN [trade |-> None, reader |-> NewReader(<<>>)]
     ELSE [trade |-> Head(TradesOf[files[n]]),
           reader |-> [m_files |-> SubSeq(files, n + 1, Len(files)),
                       m_public_trades |-> Tail(TradesOf[files[n]])]]
=============================================================================
