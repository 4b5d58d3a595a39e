-------------------------------- MODULE Feed --------------------------------
(***************************************************************************)
(* The market data service and the strategy service over the publisher     *)
(* that joins them (port 5556): each step is one of either.                *)
(***************************************************************************)
EXTENDS MarketData

CONSTANTS MinInterval, Nanos, Period, History, DepthLevels, PlainSpread,
          TrendSpread, Bps, Cent, MaxStarts

ASSUME MarketMakerAssumption ==
    /\ MinInterval \in Nat /\ Nanos \in Nat \ {0} /\ MaxStarts \in Nat
    /\ Period \in Nat \ {0} /\ History \in Nat /\ History >= Period
    /\ DepthLevels \in Nat \ {0} /\ Bps \in Nat \ {0} /\ Cent \in Nat \ {0}
    /\ PlainSpread \subseteq 1..Bps /\ TrendSpread \subseteq 1..Bps

VARIABLES up, lastSignal, samples, hasEma, quote, starts

Maker == INSTANCE MarketMaker

makerVars == <<up, lastSignal, samples, hasEma, quote, starts>>
feedVars == <<vars, makerVars>>

FeedInit == Init /\ Maker!Start

FeedNext ==
    \/ Next /\ UNCHANGED makerVars
    \/ Maker!Trade /\ UNCHANGED <<streamVars, queue, main, bookVars, clock, messages, steps>>

\* Both loops are polled.
FeedSpec == FeedInit /\ [][FeedNext]_feedVars /\ WF_feedVars(Loop /\ UNCHANGED makerVars)

----------------------------------------------------------------------------
(* Properties of the composition.                                           *)

\* What is quoted stands on both sides of the middle of a book that was
\* published, however it is rounded and skewed.
QuotesAroundMiddle ==
    \A i \in DOMAIN quote :
        IF quote[i].type = "Buy" THEN 2 * quote[i].price * Cent <= quote[i].mid2
                                 ELSE 2 * quote[i].price * Cent >= quote[i].mid2

\* "50ms minimum interval" (strategies/src/main.rs:90): a book that arrives
\* that long after the last quote is quoted, unless receiving it fails.  The
\* code compares with a million times the interval.
QuotesEveryInterval ==
    [][(/\ up /\ up' /\ wire # <<>> /\ wire' = Tail(wire)
        /\ Head(wire).time - lastSignal >= MinInterval)
       => lastSignal' = Head(wire).time]_feedVars
=============================================================================
