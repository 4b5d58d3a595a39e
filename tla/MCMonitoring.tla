---------------------------- MODULE MCMonitoring ----------------------------
(* The orders of Monitoring's instances: a purchase that another symbol's    *)
(* precedes, and two sales of a part of it that share a timestamp.           *)
EXTENDS Monitoring

MCSymbols == {"BTC", "ETH"}

MCDetail == <<[symbol |-> "ETH", time |-> 1, side |-> "Buy", quantity |-> 1, price |-> 20],
              [symbol |-> "BTC", time |-> 2, side |-> "Buy", quantity |-> 2, price |-> 10],
              [symbol |-> "BTC", time |-> 3, side |-> "Sell", quantity |-> 1, price |-> 15],
              [symbol |-> "BTC", time |-> 3, side |-> "Sell", quantity |-> 1, price |-> 8]>>
=============================================================================
