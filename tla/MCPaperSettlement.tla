------------------------- MODULE MCPaperSettlement -------------------------
(***************************************************************************)
(* An instance of PaperSettlement for TLC: a purchase and a sale of one    *)
(* code and a purchase rejected by the broker, settled under the default   *)
(* profile; a fill of the unsettled kind; one correction of the cash, one  *)
(* of a position; a dividend with bonus shares.                            *)
(***************************************************************************)
EXTENDS PaperSettlement, TLC

Buy == [id |-> "buy", code |-> "A", side |-> "BUY", day |-> 1, shares |-> 10, value |-> 20]
Sell == [id |-> "sell", code |-> "A", side |-> "SELL", day |-> 2, shares |-> 4, value |-> 9]
Rejected == [id |-> "rejected", code |-> "A", side |-> "BUY", day |-> 1, shares |-> 0, value |-> 0]
Old == [id |-> "old", code |-> "A", side |-> "BUY", day |-> 1, shares |-> 3, value |-> 5]

MCFills == {Buy, Sell, Rejected, Old}
MCBatches == {<<Buy, Rejected>>, <<Sell>>}
MCLegacyFills == {Old}
MCAdjustments ==
    {[id |-> "cash", code |-> "A", shares |-> 0, cash |-> 7],
     [id |-> "shares", code |-> "A", shares |-> -1, cash |-> 0]}
MCActions == {[id |-> "action", code |-> "A", day |-> 2, dividend |-> 1, bonus |-> 2]}
DefaultLag == ("trade_buy_cash" :> 0) @@ ("trade_buy_shares" :> 1)
              @@ ("trade_sell_shares" :> 0) @@ ("trade_sell_cash" :> 1)
=============================================================================
