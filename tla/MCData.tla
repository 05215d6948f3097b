------------------------------- MODULE MCData -------------------------------
(* Books with one side or both, trades, a message type the bot skips and a *)
(* book of the other token.                                                *)
EXTENDS MarketData

Message(type, token, has) == [type |-> type, token |-> token, has |-> has]
SomeMessages == {Message("book", "yes", {"bids", "asks"}),
                 Message("book", "yes", {"bids", "price"}),
                 Message("book", "yes", {"asks"}),
                 Message("trade", "yes", {"price", "size"}),
                 Message("other", "yes", {"bids", "asks"}),
                 Message("book", "no", {"bids", "asks"})}
=============================================================================
