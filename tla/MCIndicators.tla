---------------------------- MODULE MCIndicators ----------------------------
(* Model of Indicators: rising, falling and flat prices, volumes within    *)
(* and beyond an int of eight values, and ticks the VWAP refuses.          *)
EXTENDS Indicators
MCBar == {[price |-> 1, high |-> 2, low |-> 1, volume |-> 1],
          [price |-> 2, high |-> 4, low |-> 2, volume |-> 11],
          [price |-> 4, high |-> 5, low |-> 3, volume |-> 6],
          [price |-> 3, high |-> 0, low |-> 3, volume |-> 1],
          [price |-> 3, high |-> 3, low |-> 2, volume |-> -2]}
=============================================================================
