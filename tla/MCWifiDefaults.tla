--------------------------- MODULE MCWifiDefaults ---------------------------
(* Both radios of the board, the first-boot script, any number of reboots, *)
(* and an operator with three wishes for the 2.4 GHz radio: a network of   *)
(* one's own switched off, a station of one's own in place of the access   *)
(* point, and the network that is there switched on as it is.              *)
EXTENDS WifiDefaults

MCWishes ==
    {[radio |-> "2g", off |-> TRUE, ap |-> TRUE, own |-> TRUE, kept |-> TRUE],
     [radio |-> "2g", off |-> FALSE, ap |-> FALSE, own |-> TRUE, kept |-> FALSE],
     [radio |-> "2g", off |-> FALSE, ap |-> TRUE, own |-> FALSE, kept |-> TRUE]}

=============================================================================
