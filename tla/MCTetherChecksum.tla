------------------------- MODULE MCTetherChecksum --------------------------
(***************************************************************************)
(* Edge words for the checksum rewrite: all-zero and all-one words (the    *)
(* two one's complement zeros), a private address, TTL at its guard and at *)
(* its maximum, and csum representatives with and without the high half   *)
(* set so that the 32-bit end-around carry of csum_add is taken.           *)
(***************************************************************************)
EXTENDS TetherChecksum

MCTtls == {2, 255}
MCProtos == {6, 17}
MCAddrs == {<<0, 0>>, <<65535, 65535>>, <<43200, 257>>}   \* 192.168.1.1
MCPorts == {53, 65535}
MCRests == {0, 4660, 65535}
\* 0x45 0x00 | tot_len 1500 | id 0 | DF, as little-endian u16 loads
MCHeadWords == <<69, 56325, 0, 64>>
MCHopLimits == {2, 255}
MCNextHdrs == {6, 17}

====
