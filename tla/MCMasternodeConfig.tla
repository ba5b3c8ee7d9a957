------------------------- MODULE MCMasternodeConfig -------------------------
(***************************************************************************)
(* Two entries with distinct aliases, a third sharing the first's alias,   *)
(* one isValid accepts but read() rejects on this network (a mainnet port  *)
(* on testnet, say) and one isValid rejects.  isValid is taken to accept   *)
(* every line read() accepts, a cut one included (an output index cut to  *)
(* a shorter number).                                                      *)
(***************************************************************************)
EXTENDS MasternodeConfig

CONSTANTS mn1, mn2, mn1dup, badPort, invalid

MCEntries == {mn1, mn2, mn1dup, badPort, invalid}
MCAlias(e) == CASE e \in {mn1, mn1dup} -> "a" [] e = mn2 -> "b"
                [] e = badPort -> "c" [] OTHER -> "d"
MCValid == {mn1, mn2, mn1dup, badPort, Cut}
MCParsable == {mn1, mn2, mn1dup, invalid}
MCInitFiles == {<<>>, <<mn1>>, <<mn1, mn2>>}

====
