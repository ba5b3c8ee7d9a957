------------------------------ MODULE MCStageII ------------------------------
(* Instantiation of StageII for TLC: the three subtrees of                *)
(* GetBootstrapDirList in their loop order, three ledger contents, and     *)
(* configurations of two lines each, one of them an addnode line.          *)
EXTENDS StageII

CONSTANTS Orig, Old

MCSubtrees == {"blocks", "chainstate", "zerocoin"}
MCDirList  == <<"blocks", "chainstate", "zerocoin">>
MCContents == {Orig, Old, Boot}
MCLines    == {"a=1", "addnode=1.2.3.4", "c=3", "addnode=5.6.7.8"}
MCAddnode  == {"addnode=1.2.3.4", "addnode=5.6.7.8"}
MCUserConfs == {Absent, <<"a=1", "addnode=1.2.3.4">>}
MCBootConfs == {Absent, <<"addnode=5.6.7.8", "c=3">>}
=============================================================================
