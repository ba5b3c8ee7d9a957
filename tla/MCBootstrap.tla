---------------------------- MODULE MCBootstrap ----------------------------
(* Bootstrap with two ledger subtrees and four kinds of archive: a good    *)
(* one, one of another network, one without chainstate, and a file that   *)
(* is not a zip archive.                                                   *)
EXTENDS Bootstrap

CONSTANTS GoodZip, OtherNetZip, PartialZip, NotZip

MCSubtrees == {"blocks", "chainstate"}
MCArchives == {GoodZip, OtherNetZip, PartialZip, NotZip}
MCZips == {GoodZip, OtherNetZip, PartialZip}
MCOtherNet == {OtherNetZip}
MCLayout(a) == IF a = PartialZip THEN {"blocks"} ELSE MCSubtrees
\* The server may deliver the archive, or garbage (an error page).
MCCloudArchives == {GoodZip, NotZip}
MCExtArchives == {GoodZip, OtherNetZip, PartialZip}
====
