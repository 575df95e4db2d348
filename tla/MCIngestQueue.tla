---------------------------- MODULE MCIngestQueue ----------------------------
(***************************************************************************)
(* Instances of the ingest queue for TLC: two files that share a page.     *)
(* "A" names the source page of the first one; the name of the second one  *)
(* has a comma and is read back as two names, one of them that of a file.  *)
(***************************************************************************)
EXTENDS IngestQueue

MCUpload == {"a", "b"}
MCFile == {"A", "B", "B, A"}
MCfile == [u \in MCUpload |-> IF u = "a" THEN "A" ELSE "B, A"]
MCslugify == [f \in MCFile |-> IF f = "A" THEN "A" ELSE "B"]
MCparsed == [f \in MCFile |-> IF f = "B, A" THEN {"A", "B"} ELSE {f}]
MCHash == {1, 2}
MChash == [u \in MCUpload |-> IF u = "a" THEN 1 ELSE 2]
MCPage == {"shared"}
MCgenerates == [u \in MCUpload |-> MCPage]
MClinks == {"shared"}
MCwritten == {{}, {"B"}}
=============================================================================
