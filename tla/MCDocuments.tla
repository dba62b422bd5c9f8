---------------------------- MODULE MCDocuments ----------------------------
(***************************************************************************)
(* Five texts, one for every way in which a document can end; one of them  *)
(* is scanned differently without tags.                                    *)
(***************************************************************************)
EXTENDS Documents

Ok == [scan |-> "ok", parse |-> "ok", run |-> "ok"]

TwoDialects == {"tt3", "unplugged"}
FiveTexts == {"good", "torn", "odd", "failing", "empty"}

InTags == [good |-> Ok,
           torn |-> [Ok EXCEPT !.scan = "late"],
           odd |-> [Ok EXCEPT !.parse = "error"],
           failing |-> [Ok EXCEPT !.run = "error"],
           empty |-> [Ok EXCEPT !.parse = "none"]]
Unplugged == [InTags EXCEPT !["torn"].scan = "early", !["odd"] = [Ok EXCEPT !.scan = "fatal"]]
Meaning == [d \in TwoDialects |-> IF d = "tt3" THEN InTags ELSE Unplugged]

AllGood == [d \in TwoDialects |-> [t \in FiveTexts |-> Ok]]
TwoTexts == {"good", "empty"}
OneFile == {"file"}
=============================================================================
