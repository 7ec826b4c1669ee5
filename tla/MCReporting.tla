------------------------------ MODULE MCReporting ------------------------------
(***************************************************************************)
(* Instances of ReportingSystem: an artifact is named and known by its     *)
(* report and its format, the client's images are interchangeable.         *)
(***************************************************************************)
EXTENDS ReportingSystem, TLC

Artifacts  == (1 .. MaxReports) \X {"evidence", "html", "pdf", "diagnostic"}
ClientKeys == {<< 0, "image" >>}
AllIds      == Artifacts \cup ClientKeys
AllContents == Artifacts \cup ClientContents

ImageSymmetry == Permutations(ClientContents)
=============================================================================
