----------------------------- MODULE MCToolkits -----------------------------
(***************************************************************************)
(* The toolkits' real constants, every text of up to five characters over  *)
(* two letters, every header of up to three ranges.                        *)
(***************************************************************************)
EXTENDS Toolkits

ShortTexts == BoundedSeq({"a", "b"}, 5)

ShortHeaders == BoundedSeq([tag : {"en", "id", "fr", ""}, q : {None, 0, 5, 15}], 3)
=============================================================================
