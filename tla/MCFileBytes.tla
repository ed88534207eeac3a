---------------------------- MODULE MCFileBytes -----------------------------
(***************************************************************************)
(* FileBytes with sectors of three bytes and files of up to three sectors. *)
(***************************************************************************)
EXTENDS FileBytes

MCTexts == {<<1>>, <<2, 1>>, <<1, 2, 2>>}
MCMinPos == -8
MCOffsets == 0 .. MaxLength        \* what seek is meant for
MCPlaces == {-5, -1} \cup MCOffsets
=============================================================================
