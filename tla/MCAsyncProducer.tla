-------------------------- MODULE MCAsyncProducer --------------------------
(***************************************************************************)
(* Small instances of AsyncProducer: lists of two or three items, with and *)
(* without tags, one loop and up to two triggers.                          *)
(***************************************************************************)
EXTENDS AsyncProducer, TLC

CONSTANTS a, b   \* two tags

TwoTags == {a, b}

Mixed == <<NoTag, a, b>>
OneRow == <<b>>
NoRows == <<>>

SomeTags == {{}, {b}}
=============================================================================
