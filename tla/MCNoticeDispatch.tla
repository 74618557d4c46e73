--------------------------- MODULE MCNoticeDispatch ---------------------------
(***************************************************************************)
(* Instances of NoticeDispatch for TLC.                                    *)
(***************************************************************************)
EXTENDS NoticeDispatch

Undo == {"pay", "unmatch"}
===============================================================================
