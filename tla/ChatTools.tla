----------------------------- MODULE ChatTools -----------------------------
(***************************************************************************)
(* The plugins an owner keeps his chats with, side by side: trace, search, *)
(* and aban with bulkdelete.  They share nothing.                          *)
(***************************************************************************)
EXTENDS Trace, Search, Moderation

(* What was answered holds, what was asked for is found, and nobody else's *)
(* messages are touched.                                                   *)
ChatToolsAreSound == RulesAreKept /\ SearchIsSound /\ ModerationIsSound
=============================================================================
