---------------------------- MODULE MCTelegramBot ----------------------------
(* A small instance of TelegramBot: three updates of any kind.               *)
EXTENDS TelegramBot, TLC

Symmetry == Permutations(Updates)
=============================================================================
