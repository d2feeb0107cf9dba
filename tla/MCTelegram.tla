----------------------------- MODULE MCTelegram -----------------------------
(* The two arrays of locc.c, of which the firmware sends only the second,  *)
(* and three values for the memory behind them.                            *)
EXTENDS Telegram

statusTelegram == <<1, 0, 0, 0, 0, 0, 32, 0>>
openTelegram == <<2, 35, 66, 183, 0, 0, 99, 0>>

MCTelegrams == {statusTelegram, openTelegram}
MCSent == {openTelegram}
MCBeyond == {0, 1, 255}
=============================================================================
