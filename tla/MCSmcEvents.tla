----------------------------- MODULE MCSmcEvents -----------------------------
(* Two posting threads, the three event codes of AppleSmc.h, two contents  *)
(* and two slots: one slot fewer than codes, so that merging, queueing     *)
(* behind another code and refusing for want of a slot all happen.         *)
EXTENDS SmcEvents

MCCodes == {"KeyDone", "LogMessage", "ALSChange"}
=============================================================================
