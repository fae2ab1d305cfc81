--------------------------- MODULE MCConnManager ---------------------------
(***************************************************************************)
(* The code's own periods: ten wake-ups to connect, grace periods of five  *)
(* and ten.  An outage can end within its grace period, leave a stamp, and *)
(* be followed by another one through other modes.                         *)
(***************************************************************************)
EXTENDS ConnManagerProps
=============================================================================
