--------------------------- MODULE MCPagePolling ---------------------------
(* For TLC: one page of each kind (pages share nothing but the calls that  *)
(* bound them), and room for polls of a page that should not be there.     *)
EXTENDS PagePolling

CONSTANTS pay, pop
MCPaymentPages == {pay}
MCPopPages == {pop}
=============================================================================
