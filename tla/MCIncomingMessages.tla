--------------------------- MODULE MCIncomingMessages ---------------------------
EXTENDS IncomingMessages, TLC
CONSTANTS m1, m2, m3
Messages == {m1, m2, m3}
Senders == (m1 :> 0) @@ (m2 :> 2) @@ (m3 :> 2)
OneLarge == {m2}
=============================================================================
