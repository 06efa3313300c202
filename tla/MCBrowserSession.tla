-------------------------- MODULE MCBrowserSession --------------------------
(* Instances of BrowserSession for TLC: two browsers with a tab each. *)
EXTENDS BrowserSession, TLC

CONSTANTS t1, t2, b1, b2

OwnBrowser == (t1 :> b1) @@ (t2 :> b2)
=============================================================================
