----------------------------- MODULE MCSessions -----------------------------
(* Small instances of Sessions for TLC.                                    *)
EXTENDS Sessions

CONSTANTS boot, fetch

\* A page that loads: one call of loadSession and one of a page's own.
PageCalls == {boot, fetch}
LoadCalls == {boot}
=============================================================================
