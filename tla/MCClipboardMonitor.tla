-------------------------- MODULE MCClipboardMonitor --------------------------
(* Texts that are copied, replaced and copied again, on a desktop and a phone. *)
EXTENDS ClipboardMonitor

CONSTANTS a, b

Copied == {a, b}
=============================================================================
