----------------------------- MODULE MCFallback -----------------------------
(* Fallback where UDP is blocked and only the TLS relay can be reached. *)
EXTENDS Fallback

TlsOnly == {{"tls"}}
=============================================================================
