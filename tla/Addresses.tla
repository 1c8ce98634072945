----------------------------- MODULE Addresses -----------------------------
(***************************************************************************)
(* The address functions of config/address.rs.  A site address is a record *)
(* with its host as it is written and its port, NoPort when the text after *)
(* the last colon is no u16; a socket address has an ip and a port.        *)
(***************************************************************************)
EXTENDS Integers

Ports == 0 .. 65535       \* u16
NoPort == -1
V4 == {"0.0.0.0", "127.0.0.1"}
V6 == {"[::1]"}

\* resolve_listen_addr: a literal address binds itself, a name all interfaces.
ResolveListenAddr(s) ==
  [ip |-> IF s.host \in V4 \cup V6 THEN s.host ELSE "0.0.0.0", port |-> s.port]

\* tls_redirect_port: port - 443 + 80, saturating in u16 at both ends.
TlsRedirectPort(port) ==
  LET above == IF port > 443 THEN port - 443 ELSE 0
  IN  IF above + 80 > 65535 THEN 65535 ELSE above + 80
=============================================================================
