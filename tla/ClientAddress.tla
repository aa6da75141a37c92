--------------------------- MODULE ClientAddress ----------------------------
(***************************************************************************)
(* Whom the sign-in limit counts: clientIP and isTrustedProxy of            *)
(* server/internal/transport/http/handler/auth.go.                          *)
(*                                                                         *)
(* peer is the host of RemoteAddr, forwarded the entries of                 *)
(* X-Forwarded-For, and trusted the addresses in the configured networks.   *)
(* An entry that does not parse as an address is in no network.             *)
(***************************************************************************)
EXTENDS Naturals, Sequences

CONSTANT Blank   \* an entry that is empty, or white space only

\* Where the scan from the right may end.
Foreign(forwarded, trusted) ==
  {i \in DOMAIN forwarded : forwarded[i] # Blank /\ forwarded[i] \notin trusted}

Rightmost(places) == CHOOSE i \in places : \A j \in places : j <= i
Leftmost(places) == CHOOSE i \in places : \A j \in places : i <= j

\* Mutant of clientIP: the header is read from the left.
FirstForwarded(peer, forwarded, trusted) ==
  LET places == Foreign(forwarded, trusted)
  IN  IF peer \notin trusted \/ places = {} THEN peer ELSE forwarded[Leftmost(places)]

clientIP(peer, forwarded, trusted) ==
  LET places == Foreign(forwarded, trusted)
  IN  IF peer \notin trusted \/ places = {} THEN peer ELSE forwarded[Rightmost(places)]
=============================================================================
