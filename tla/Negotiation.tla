---------------------------- MODULE Negotiation ----------------------------
(***************************************************************************)
(* src/src/config.rs, negotiated.rs, and the two decisions of RFC 7692      *)
(* section 7.1: `select` of server.rs, which answers one offer, and `agree` *)
(* of client.rs, which applies the answer to the sealed offer.              *)
(***************************************************************************)
EXTENDS Grammar

MAX_WINDOW_BITS == 15

LocalBits == 9..15      \* check_local: what a compressor can be built at
PeerBits  == 8..15      \* check_peer: what may be on the wire

ClientConfig ==
  [server_no_context_takeover : BOOLEAN, client_no_context_takeover : BOOLEAN,
   server_max_window_bits : PeerBits, client_max_window_bits : LocalBits]
ServerConfig ==
  [server_no_context_takeover : BOOLEAN, client_no_context_takeover : BOOLEAN,
   server_max_window_bits : LocalBits, client_max_window_bits : PeerBits]

Min(x, y) == IF x < y THEN x ELSE y

-----------------------------------------------------------------------------
(* Negotiated                                                               *)

Negotiated ==
  [role : {"Client", "Server"},
   server_no_context_takeover : BOOLEAN, client_no_context_takeover : BOOLEAN,
   server_max_window_bits : PeerBits, client_max_window_bits : PeerBits]

new(role, server_nct, client_nct, server_bits, client_bits) ==
  [role |-> role,
   server_no_context_takeover |-> server_nct, client_no_context_takeover |-> client_nct,
   server_max_window_bits |-> server_bits, client_max_window_bits |-> client_bits]

ByRole(n, mine, client, server) ==
  IF (n.role = "Client") = mine THEN client ELSE server

local_no_context_takeover(n) ==
  ByRole(n, TRUE, n.client_no_context_takeover, n.server_no_context_takeover)
peer_no_context_takeover(n) ==
  ByRole(n, FALSE, n.client_no_context_takeover, n.server_no_context_takeover)
local_max_window_bits(n) ==
  ByRole(n, TRUE, n.client_max_window_bits, n.server_max_window_bits)
peer_max_window_bits(n) ==
  ByRole(n, FALSE, n.client_max_window_bits, n.server_max_window_bits)

OneIf(condition, param) == IF condition THEN <<param>> ELSE <<>>

\* The element, its parameters always in this order and in this spelling.
render(server_nct, client_nct, server_bits, client_bits) ==
  Deflate(OneIf(server_nct, Param("server_no_context_takeover", NoValue))
            \o OneIf(client_nct, Param("client_no_context_takeover", NoValue))
            \o OneIf(server_bits # Absent, Param("server_max_window_bits", server_bits))
            \o OneIf(client_bits # Absent, Param("client_max_window_bits", client_bits)),
          "rendered")

-----------------------------------------------------------------------------
(* client.rs                                                                *)

render_offer(config) ==
  render(config.server_no_context_takeover, config.client_no_context_takeover,
         IF config.server_max_window_bits = MAX_WINDOW_BITS THEN Absent
         ELSE config.server_max_window_bits,
         IF config.client_max_window_bits = MAX_WINDOW_BITS THEN Valueless
         ELSE config.client_max_window_bits)

Refused(error) == [error |-> error, agreed |-> <<>>]
Agreed(n)      == [error |-> "Ok", agreed |-> <<n>>]

\* Why an answer is refused, in the order the code asks; "Ok" if it is not.
Objection(config, answer) ==
  IF config.server_no_context_takeover /\ ~answer.server_no_context_takeover
    THEN "ServerTakeoverNotHonoured"
  ELSE IF answer.server_max_window_bits > config.server_max_window_bits
    THEN "ServerWindowTooLarge"
  ELSE IF answer.server_max_window_bits = Absent
          /\ config.server_max_window_bits < MAX_WINDOW_BITS
    THEN "ServerWindowUnconfirmed"
  ELSE IF answer.client_max_window_bits = Valueless
    THEN "ClientWindowValueless"
  ELSE IF answer.client_max_window_bits \notin LocalBits \cup {Absent}
    THEN "ClientWindowTooNarrow"
  ELSE "Ok"

Or(bits, default) == IF bits = Absent THEN default ELSE bits

\* Mutants: the response alone decides takeover; a wider answer widens.
agreeAssigning(config, answer) ==
  IF Objection(config, answer) # "Ok" THEN Refused(Objection(config, answer))
  ELSE Agreed(new("Client", answer.server_no_context_takeover,
                  answer.client_no_context_takeover,
                  Or(answer.server_max_window_bits, MAX_WINDOW_BITS),
                  Min(Or(answer.client_max_window_bits, MAX_WINDOW_BITS),
                      config.client_max_window_bits)))
agreeWidening(config, answer) ==
  IF Objection(config, answer) # "Ok" THEN Refused(Objection(config, answer))
  ELSE Agreed(new("Client", answer.server_no_context_takeover,
                  config.client_no_context_takeover \/ answer.client_no_context_takeover,
                  Or(answer.server_max_window_bits, MAX_WINDOW_BITS),
                  Or(answer.client_max_window_bits, config.client_max_window_bits)))

agree(config, answer) ==
  IF Objection(config, answer) # "Ok" THEN Refused(Objection(config, answer))
  ELSE Agreed(new("Client", answer.server_no_context_takeover,
                  config.client_no_context_takeover \/ answer.client_no_context_takeover,
                  Or(answer.server_max_window_bits, MAX_WINDOW_BITS),
                  Min(Or(answer.client_max_window_bits, MAX_WINDOW_BITS),
                      config.client_max_window_bits)))

-----------------------------------------------------------------------------
(* server.rs                                                                *)

\* Mutant: an offer that does not understand the client's bound is taken.
DeclinesNarrowOnly(config, offer) == offer.server_max_window_bits = 8

\* An offer this server cannot honour: no compressor is built at 8, and a
\* bound on the client's window may only answer an offer that understands it.
Declines(config, offer) ==
  \/ offer.server_max_window_bits = 8
  \/ offer.client_max_window_bits = Absent /\ config.client_max_window_bits < MAX_WINDOW_BITS

\* Mutant: an offered bound that is kept as it is goes unanswered.
server_windowSilent(config, offer) ==
  IF offer.server_max_window_bits = Absent /\ config.server_max_window_bits = MAX_WINDOW_BITS
  THEN Absent
  ELSE IF offer.server_max_window_bits \in WireBits
          /\ offer.server_max_window_bits <= config.server_max_window_bits
  THEN Absent
  ELSE config.server_max_window_bits

\* The widths of the answer, Absent where it is silent.
server_window(config, offer) ==
  IF offer.server_max_window_bits # Absent
  THEN Min(offer.server_max_window_bits, config.server_max_window_bits)
  ELSE IF config.server_max_window_bits < MAX_WINDOW_BITS
  THEN config.server_max_window_bits
  ELSE Absent

client_window(config, offer) ==
  IF offer.client_max_window_bits = Absent THEN Absent
  ELSE IF offer.client_max_window_bits = Valueless THEN config.client_max_window_bits
  ELSE Min(offer.client_max_window_bits, config.client_max_window_bits)

\* Mutant: terms the server imposes are agreed and not sent.
selectSilent(config, offer) ==
  LET server_nct == config.server_no_context_takeover \/ offer.server_no_context_takeover
      client_nct == config.client_no_context_takeover \/ offer.client_no_context_takeover
      server == server_window(config, offer)
      client == client_window(config, offer)
  IN [proposed  |-> render(server_nct, offer.client_no_context_takeover, server,
                           IF client = MAX_WINDOW_BITS THEN Absent ELSE client),
      agreement |-> new("Server", server_nct, client_nct,
                        Or(server, MAX_WINDOW_BITS), Or(client, MAX_WINDOW_BITS))]

\* What `select` proposes for an offer it does not decline.
select(config, offer) ==
  LET server_nct == config.server_no_context_takeover \/ offer.server_no_context_takeover
      client_nct == config.client_no_context_takeover \/ offer.client_no_context_takeover
      server == server_window(config, offer)
      client == client_window(config, offer)
  IN [proposed  |-> render(server_nct, client_nct, server,
                           IF client = MAX_WINDOW_BITS THEN Absent ELSE client),
      agreement |-> new("Server", server_nct, client_nct,
                        Or(server, MAX_WINDOW_BITS), Or(client, MAX_WINDOW_BITS))]
=============================================================================
