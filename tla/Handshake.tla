----------------------------- MODULE Handshake -----------------------------
(***************************************************************************)
(* src/src/client.rs and server.rs: one opening handshake, between this     *)
(* crate's client and its server, or either of them and a foreign peer.     *)
(*                                                                         *)
(* Each side's host owns the header map.  Between `install` and `seal`, and *)
(* between `accept` and the server's `finish`, it may rewrite the field;    *)
(* what has passed the boundary crosses the wire as it is.  A foreign peer  *)
(* may write any field at all.                                              *)
(***************************************************************************)
EXTENDS Negotiation

CONSTANTS
  ClientConfigs, ServerConfigs,          \* what the hosts configured
  ForeignRequests, ForeignResponses,     \* fields a foreign peer may write
  Additions,                             \* elements a host may put in the field
  MaxEdits                               \* bound on the edits of each field

ASSUME ConfigAssumption ==
  /\ ClientConfigs \subseteq ClientConfig
  /\ ServerConfigs \subseteq ServerConfig
ASSUME FieldAssumption ==
  /\ ForeignRequests \subseteq Seq(Element)
  /\ ForeignResponses \subseteq Seq(Element)
  /\ Additions \subseteq Element
ASSUME EditAssumption == MaxEdits \in Nat

VARIABLES
  client,     \* [config, phase, offer, result, agreed] of the client's host
  server,     \* [config, phase, proposed, result, agreed] of the server's
  request,    \* the request's field
  response,   \* the response's field
  edits       \* how often each has been rewritten

vars == <<client, server, request, response, edits>>

\* An Option is a sequence of at most one.
Nothing == <<>>
Some(x) == <<x>>

NegotiationErrors ==
  {"MalformedHeader", "UnknownParameter", "DuplicateParameter", "InvalidWindowBits",
   "ParameterArity", "DuplicateExtension", "ServerTakeoverNotHonoured",
   "ServerWindowUnconfirmed", "ServerWindowTooLarge", "ClientWindowTooNarrow",
   "ClientWindowValueless", "OfferCollision", "UnsolicitedExtension", "OfferAltered",
   "ResponseAltered", "ExtensionConflict"}

Options(S) == {Nothing} \cup {Some(x) : x \in S}

\* `offer` is ClientOffer.installed, then SealedOffer.sealed; `proposed` and
\* the selection it came with are ServerHandshake.
TypeOK ==
  /\ client.config \in ClientConfigs
  /\ client.phase \in {"foreign", "building", "installed", "sealed", "done", "wrote"}
  /\ client.offer = Nothing \/ client.offer[1] \in Element
  /\ client.result \in {"Ok"} \cup NegotiationErrors
  /\ client.agreed = Nothing \/ client.agreed[1] \in Negotiated
  /\ server.config \in ServerConfigs
  /\ server.phase \in {"foreign", "waiting", "proposed", "done", "answered"}
  /\ server.proposed = Nothing \/ server.proposed[1] \in Element
  /\ server.agreement = Nothing \/ server.agreement[1] \in Negotiated
  /\ server.result \in {"Ok"} \cup NegotiationErrors
  /\ server.agreed = Nothing \/ server.agreed[1] \in Negotiated
  /\ \A i \in DOMAIN request : request[i] \in Element
  /\ \A i \in DOMAIN response : response[i] \in Element
  /\ edits \in [request : 0..MaxEdits, response : 0..MaxEdits]

\* A foreign peer's configuration is never looked at.
Unused(configs) == CHOOSE config \in configs : TRUE

Init ==
  /\ \E config \in ClientConfigs, phase \in {"foreign", "building"} :
       client = [config |-> config, phase |-> phase, offer |-> Nothing,
                 result |-> "Ok", agreed |-> Nothing]
  /\ \E config \in ServerConfigs, phase \in {"foreign", "waiting"} :
       server = [config |-> config, phase |-> phase, proposed |-> Nothing,
                 agreement |-> Nothing, result |-> "Ok", agreed |-> Nothing]
  /\ client.phase = "foreign" => client.config = Unused(ClientConfigs)
  /\ server.phase = "foreign" => server.config = Unused(ServerConfigs)
  /\ client.phase = "foreign" => server.phase = "waiting"
  /\ request = <<>> /\ response = <<>>
  /\ edits = [request |-> 0, response |-> 0]

-----------------------------------------------------------------------------
(* What the hosts do to a field: put an element in front or at the back,    *)
(* take one out, replace one.                                               *)

Rewritten(field) ==
  {Append(field, e) : e \in Additions} \cup {<<e>> \o field : e \in Additions}
    \cup {SubSeq(field, 1, i - 1) \o SubSeq(field, i + 1, Len(field)) : i \in DOMAIN field}
    \cup UNION {{[field EXCEPT ![i] = e] : e \in Additions} : i \in DOMAIN field}

EditRequest ==
  /\ client.phase \in {"building", "installed"}
  /\ edits.request < MaxEdits
  /\ edits' = [edits EXCEPT !.request = @ + 1]
  /\ request' \in Rewritten(request)
  /\ UNCHANGED <<client, server, response>>

EditResponse ==
  /\ server.phase = "proposed"
  /\ edits.response < MaxEdits
  /\ edits' = [edits EXCEPT !.response = @ + 1]
  /\ response' \in Rewritten(response)
  /\ UNCHANGED <<client, server, request>>

-----------------------------------------------------------------------------
(* client.rs                                                                *)

ClientFails(error) ==
  client' = [client EXCEPT !.phase = "done", !.result = error, !.offer = Nothing]

\* The error contains_deflate stops at, or "Ok": a deflate element before it
\* answers first.
Unread(headers) == IF Splits(headers) THEN "Ok" ELSE "MalformedHeader"

contains_deflate(headers) == DeflatesIn(headers) # {}

Install ==
  /\ client.phase = "building"
  /\ IF contains_deflate(request)
     THEN ClientFails("OfferCollision") /\ UNCHANGED request
     ELSE IF Unread(request) # "Ok"
     THEN ClientFails(Unread(request)) /\ UNCHANGED request
     ELSE /\ request' = Append(request, render_offer(client.config))
          /\ client' = [client EXCEPT !.phase = "installed",
                                      !.offer = Some(render_offer(client.config))]
  /\ UNCHANGED <<server, response, edits>>

\* Mutant: any spelling of one selection will do.
CorrespondenceCounting(headers, element, error) ==
  [error |-> Unread(headers),
   found |-> IF DeflatesIn(headers) = {} THEN 0
             ELSE IF \E i \in DeflatesIn(headers) : DeflatesIn(headers) = {i}
             THEN 1 ELSE 2]

\* Every permessage-deflate element read is the very one given, and all of the
\* field is read, and there is one: the error, or how many there are.
Correspondence(headers, element, error) ==
  IF \E i \in DeflatesIn(headers) : headers[i] # element
  THEN [error |-> error, found |-> 0]
  ELSE [error |-> Unread(headers),
        found |-> IF DeflatesIn(headers) = {} THEN 0
                  ELSE IF \E i \in DeflatesIn(headers) : DeflatesIn(headers) = {i}
                  THEN 1 ELSE 2]

\* Mutant: a duplicated offer passes.
SealUncounted ==
  /\ client.phase = "installed"
  /\ LET c == Correspondence(request, client.offer[1], "OfferAltered")
     IN IF c.error # "Ok" THEN ClientFails(c.error)
        ELSE client' = [client EXCEPT !.phase = "sealed"]
  /\ UNCHANGED <<server, request, response, edits>>

Seal ==
  /\ client.phase = "installed"
  /\ LET c == Correspondence(request, client.offer[1], "OfferAltered")
     IN IF c.error # "Ok" THEN ClientFails(c.error)
        ELSE IF c.found # 1 THEN ClientFails("OfferAltered")
        ELSE client' = [client EXCEPT !.phase = "sealed"]
  /\ UNCHANGED <<server, request, response, edits>>

SealWithoutOffer ==
  /\ client.phase = "building"
  /\ IF contains_deflate(request) THEN ClientFails("OfferCollision")
     ELSE IF Unread(request) # "Ok" THEN ClientFails(Unread(request))
     ELSE client' = [client EXCEPT !.phase = "sealed"]
  /\ UNCHANGED <<server, request, response, edits>>

\* The deflate elements of a validated response, parsed in turn: an error of
\* one comes before the count of the next.
sole_deflate(headers) ==
  LET deflates == DeflatesIn(headers)
      first    == CHOOSE i \in deflates : \A j \in deflates : i <= j
      rest     == deflates \ {first}
      second   == CHOOSE i \in rest : \A j \in rest : i <= j
      parsed   == parse_params(headers[first].params)
      again    == parse_params(headers[second].params)
  IN IF deflates = {} THEN [error |-> "Ok", selected |-> Nothing]
     ELSE IF parsed.error # "Ok" THEN [error |-> parsed.error, selected |-> Nothing]
     ELSE IF rest = {} THEN [error |-> "Ok", selected |-> Some(parsed.params)]
     ELSE [error    |-> IF again.error # "Ok" THEN again.error ELSE "DuplicateExtension",
           selected |-> Nothing]

\* Mutant: a selection against no offer is taken for a decline.
AppliedLeniently(config, offer, headers, composition) ==
  LET s == sole_deflate(headers)
  IN IF s.error # "Ok" THEN Refused(s.error)
     ELSE IF s.selected = Nothing \/ offer = Nothing THEN [error |-> "Ok", agreed |-> Nothing]
     ELSE IF composition = "Conflict" THEN Refused("ExtensionConflict")
     ELSE agree(config, s.selected[1])

\* ClientHandshake::finish on a validated response.
Applied(config, offer, headers, composition) ==
  LET s == sole_deflate(headers)
  IN IF s.error # "Ok" THEN Refused(s.error)
     ELSE IF s.selected = Nothing THEN [error |-> "Ok", agreed |-> Nothing]
     ELSE IF offer = Nothing THEN Refused("UnsolicitedExtension")
     ELSE IF composition = "Conflict" THEN Refused("ExtensionConflict")
     ELSE agree(config, s.selected[1])

ClientFinish(composition) ==
  /\ client.phase = "sealed"
  /\ server.phase \in {"done", "answered"} /\ server.result = "Ok"
  /\ LET outcome == IF validate(response) # "Ok" THEN Refused(validate(response))
                    ELSE Applied(client.config, client.offer, response, composition)
     IN client' = [client EXCEPT !.phase = "done", !.result = outcome.error,
                                 !.agreed = outcome.agreed]
  /\ UNCHANGED <<server, request, response, edits>>

-----------------------------------------------------------------------------
(* server.rs                                                                *)

\* The alternatives a server reads and can take; one it cannot parse declines
\* itself.
Supportable(config, headers) ==
  {i \in DeflatesIn(headers) :
     LET parsed == parse_params(headers[i].params)
     IN parsed.error = "Ok" /\ ~Declines(config, parsed.params)}

Arrived == client.phase \in {"sealed", "wrote"}

\* A decline leaves the response to the host, which names no deflate in it.
Accept ==
  /\ server.phase = "waiting" /\ Arrived
  /\ IF validate(request) # "Ok"
     THEN /\ server' = [server EXCEPT !.phase = "done", !.result = validate(request)]
          /\ UNCHANGED response
     ELSE LET able == Supportable(server.config, request)
          IN IF able = {}
             THEN server' = [server EXCEPT !.phase = "done"] /\ UNCHANGED response
             ELSE LET first == CHOOSE i \in able : \A j \in able : i <= j
                      s == select(server.config, parse_params(request[first].params).params)
                  IN /\ server' = [server EXCEPT !.phase = "proposed",
                                                 !.proposed = Some(s.proposed),
                                                 !.agreement = Some(s.agreement)]
                     /\ response' = Append(response, s.proposed)
  /\ UNCHANGED <<client, request, edits>>

ServerFinish(composition) ==
  /\ server.phase = "proposed"
  /\ LET c == Correspondence(response, server.proposed[1], "ResponseAltered")
         outcome ==
           IF validate(response) # "Ok" THEN Refused(validate(response))
           ELSE IF c.error # "Ok" THEN Refused(c.error)
           ELSE IF c.found = 0 THEN [error |-> "Ok", agreed |-> Nothing]
           ELSE IF c.found # 1 THEN Refused("ResponseAltered")
           ELSE IF composition = "Conflict" THEN Refused("ExtensionConflict")
           ELSE Agreed(server.agreement[1])
     IN server' = [server EXCEPT !.phase = "done", !.result = outcome.error,
                                 !.agreed = outcome.agreed]
  /\ UNCHANGED <<client, request, response, edits>>

-----------------------------------------------------------------------------
(* Foreign peers (external).                                                *)

ForeignRequest ==
  /\ client.phase = "foreign"
  /\ request' \in ForeignRequests
  /\ client' = [client EXCEPT !.phase = "wrote"]
  /\ UNCHANGED <<server, response, edits>>

ForeignResponse ==
  /\ server.phase = "foreign" /\ client.phase = "sealed"
  /\ response' \in ForeignResponses
  /\ server' = [server EXCEPT !.phase = "answered"]
  /\ UNCHANGED <<client, request, edits>>

Next ==
  \/ EditRequest
  \/ Install
  \/ Seal
  \/ SealWithoutOffer
  \/ ForeignRequest
  \/ Accept
  \/ EditResponse
  \/ \E composition \in {"Compatible", "Conflict"} :
       ServerFinish(composition) \/ ClientFinish(composition)
  \/ ForeignResponse

Spec == Init /\ [][Next]_vars

-----------------------------------------------------------------------------
(* Properties.                                                              *)

\* Two ends that both hold an agreement can talk: each end's compressor stays
\* within the window its peer's inflater is built for, and whoever starts its
\* inflater over between messages has a peer that does so with its compressor.
EndsAreCompatible ==
  client.agreed # Nothing /\ server.agreed # Nothing =>
    LET c == client.agreed[1]
        s == server.agreed[1]
    IN \A p \in {<<c, s>>, <<s, c>>} :
         /\ local_max_window_bits(p[1]) <= peer_max_window_bits(p[2])
         /\ local_max_window_bits(p[1]) \in LocalBits
         /\ peer_no_context_takeover(p[2]) => local_no_context_takeover(p[1])

\* What the one selection in a field says.
Selections(headers) == {i \in DOMAIN headers : is_deflate(headers[i])}
Says(headers) ==
  parse_params(headers[CHOOSE i \in Selections(headers) : TRUE].params).params

\* Whatever a server answered, an agreement keeps every term the client
\* configured and every bound the answer puts on this side, and relies on
\* nothing the answer did not say.
ClientKeepsTerms ==
  client.agreed # Nothing =>
    LET n == client.agreed[1]
        config == client.config
        answer == Says(response)
    IN /\ config.server_no_context_takeover => n.server_no_context_takeover
       /\ n.server_no_context_takeover => answer.server_no_context_takeover
       /\ n.server_max_window_bits <= config.server_max_window_bits
       /\ Or(answer.server_max_window_bits, MAX_WINDOW_BITS) <= n.server_max_window_bits
       /\ config.client_no_context_takeover \/ answer.client_no_context_takeover
            => n.client_no_context_takeover
       /\ n.client_max_window_bits <= config.client_max_window_bits
       /\ n.client_max_window_bits <= Or(answer.client_max_window_bits, MAX_WINDOW_BITS)
       /\ n.client_max_window_bits \in LocalBits

\* A client agrees only over a request that left with its own offer, once and
\* unaltered, and over a response that selected once.
AgreedOverOwnOffer ==
  client.agreed # Nothing =>
    /\ \E i \in DOMAIN request :
         /\ request[i] = render_offer(client.config)
         /\ Selections(request) = {i}
    /\ \E i \in DOMAIN response : Selections(response) = {i}

\* A client that offered nothing and reports no error was answered nothing.
UnsolicitedFails ==
  client.phase = "done" /\ client.offer = Nothing /\ client.result = "Ok"
    => Selections(response) = {}

\* The codecs a server builds are those of the response it sent: one selection,
\* in the very bytes proposed, every term of the agreement is in it, and a
\* compressor can be built at the width it leaves this side.
AgreementIsOnTheWire ==
  server.agreed # Nothing =>
    LET n == server.agreed[1]
        sent == Says(response)
    IN /\ \E i \in DOMAIN response :
            Selections(response) = {i} /\ response[i] = server.proposed[1]
       /\ n = new("Server", sent.server_no_context_takeover, sent.client_no_context_takeover,
                  Or(sent.server_max_window_bits, MAX_WINDOW_BITS),
                  Or(sent.client_max_window_bits, MAX_WINDOW_BITS))
       /\ local_max_window_bits(n) \in LocalBits

\* RFC 7692 section 7.1: an offer a server can honour has widths both ends can
\* hold, and a bound on the client's only if the client named the parameter.
Honourable(config, offer) ==
  /\ \E bits \in LocalBits :
       /\ bits <= config.server_max_window_bits
       /\ bits <= Or(offer.server_max_window_bits, MAX_WINDOW_BITS)
  /\ offer.client_max_window_bits = Absent => config.client_max_window_bits = MAX_WINDOW_BITS

Alternatives(config, headers) ==
  {i \in Selections(headers) :
     LET parsed == parse_params(headers[i].params)
     IN parsed.error = "Ok" /\ Honourable(config, parsed.params)}

\* An answer that refines the offer and keeps the server's own terms.
Answers(config, offer, answer) ==
  /\ offer.server_no_context_takeover \/ config.server_no_context_takeover
       => answer.server_no_context_takeover
  /\ config.client_no_context_takeover => answer.client_no_context_takeover
  /\ Or(answer.server_max_window_bits, MAX_WINDOW_BITS)
       <= Min(Or(offer.server_max_window_bits, MAX_WINDOW_BITS), config.server_max_window_bits)
  /\ Or(answer.client_max_window_bits, MAX_WINDOW_BITS) <= config.client_max_window_bits
  /\ answer.client_max_window_bits \in WireBits => offer.client_max_window_bits # Absent

\* A server answers the first alternative that can be honoured, in terms that
\* refine it, and declines only when there is none.
FirstAlternativeAnswered ==
  server.phase \in {"proposed", "done"} /\ server.result # "MalformedHeader" =>
    LET able == Alternatives(server.config, request)
    IN IF server.proposed = Nothing THEN able = {}
       ELSE \E i \in able :
              /\ \A j \in able : i <= j
              /\ Answers(server.config, parse_params(request[i].params).params,
                         parse_params(server.proposed[1].params).params)

\* This crate's client accepts whatever this crate's server committed to,
\* unless the hosts disagree on composition or the server insists on a window
\* no compressor of the client can be built at.
OwnEndsConnect ==
  client.phase = "done" /\ server.agreed # Nothing /\ client.offer # Nothing =>
    \/ client.agreed # Nothing
    \/ client.result = "ExtensionConflict"
    \/ client.result = "ClientWindowTooNarrow" /\ server.config.client_max_window_bits = 8
=============================================================================
