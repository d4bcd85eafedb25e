# ws-pmd in TLA+

TLA+ models, TLC checks and TLAPS proofs for `ws-pmd-rs`, a sans-I/O implementation of the
WebSocket extension `permessage-deflate` (RFC 7692). Paths below are relative to the repository,
as `src/codec.rs`.

## 1. The system

The crate never performs I/O. A **host** (a WebSocket library) owns the header maps, the frames
and the transport and calls the crate; nothing in the crate runs concurrently, and what
interleaves is the host's own doing: callbacks that rewrite headers between two calls, writes that
are cancelled half way, guards that are dropped, limits that change between fragments, and a peer
that may send anything.

| component | source | state it keeps | operations |
|---|---|---|---|
| Encoder | `src/encoder.rs` | `compressor: Option<Compress>`, `reset_between_messages`, and one live guard that holds the compressor while a candidate is unresolved | `prepare_message`, `begin_streaming_message`, `prepare_non_final_fragment`, `prepare_final_fragment`, three `commit`s, `reset_to_plain`, drop or leak of a guard |
| Decoder | `src/codec.rs` | inflater and its width, `stream_open`, `delivered`, `poisoned`, `reset_between_messages` | `decompress(input, final, limit)`: `inflate` loop, trailer feed-back, `reinitialise` |
| Grammar | `src/grammar.rs` | none | `validate`, `elements`, `is_deflate`, `parse_params` |
| Configuration, agreement | `src/config.rs`, `src/negotiated.rs` | the four parameters of each role | `check_local`, `check_peer`, `render`, the accessors, `into_codecs` |
| Client handshake | `src/client.rs` | the installed, then sealed offer | `install`, `seal`, `seal_without_offer`, `finish` (`agree`) |
| Server handshake | `src/server.rs` | the proposed element and the agreement it stands for | `accept` (`select`), `finish` |
| Backend | flate2 with zlib-rs or C zlib | compression and decompression state | `compress_vec`, `decompress`, `reset` (external) |
| Errors, crate root | `src/error.rs`, `src/lib.rs` | none | types, re-exports |
| Fuzz targets, validation arms, tests | `fuzz/`, `validation/`, `tests/` | none | read as documentation |

How they meet: a handshake ends in a `Negotiated`, which `into_codecs` consumes to build one
encoder (from the *local* parameters) and one decoder (from the *peer* parameters). From there the
two directions are independent of each other; each encoder is coupled with the peer's decoder
through the octets on the wire, because both keep a history that must stay in step.

### What is hard, and what makes each part correct

* **Encoder.** A candidate advances the compression history before anybody knows that it will be
  sent. Correct means: whatever the host prepares, sends, abandons or loses, and whatever fails, the
  peer decodes exactly the messages that were sent, and an encoder whose candidate was not resolved
  never produces another octet.
* **Decoder.** RFC 7692 strips `00 00 ff ff` from each message, so the decoder puts it back, which
  is only right inside a block already begun; a `BFINAL` block may end the DEFLATE stream anywhere;
  output is bounded by a ceiling read afresh on each call, over all fragments of a message; a reset
  loses the negotiated width. Correct means: position flag and inflater agree, the ceiling holds to
  the octet, no output is cut off in silence, each call returns, and an error is final.
* **Handshake.** What is agreed must be what crossed the wire, on each side, in spite of a host that
  rewrites headers between two calls and a peer that answers anything; and two ends that agree must
  agree on compatible things, which is what the encoder relies on.

`PROJECT.json` lists the hazards one by one, at their lines, with the properties that cover them.

## 2. The modules

| module | models | 
|---|---|
| `Flate2` | the backend (external): compressed octets as *units*, what a flush returns, what an inflater at each position does with a unit |
| `MessageChannel` | what a host is promised of one direction (abstract: it translates no code) |
| `Encoder` | `src/encoder.rs`, with a host that writes and a conforming peer that inflates |
| `EncoderProofs` | the inductive invariant of `Encoder`, the theorems, and that it implements `MessageChannel` |
| `MCEncoder` | its small instance |
| `SyncFlush` | the rounds of `feed` and `sync_flush` inside one prepare, with the room of `room_for` |
| `SyncFlushProofs` | theorems of the rounds |
| `SequenceLemmas` | what the proofs about sequences share: joining, cutting, flattening, turning into others, recursion and induction over them |
| `MCSyncFlush` | two small instances of it |
| `Decoder` | `src/codec.rs`, any input |
| `DecoderProofs` | theorems of the decoder |
| `MCDecoder` | its small instance |
| `Link` | `Encoder` at one end, `Decoder` at the other, the wire between; implements `MessageChannel` |
| `LinkProofs` | theorems of the two ends together, from those of each |
| `MCLink` | its small instance |
| `FieldSyntax` | `src/grammar.rs` octet by octet, with `render` of `src/negotiated.rs` and `install` and `seal` of `src/client.rs` over such fields |
| `FieldSyntaxProofs` | theorems of the field's syntax: how texts are cut |
| `FieldGrammarProofs` | theorems of the field's syntax: that what is cut and read is the list grammar, that a sealed offer is what was installed, and that the reading `Handshake` starts from is faithful |
| `MCFieldSyntax` | three small instances of it |
| `Grammar` | `src/grammar.rs` one level up: a header field as a sequence of elements, an element as a sequence of parameters |
| `Negotiation` | `src/config.rs`, `src/negotiated.rs`, `select` of `src/server.rs`, `agree` of `src/client.rs` |
| `Handshake` | `src/client.rs` and `src/server.rs` with their hosts and foreign peers |
| `HandshakeProofs` | theorems of the handshake |
| `MCHandshake` | its small instance |

Definitions whose comment begins with *Mutant* are broken variants of the definition that follows:
each is a mistake the code could plausibly contain, and makes the property named with it in
`PROJECT.json` fail. They are not part of any specification.

### Flate2: units

Compressed octets matter to this code only through a few distinctions: data that may refer back
into the history, the octet that opens an empty stored block (`Hdr`), its length octets
`00 00 ff ff` (`Trl`), and blocks with `BFINAL` set, either whole (`FinBlk`) or needing part of
`00 00 ff ff` to be complete (`FinHdr`). A *data unit* inflates to a text; with a distance it is
correct only if the octet that far back in the inflater's history is the one the compressor meant,
and in reach of its window. An inflater is a position (`mode`) and a history. The one position that
needs explaining is `lost`: `00 00 ff ff` taken for a block header declares a stored block of ff00
octets, and what follows is either rejected or copied as junk.

The compressor may return any encoding of the payload, with any reference it can reach; its flush
may have been repeated, which leaves a second empty block; an empty payload on a drained compressor
yields nothing. A backend that breaks its contract (`Unflushed`), reports an error, ends its stream
or stalls is part of the model too, because the code has answers to all of these.

### Encoder

| TLA+ | code |
|---|---|
| `compressor`, `None` | `Encoder.compressor: Option<Compress>` |
| `guard.kind` = message / stream / nonfinal / final | `PreparedMessage`, `StreamingMessage`, `PreparedNonFinalFragment`, `PreparedFinalFragment`; the borrow allows one at a time |
| `PrepareMessage`, `BeginStreamingMessage`, `PrepareNonFinalFragment`, `PrepareFinalFragment` | the calls of these names; an error drops the compressor |
| `Commit`, `CommitNonFinal`, `ResetToPlain` | the calls that resolve a guard |
| `DropGuard` | a dropped, leaked or cancelled guard: no code runs |
| `CallPoisoned` | `take().ok_or(Poisoned)` |
| `HostWrite` | the host puts the next unit of the candidate on the wire and the peer inflates it; with the last unit of a message the peer feeds the trailer back |

The host commits after it has written the whole candidate and calls `reset_to_plain` only if it has
written none of it, as their documentation demands. `outbox` and `inbox` record the messages as
given and as decoded.

`MessageChannel` is the same seen from outside: a message is begun, given piece by piece, whole,
and then either leaves and arrives or is withdrawn; or the direction is closed and stays so.
`Encoder!Channel` maps the guard to its phases (`ChannelPhase`: no compressor anywhere is *closed*, a
`StreamingMessage` or a non-final fragment is *open*, a candidate that ends a message is *whole*
until its last unit is written and *sent* from then on), and `ImplementsChannel` says that every
step is a step of the channel or none of its business.

### SyncFlush

`Encoder` takes a prepare for one step whose result `Flushed` of `Flate2` describes. `SyncFlush` is
that step seen closely: `Begin` is the entry of `produce_aligned`, `FeedRound` and `FlushRound` are
one turn of the loops of `feed` and `sync_flush`, each with its call of `drive`, and `DriveFails` is
`drive` returning an error. The backend owes octets (`backend.pending`), emits what fits the room,
and takes a flush as zlib documents it: one that ends with no room over is armed again, one that
ends with room over is complete, and a second on a drained stream is refused. `RoundsAreOneStep`
ties the two modules together: what a prepare returns spells one of the results `Flushed` allows.

A backend that leaves no room over in a flush, forever, is not among the behaviours: `sync_flush`
would not return, and its output would grow with each round. The octets a real backend holds back
are finite, as they are here.

### Decoder

A call is several steps. `Decompress` starts it, each turn of the loop of `inflate`, with its
backend call, is one `InflateStep`, `FeedTrailer` is the middle of `decode`, and `ReturnNonFinal`
and `ReturnFinal` are the ends of `decompress`. The backend may hand out the output it owes in any
portions that fit the room, may take input without producing, may produce without taking, and may
stop moving. `call.turn` flips with each backend call so that a loop that spins is a behaviour that
never returns and not a stutter.

### Link

`Encoder` is checked against an inflater that does everything right, `Decoder` against input that
may be anything. `Link` puts the two modules of this crate together (`Sender` and `Receiver` are
instances of `EncoderProofs` and `DecoderProofs`, so that what is proved of each end can be cited of
it, with one agreement for both) and adds what is between them: `wire`, the units
written and not yet handed over, with `Fin` after the last of a message. `Hand` is the receiving
host: it passes any number of units of the current message, final only at `Fin`, under any of the
ceilings. `Complete` is the return of a final call, after which the host has the message.
`MessageChannel` is implemented here with a `received` of its own, so messages may be under way.
Once the decoder has failed it stays poisoned and nothing more is received.

### FieldSyntax

An octet is the name of its class: the delimiters, the digits, one symbol for each name the code
compares with, `word` for every other token character. `Quoting` is the state of the loop of
`split` after each octet, `After` one turn of it; a delimiter met in state `plain` is a cut, and
`PiecesAt` writes octets to the last piece or begins a new one at a cut; `unquote` is stated by the
same scan, since a quoted string closes where the scan returns to `plain`. `parse_params` gives the
error of the first parameter at fault, by itself or because its slot is full.

The host writes symbol by symbol, on the last line or a new one (`HostWrites`); the client may
`install` an offer at any moment; and from then on the host may also put an octet in anywhere, leave
one out or write one over another (`HostEdits`), in the offer as in any other line. An edit counts
for `EditCost` of the symbols the host may write. So `seal` meets installed offers with octets added
to them, taken from them and changed in them.

Two things are not translations. The reference grammar (`Between` to `IsExtensionList`) says where
a text may be cut and knows nothing of quotes. It is right without them because a value has to stand
for a token, and a token holds no delimiter: that the quote-aware code takes exactly those fields is
what `ValidateIsTheGrammar` checks. And `FieldOf` projects a field of octets to one of
`Grammar.tla`; `GrammarIsTheReading` says that `validate`, `contains_deflate` and `parse_params`
answer the same on both levels, errors included; both are proved (section 4). That is what entitles `Handshake` to its fields.

### Grammar, Negotiation, Handshake

A header field is the sequence of the elements of all its lines (the code reads every line as one
list). Splitting octets is abstracted to its outcome: a line whose quotes do not balance is one
element `Unbalanced`, an element that breaks the token rules is `Malformed`, and any spelling but
the one `render` produces is `respelled`, which is what the byte-for-byte comparisons of `seal` and
the server's `finish` tell apart. Parameters keep their order and duplicates, so that `parse_params`
returns the error of the first parameter at fault.

`Handshake` runs this crate's client against this crate's server, or either against a foreign peer
that writes any field of a given set. Between `install` and `seal`, and between `accept` and
`finish`, the host may rewrite the field: add an element at either end, remove one, replace one.

## 3. What is checked

All passing runs switch TLC's deadlock check off: the bounds on calls, or the end of the
handshake, stop a behaviour where the real system would simply be idle.

| run | instance | what it shows |
|---|---|---|
| `encoder` | 2 octets, payloads of up to 2 octets, windows of 2, 5 calls | `PeerDecodes`, `MessagesArrive`, `WholeMessagesOnly`, `HistoryHeld`, `PoisonIsTerminal`; `ImplementsChannel` |
| `sync_flush` | stored blocks of 4, room of at most 10, margin 7, payloads of 0 to 11 octets, 2 prepares | `RoundsAreOneStep`, `NoRedundantBlock` |
| `sync_flush_tight` | the same with room of at most 7, a backend that expands and holds back up to 9 octets | `RoundsAreOneStep`, `SoundNeverFails`; `PrepareReturns`, under fairness |
| `decoder` | 3 octets, 30 inputs of up to 3 units, limits 0, 1, 3, scratch of 2, peer bits 8, 10, 15, 3 calls | `PositionTracked`, `CeilingHolds`, `NothingOwed`, `TotalIsHeld`, `WidthKept`, `NoHistoryAcrossMessages`, `ErrorsAreTerminal`; `CallsReturn`, under fairness |
| `decoder_trailer` | the same | violated: `TrailerCompletesABlock` (section 6) |
| `decoder_size` | the same | violated: `SizeIsOnePast` (section 6) |
| `decoder_unbounded` | the same, the limit and the largest `usize` both 7 | violated: `NoUnboundedSpelling` (section 6) |
| `link` | payloads of 0 and 2 octets, a window of 2 (bits 10), limits 1 and 4, scratch of 2, 3 calls of the encoder, 4 of the decoder | `OwnStreamsAreValid`, `RefusedPastCeiling`, `EndsInStep`; `EndToEnd` |
| `field_syntax` | 7 symbols, up to 6 written from nothing, from an empty line and behind a parameter's `=`, 2 lines | `ValidateIsTheGrammar`, `PartsAreBalanced` |
| `field_params` | 19 symbols, up to 4 written after the name, after a width's `=`, in its quotes and after a parameter, 2 lines | `GrammarIsTheReading` |
| `field_seal` | 8 symbols, up to 4 written before and after the offer, or 1 and an edit of any octet, 12 offers, 3 lines | `SealedIsMeant`, `CombiningIsInvisible` |
| `handshake` | 24 client and 24 server configurations, 1 edit of each field, 7 additions, 307 foreign fields | `EndsAreCompatible`, `ClientKeepsTerms`, `AgreedOverOwnOffer`, `UnsolicitedFails`, `AgreementIsOnTheWire`, `FirstAlternativeAnswered`, `OwnEndsConnect` |

Why these bounds suffice to be interesting:

* `encoder`: five calls reach a message, an abandoned or failed candidate and three messages after
  it, or a stream of four fragments; a window of 2 makes references that reach back one message and
  references that fall out of the window both possible.
* `sync_flush`, `sync_flush_tight`: sizes are scaled down together, an empty stored block to 3 octets
  and the header of one with data to 1. The lengths lie on both sides of every edge: of a stored
  block, of two, and of the branch in `room_for`. The second prepare starts from every state the
  first may leave. In the tight instance a second empty block does appear (`NoRedundantBlock` fails
  there), which is what the code's comments expect below the bound, and the output is still right.
* `decoder`: three calls give a fragmented message and the message after it. A unit that expands to
  three octets does not fit a scratch of 2, so output is owed across turns; the limits are zero, one
  under and one at the longest output, and a later call may have a lower one. 8, 10 and 15 are the
  clamped, the rebuilt and the reset width. Inputs contain whole and partial messages, streams that
  end inside a message or in the trailer, and trailers the peer forgot to strip.
* `link`: three calls of the encoder give a message, an abandoned or sent second one and a third that
  may refer to either, or a fragmented message; four of the decoder cut one of them anywhere. A
  ceiling of 1 refuses the two octets of a payload, one of 4 allows two fragments.
* `field_syntax`: six symbols behind `word;word=` are a quoted string with an escape in it, or one
  cut by a delimiter or by the end of the line; six from nothing are two elements with parameters.
* `field_params`: the digits spell both ends of the range, 8 and 15, most widths between, 6 and 16
  outside, a leading zero, and 264, which is 8 modulo 256.
* `field_seal`: four symbols make a second offer, a parameter appended to the first, a quote opened
  or a value prolonged; some offers are prefixes of others. One edit breaks every part of an offer:
  its name, a parameter's, a delimiter or a digit, or cuts it in two; an edit counts for 3 of the
  symbols (`EditCost`), so one more symbol may come before it or behind.
* `handshake`: the widths are both floors (8 on the wire, 9 for a compressor), one between and the
  default; every flag takes both values on both sides. One edit of each field suffices for every
  check the code makes (missing, duplicated, respelled, malformed, unsplittable).

Fairness is used by `decoder` (for `CallsReturn`) and `sync_flush_tight`: weak fairness of the steps of a call
in progress. A call runs on its caller's thread without waiting for anything, so it continues unless the process
stops. Nothing is assumed of the decoder's backend: it may answer any turn by not moving. So may the
encoder's while it is fed; what it owes a flush is finite.

## 4. What is proved

`EncoderProofs` proves, for all sets of octets and payloads, all windows with
`Window <= PeerWindow`, and any bound on calls, the type invariant and each property the run
`encoder` checks, for `Encoder!Spec` as it stands.

The properties are not inductive. The invariant `IInv` adds:

* `OneHolder`: the compressor is in the encoder or in the guard, never in both;
* `IdleInv`: with the compressor in the encoder, the peer is at a block boundary, has no partial
  text, and holds the compressor's history as the end of its own;
* `StreamInv`: between two fragments, the same with the partial text equal to what was given so far;
* `PreparedInv`: with a candidate in the guard and some of it written, the peer accepts what is left
  and *will* then have decoded the message. It is stated over the shape of a candidate (`data`,
  `Hdr`, `Trl`, perhaps a second `Hdr Trl`) and the number of units written;
* `peer.resets => reset_between_messages`, from the agreement.

Then `Init => IInv`, one lemma for each kind of step (prepare, write, resolve), and the theorems
follow; `PoisonIsTerminal` is proved of each step from `OneHolder`. The assumption
`WindowAssumption` is what the handshake establishes: `EndsAreCompatible`.

`Refinement` proves `Spec => ImplementsChannel`: the initial state maps to the channel's, and every
step to one of its actions or to a stutter. The lemma `PhaseOf` reads the phase of the channel off
the invariant (`Phases`), once for either side of a step; then a prepare is a `Give` or a `Close`,
the last write of a message a `Send` that arrives at once (by `PreparedInv`, the peer's text is the
message), a commit a `Settle`, a reset a `Withdraw`, a drop a `Close`.

`HandshakeProofs` proves, for all sets of configurations, all fields a foreign peer may write (any
sequences of elements), all additions and any number of edits, the type invariant and every property
the run `handshake` checks, from the three assumptions of `Handshake` on its constants. Its
invariant `IInv` relates what an action decides to the fields it decided over, which are then frozen:

* `OfferInv`: an offer that was sealed is the one selection of the request, in the spelling it was
  rendered in;
* `ServerInv`: a proposal is `select` of the first supportable alternative of the request (`Chosen`),
  the request cannot change any more, and an agreement is that proposal's, with the proposal the one
  selection of a response that validated;
* `AnswerInv`: a client's agreement is `agree` of its configuration and what the response says, and
  the response cannot change any more;
* `RefusalInv`: a client refuses what a server committed to only over composition, or with
  `Objection` of what the response says. That the second comes to a window of 8 is arithmetic.

One lemma for each action keeps it. The lemmas it rests on are about the operators: `ParseRender`
(parsing what was rendered gives the terms it was rendered from, for all terms, by adding one
parameter at a time to a list without a fault), `ParsedTyped`, `SoleDeflate` (an answer is taken from
the one selection), `SelectRead` and `SelectAnswers` (a proposal says what is agreed, and refines the
offer), `AgreedTerms`, `HonourableIsSupportable`.

`DecoderProofs` proves, for all sets of octets, inputs, windows and ceilings, any scratch and any
`usize`, the type invariant and each safety property the run `decoder` checks. The assumption
`LimitAssumption` says that the constants are naturals, that the scratch and the largest `usize` are
not zero and that no ceiling is above the latter. The invariant is `IInv`: the properties themselves
with `PoisonInv` (only a poisoned decoder has an error as its outcome) and `OwedInv` (an inflater
that owes output is in the middle of a call, or was left by one that failed). It is kept by one
lemma for each action; the lemma `InflateStepKeeps` goes over the answers of the backend, whose
types and effects are `InflatedTyped`, `AcceptedTyped` and their like. The two action properties
follow from it step by step. `TotalIsHeld` is proved of a total that saturates, at any `usize`.
`BoundedBelowTheWidest` is the other half of the third finding: as long as no ceiling is
`UsizeMax` itself, `NoUnboundedSpelling` holds.

`SyncFlushProofs` proves, for all lengths, every amount a backend may hold back or expand by, and
every size of a stored block, the type invariant, `SoundNeverFails` and `RoundsAreOneStep`. Its
`IInv` says what is where in each state: of the payload, what was taken is written or held back, in
order (`FeedInv`); in a flush the wire is the payload, framed, and then nothing yet (`Unmarked`), or
whole empty blocks and perhaps a part of one (`Marked`). What a run of stored blocks spells is
defined by recursion over the length, and a fact about every length is proved by taking the least
one for which it fails and its predecessor (`WFMin` of `WellFoundedInduction`). `RoomIsEnough` is
the argument of the comment on `room_for`: under `Covered`, where for each length the room exceeds
all a flush may find held back with its marker, or the expansion of the input with both, no flush
fills its room, none is repeated, and `NoRedundantBlock` holds. `MCSyncFlush.cfg` satisfies
`Covered`; `MCSyncFlushTight.cfg` does not, and there the property fails.

`LinkProofs` proves, for all sets of octets and payloads, every agreed window (8 to 15 bits), all
ceilings, any scratch and any `usize`, and any bounds on the calls, the three safety properties the
run `link` checks and the refinement `EndToEnd`. Each end's invariant is the one its own module
proves, cited through the instance (`EndsAssume`: what an end assumes of its constants follows from
what `Link` assumes). Neither says what is between them. The invariant that does is `WireInv`: the
units the decoder has yet to take, in its call and on the wire, *lead* from where it stands
(`DecoderAt`) to where a conforming inflater that has taken all that was written stands (`PeerAt`),
through positions in each of which the next unit follows (`Route`). A position is the inflater with
the text of its message and how many messages came before, and at `Fin` the text must be that of the
message sent in this place. Without the path in between, the step of the decoder that takes a unit
would know nothing of the unit after it. `CallInv` adds that a call meets no end of the stream and
that the trailer fed back completes an open block; `RefusedInv` remembers that a refusal was due.

* A write extends the path at the far end (`WayExtends`), by the unit and, at the end of a message,
  by `Fin`; `Sender!WriteMoves` says what the conforming inflater does with it.
* A turn of the decoder takes the first step (`WayDrops`) or none. `Receiver!ConformingTurn` says
  so: over a unit that follows, a turn stalls, passes the ceiling, or moves as a conforming inflater
  does, in whatever portions; it finds no fault. An agreed window of 8 is widened to 9 by
  `for_peer_window`, and a wider window takes what a narrower one takes (`WiderFollows`).
* The trailer moves nothing, as `Fin` is the next step and asks for an open block (`TrailerKeeps`);
  the return of a final call is that step (`CompleteMoves`), hence `Receive` of the channel.
* Cutting frames moves units from the wire to the call and changes no path (`HandKeeps`).

`EndsInStep` is then the empty path, where the two histories are one.

`FieldSyntaxProofs` proves, for fields of any lines of any octets, `PartsAreBalanced` and
`CombiningIsInvisible`, from the assumption `FieldsAssumption` on the host's symbols and the
client's terms and the invariant that lines are sequences of symbols (`Typed`). What a recursive
function of the model computes is proved octet by octet: `SeqInduction` of `SequenceLemmas` says
that a set of sequences that holds the empty one, and with each the one with an element more, holds
them all, and lemmas such as `QuotingAppend` and `PiecesStep` say what one octet more does.
`PiecesEnd` is then the argument for the first: every piece but the last ends outside of quotes and
the last one where the text does. `JoinedPieces` is that for the second: two texts joined by a
delimiter outside of quotes are cut as each is.

`FieldGrammarProofs` proves `ValidateIsTheGrammar` for the same fields: `validate` takes exactly the
extension lists of the RFC. The grammar cuts a text at every delimiter and asks where something may
be padded; the code cuts only outside of quotes, trims and unquotes. In steps:

* `TrimIs`, `PaddedToken`, `PaddedQuoted`: what can be padded to a text is its trimmed form, and
  nothing else.
* `UnquoteQuoted`: a text that begins with a quote unquotes to a token just if it is a quoted token;
  in one, only a backslash escapes, so the states of `Quoting` and the octets agree (`QuotedStates`).
  With `UnquoteBare` that is `ValueIs`, and, at the first `=`, `ParamIs`.
* `ParamHolds`: a parameter of either side holds no comma, no semicolon, and ends outside of quotes.
  Hence pieces that are all parameters were cut at every delimiter (`ClearPieces`), and texts that
  may be cut at every delimiter into parameters are cut there by the code (`PlainPieces`).
* `PiecesCover`, `BetweenIs`: what is cut at every delimiter is what lies between delimiters.
* `ExtensionIs`, `ElementIs` are this for an element and its semicolons, `FieldIsTheGrammar` for a
  field and its commas, where `LinePieces` relates the pieces of a line to those of the one list.

The same module proves `SealedIsMeant`, for every `Params` a client may render and whatever a host
writes and edits, with every bound. `Says` is what an element has to be to parse as given terms:
after the name, each parameter of the terms once, as the terms have it.

* `BodySets`: a rendered parameter sets its slot to the term it stands for; the digits of a width
  are read back as the width (`WireFormIs`, `ShortNumber`).
* `SaysMore`, `SaysTerm`, `RenderSays`: the offer says its terms, by one parameter after the other,
  and so it does with blanks around it (`TrimBehind`, `SettingBehind`).
* `SaysParses`: what says the terms parses as them; with `TrimCut`, `OfferParses`: so does every
  element that is the offer once trimmed, which is what `seal` compares. This is the first half.
* For the second, the invariant is that what is installed is a field in which no offer was found with
  a rendered one behind it (`InstalledBehind`); such a field has one deflate element, and that is the
  offer (`InstalledAlone`).

Last, it proves `GrammarIsTheReading`: `Handshake`, which knows elements and parameters, is about every
field of octets. A reading is made element by element, so `Flow` of `SequenceLemmas`, a sequence
turned into another element by element, carries the induction (`FlowStep`, `FlowJoin`).

* `ReadsAs`, `FieldReads`: as far as the lines of a field split, its reading has an element for each
  of its own, in order; where they stop, the reading has `Unbalanced` next. With `ReadingOf` and the
  first theorem, `validate` and `contains_deflate` agree (`FieldAgrees`).
* `ValueReads`: the token a value stands for is its octets without quotes, escapes and blanks, which
  is what `Written` looks at (`TextOfToken`, `TextOfQuoted`).
* `DigitsAgree`: the texts `parse_bits` takes are the wire forms of 8 to 15: one digit, two of which
  the first is not zero, and never more, as three digits of checked arithmetic are past 15
  (`LongNumber`). With it, `BitsAgree` and `SettingIs` are this for one parameter.
* `ParamsAgree`: the parameters in turn have the same first fault; without one their names differ,
  so the slots are filled alike.

Only model-checked: liveness under fairness, hence `CallsReturn` and `PrepareReturns`.

## 5. What is not modelled

* `shrink_to_fit` and the capacity of vectors beyond the room of a round.
* `as_bytes_mut`: meant for masking, which the transport reverses; what else a host writes there is
  not the crate's doing.
* The compression level, which is handed through; ConfigError, as configurations are valid ones.
* Wording of errors, re-exports, fuzz targets, validation arms.

## 6. Findings

1. **An empty final fragment at a block boundary is accepted** (`decoder_trailer`). `stream_open`
   tells a stream that has begun from one that has not, but after a message under context takeover
   the stream is open *and* between two blocks. A final call with no octets then passes the guard at
   `src/codec.rs:374`, `00 00 ff ff` is read as the header of a stored block, the call returns `Ok`,
   and the peer's next, conforming message fails or decodes to something else. The comment above
   the guard ("So the four octets always complete a block already begun") and the test
   `an_empty_message_is_rejected` (`tests/codec.rs:404`, on a fresh decoder) say that such a message
   is answered with `InvalidStream`.
2. **`MessageTooLong.size` may equal the delivery** (`decoder_size`). With the ceiling lowered below
   what was delivered, a call whose backend step produces nothing (an empty fragment, or octets that
   yield no output yet) is refused with `size` equal to the delivery, not one past it as
   `src/error.rs:137` says. `CeilingHolds` states what does hold.

3. **A ceiling of `usize::MAX` is unbounded** (`decoder_unbounded`). The total saturates and the test
   is `size > limit.0` (`src/codec.rs:425`), so no total is ever above that limit, where the doc of
   `DecompressedLimit` says "Exactly this many bytes are allowed; the byte after is an error. There
   is no unbounded spelling". It takes a message delivered in fragments, which the host need not keep
   together, and is in reach where `usize` has 32 bits.

Two remarks that no run states. The comment at `src/grammar.rs:295` calls quote-aware delimiting
unobservable through the public API because a field is validated first; `install` and
`seal_without_offer` do not validate, and a quoted `,permessage-deflate,` in another extension's
parameter is an offer to a splitter that ignores quotes. And the comment on `unquote` (`:268`) takes a
bare `"` in an unquoted value for unbalanced: `a"b"` is balanced, and refused all the same.

## 7. Plan

In the order of importance; what exists is marked.

1. `Flate2`, `Encoder`, `EncoderProofs` (done): the history both ends must share.
2. `Decoder` (done): position, ceiling, width, termination.
3. `Grammar`, `Negotiation`, `Handshake` (done): what is agreed is what was sent.
4. `DecoderProofs` (done): the position, the ceiling, the total, the width and the two action
   properties, from an invariant over the phases of a call.
5. `HandshakeProofs` (done): every property of the handshake.
6. `MessageChannel` (done): what a host is promised, with `Encoder` proved to implement it.
7. `Link` (done): `Encoder` against this crate's `Decoder`. `LinkProofs`
   (done): that they implement the channel, from the invariants of both.
8. `SyncFlush` (done): the rounds of `feed` and `sync_flush` with the room each is given;
   `SyncFlushProofs` (done): that the room suffices for every payload length.
9. `FieldSyntax` (done): header fields octet by octet, against a reference grammar and against
   `Grammar`.
