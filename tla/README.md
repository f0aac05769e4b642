# A TLA+ verification of protowire-cpp

protowire-cpp reads and writes three encodings of protobuf messages: **pb** (the
wire format of annotated C++ structs, alone or in a framed stream), **sbe**
(fixed-layout binary blocks, alone or framed by a SOFH header) and **pxf** (a text
format with a lexer, a parser, a fused decoder, an encoder, a source-preserving
rewriter and a streaming reader of `@dataset` rows). The library has no threads.
Two things are hard in it. One is the state that lives across calls: a stream that
grows, ends or fails between two bytes, a buffer that is scanned again and again, a
table of raw pointers, edits staged one by one and applied at once. The other is
that the same thing is written more than once: two modes of one parser and a decoder that
reads tokens on its own, a writer for every reader, limits counted on both sides,
offsets checked in one function and trusted in another.

`PROJECT.json` lists the components, the runs, the mutants, which lines every
definition stands for, the hazards, the findings and the theorems.

## Inventory

| part | source | what makes it hard | modules |
|---|---|---|---|
| pb framed stream | `pb/stream.cc`, `detail/stream.h` | partial writes, early end, an end that is not final, a prefix cut anywhere | FrameChannel, PbStream, PbStreamProofs |
| pb struct codec | `pb.h`, `detail/wire.h` | merging of records, packed and single elements, skipped groups, limits on both sides | PbWire, PbCodec |
| big numbers | `pxf/bigfloat.cc`, `pb/big.cc` | limb arithmetic, rounding at a bound, two writers that must refuse the same values | BigNat, BigFloat, PbBig, BigNumbers |
| sbe framed stream | `sbe/stream.cc` | as pb, and a 32-bit length field | FrameChannel, SofhStream, SofhStreamProofs |
| sbe templates | `sbe/template.cc` | recursion, 16-bit offsets | SbeTemplate, SbeTemplateProofs |
| sbe codec registry | `sbe/codec.cc` | pointers into owned entries, refusal half way | SbeRegistry, SbeRegistryProofs |
| sbe view, unmarshal walk | `sbe/view.cc`, `codec.cc`, `unmarshal.cc` | one check at the start that every accessor relies on, two walks of the same bytes | SbeView, SbeViewProofs |
| sbe message codec | `sbe/marshal.cc`, `unmarshal.cc`, `encoding_range.h` | ranges of encodings narrower or wider than the field, cut text, a refusal after half a message | SbeCodec |
| pxf lexer | `pxf/lexer.cc` | a token cut short is another token | PxfLexer, PxfLexerProofs |
| pxf dataset reader | `pxf/dataset_reader.cc` | bytes in any split; a row must not be held back | DatasetReader, DatasetReaderProofs |
| pxf parser, formatter | `pxf/parser.cc`, `format.cc` | recovery, pending comments, a text that must parse as what it was written from | PxfParser, PxfFormat, PxfText |
| pxf decoder, encoder, keyed collections | `pxf/decode_fast.cc`, `encode.cc`, `keyed.cc` | nested binding state, defaults after the document, the secret hook's path, rules stated three times | PxfTypes, PxfDecoder, PxfEncoder, PxfKeyed, PxfCodec |
| pxf rewriter | `pxf/rewriter.cc` | edits computed from the source without knowledge of each other | Rewriter, ListEdits |
| XML schemas, schema checks, text helpers, envelope, check seam, tools | | conversions of text, plain data | not modelled |

## The modules

### Streams

**FrameChannel** is the abstract specification of a framed stream: frames written
whole reach the reader in order, once, until a framing error ends the stream.

**PbStream** is `pb::Encoder`, an istream and `pb::Decoder`. A byte is its offset;
`frames` says where each frame starts, so that a prefix byte read at an offset says
what `Encode` wrote there, and one read anywhere else says anything. The writer's
`Encode` is one step (`EncodeFails` stops it after any number of bytes); the reader
takes a step per prefix byte (`ReadLenByte`, the loop of `ReadUvarint`) and one for
the body, since bytes arrive (`Transmit`) and the source fails (`SourceFails`)
between them. `Garble` lets the transport change what has not been read.

**SofhStream** is the same for `sbe::Encoder` and `sbe::Decoder`; the total length
is kept modulo `Modulus`, the width of its field.

### sbe

**SbeTemplate** is `BuildTemplate` with `BuildGroupTemplate` and
`BuildCompositeFields` as an explicit stack of calls. A schema is chosen in `Init`;
each step takes the next field of the innermost call, or returns from it.

**SbeCodec** extends it: once the template is built, `CodecSpec` does one piece of
work with it, a `Marshal` of a message or an `Unmarshal` of a wire into a message
that may already hold something. A byte has `ByteBits` bits, so that `int8` to
`uint64` keep their order of widths and their ranges; `FieldEncodingSize`, `RangeOf`,
`CutLength`, `WriteScalar` and `DecodeScalarField` are the code's.

**SbeRegistry** is `Codec::New`: one message per step. A template is its identity,
so that a pointer in `by_id` to a template no longer in `by_name` is a pointer to
freed memory.

**SbeView** is `Codec::NewView` and `ValidateGroups`, then any sequence of
accessors of `View` and `GroupView`, beside the walk of `UnmarshalInto`. A buffer is
its size and what its headers say. `read` is the range the last accessor touched.
Its assumption on layouts is what `SbeTemplateProofs!LayoutsTile` establishes.

### pb

**PbWire** has the wire primitives of `detail/wire.h` on sequences of bytes, their
widths as constants. **PbCodec** is `Marshal` and `Unmarshal` over struct types given
as data (`Types`); a map is a `std::map`, with its keys sorted, or a
`std::unordered_map`, walked in any of the orders `Walks` gives. The root message is read one record per step, so that the struct
after any prefix, also after an error, is a state of the model.

**BigNat** is class `Nat` of `bigfloat.cc`, limb by limb, every cast a `%`; the loop
of `DivMod` is a machine with one quotient digit per step. **BigFloat** is
`ParseBigFloatLiteral` with the steps of Go's `big.Float.Parse` it replays,
`FormatBigFloatLiteral` and `CheckBigFloatLimits`. **PbBig** has the big-endian
bytes, text and messages of `pb::BigInt`, `Decimal` and `BigFloat`. **BigNumbers**
sends one number through all of them: a literal, a message, or a BigFloat with its
fields as a program set them, which `pb::Marshal` and `ReadBigFloatAsString` take.

### pxf

**PxfLexer** gives the token at an offset of a text over classes of bytes: its kind,
and where it ends. `Valid` stands for the conversions (base64, timestamps) whose
outcome decides between a literal and an error.

**DatasetReader** is `DatasetReader::Next` in the steps the code takes: the fast
path on what is buffered, `Resume`, one step per token of `ScanRow`, `Pull`. The
text after the header and how much of it is buffered are chosen in `Init`, and
`Pull` returns any number of bytes. `ParseRows` is what `Parse` makes of the whole
text: the reference the rows returned are compared with.

**PxfParser** is class `Parser`, strict and tolerant, over tokens, its recursive
descent a stack of calls with one operator per function. **PxfFormat** is
`FormatDocument` as the tokens, line ends and comments it writes, with what the lexer
makes of a `@proto` source between triple quotes (`Dedent`). **PxfText** runs a
parse step by step and states what parsing and formatting promise together.

**PxfTypes** has descriptors and messages, and which types take a literal or a
default. **PxfDecoder** is `DirectDecoder`, again a stack of calls over tokens, and
`PostDecoder`; **PxfEncoder** is `Marshal` to tokens; **PxfKeyed** is
`CanonicalizeKeyed` and `KeyedDiagnostics` on the parser's AST. **PxfCodec** runs a
decode step by step and compares it with all the others; what a document means
(`Meant`) is read off the AST, not off the decoder.

**Rewriter** holds what all editors of `pxf::Rewriter` share: looking around in the
source, `Stage`, and the sort, the conflict test and the splice of `Bytes`.
**ListEdits** adds the keyed editors on a collection in the list form: remove,
insert, rename and move, with the commas and comments each takes along. A source is
a sequence of symbols: space, newline, bracket, comma, a whole comment, an element
of three symbols. `removed`, `placed` and `renamed` record what was asked, and the
properties compare it with what `Bytes` would return in every state.

The `MC` modules give the constants their values.

## The runs

| run | shows |
|---|---|
| `pb_stream` | frames at their boundary, EOF only when drained, errors only for cause and for good, everything delivered in the end; until a byte is garbled PbStream implements FrameChannel |
| `sofh_stream` | the same EOF and refinement for SOFH |
| `pb_codec` | after every record the struct is what the bytes read so far mean; what was read is written, in any order an `unordered_map` is walked in, and read back the same, or refused exactly for its depth; the count limit holds of the struct also after an error |
| `big_numbers` | long division keeps its invariant digit by digit, arithmetic on limbs is arithmetic, an accepted literal is the nearest value within the bound, and one is refused for its magnitude only when its rounded value is past the bound or, as in Go, exactly at it with the literal a hair from the rounding carry; a BigFloat has one form on the wire, and text and message writers both refuse one that rounds past the bound; a Decimal has one form |
| `sbe_registry` | every message is found by its ids and its name, refusals have a cause |
| `sbe_registry_two_pools` | (violation) the finding below |
| `sbe_view` | no accessor leaves the buffer, `View::Group` and `UnmarshalInto` agree, no group and no entry is missed |
| `sbe_codec` | every block is tiled end to end within 16 bits; `Marshal` refuses exactly what an encoding cannot hold, and what it writes reads back; what any writer sent and `Unmarshal` takes writes back the same; a wire refused for its structure leaves the message alone |
| `dataset_reader` | for every split into reads, the rows, the end and the error (with its position) are those of `Parse`; no complete row is held back; `Tail` starts at the next directive; every step of `Next` moves on |
| `list_edits` | one edit of any layout applies; two accepted together give the elements asked for in the order asked for, and lose, double or reassign no comment |
| `pxf_parse` | both parsers end after linearly many steps and agree; every comment is filed once; `body_offset` splits the document; a formatted document parses to the same and formats to the same, but for the two cases named below |
| `pxf_decode` | the one-pass decoder gives what the AST means; what it decodes is written and read back at every depth limit; the keyed diagnostics and the canonical form agree with it; the secret hook gets each secret at its path |

### Bounds

- Streams: two frames and one garbling. pb: an empty body, at the limit of 0, and one
  of two bytes, above it until a caller sets a negative limit, which lifts it; base-2
  varints, so that prefixes take one byte and two, and a garbled one up to the bound
  of three. SOFH: bodies of 0, 3 and 4 bytes, a two-byte header and a length field of
  six values, so that the length of the longest body wraps to 0. Two frames suffice for every pair of a
  frame and what stands behind it; both streams are proved for any number. Deadlock is not
  checked: a writer that is done and a reader that is not called again is how a stream
  stops.
- PbCodec: bytes of 5 bits below the continuation bit and words of 11, so that a varint
  that fills a word has three bytes, its last one bit; `int32` of 6 bits; groups nested
  2 deep at most. Every sequence of up to three records out of 17 to 22 for each of
  five struct types, at depth and count limits of 1 and 2. One of the three maps is a
  `std::unordered_map`, walked in every order of its keys. One byte value stands for
  text that is not UTF-8. Three records are one before, one after and the one between
  them.
- BigNumbers: limbs of 4 bits in two bytes, so that divisions which need the
  divisor added back occur; every operand of up to 4 and 3 limbs out of
  {0, 1, 8, 15}. Radix 3 for the text of Decimals, powers taken off two at a time.
  Literals of up to 2 + 2 digits with exponents on both sides of the bound of 12, at
  precisions around the digit limit. `Parse` keeps 2 guard bits in place of 64, so that
  short literals are a hair from a carry: `3e3p1` and `9.2e-5p1` have the exact exponents
  12 and -12 and Parse's 13 and -13. `HairFromCarry` allows one unit of the last bit
  kept; the longer powers of the code take more products, with half a unit of error
  each. BigFloats arrive as literals and messages and are also filled in with mantissas
  wider than their precision, at and next to the bound.
- SbeCodec: bytes of 2 bits, a header field that states up to 15, messages of 40 bytes,
  3 entries. Every small schema of three types nested three deep is laid out. One field
  of every type in every encoding is written with the ends of every range and what lies
  next to them, and read from every pattern of its bytes (a selection for four and
  more). Composites, groups and a oneof go through messages and wires that are too
  short, too long and have larger blocks than the template.
- SbeRegistry: two files of up to two messages, two schemas, two ids, missing, stale
  and too large ids. Proved for any.
- SbeView: two layouts of two groups each (a scalar and a composite in the root block, a
  group of a field and one of a composite; a message of empty blocks), header fields 0..3, buffers of 0..18 bytes, limits inside that range. Proved for any.
- DatasetReader: about 1900 short texts built from 31 pieces of tokens, whole, cut and
  malformed; 375 texts with literals of eight bytes and more (the code's
  `kShortWait`); six around a buffer limit of 20 bytes. One read may return all
  of a text, and the source may fail. One column: the cells of a wider row are lexed by
  the same loop.
- ListEdits: every combination of the ways to begin a list, to part two elements and
  to end it, inline and over several lines, for up to two elements, and a selection
  for three, with any two calls.
- PxfText: every sequence of one to five tokens, out of those that matter there, in
  eleven places of a document (body, block, `@type`, list, after a value, directive,
  `@proto` and its source, `@dataset` header and rows), at a depth limit of 2. The body
  of a `@proto` source is every text of up to four characters out of a letter, a quote, a
  newline and a blank, with no three quotes in a row. An error and the recovery from it
  need a few tokens; the prefix supplies the rest of the context.
- PxfCodec: fourteen grammars of phrases over one schema with every feature of the
  decoder: bind-once and oneofs, nested, repeated and map messages with required fields
  and defaults, keyed collections in both forms, map keys of each kind, literals of
  well-known types, `Any` packed and opaque, secrets in every position, directives.
  Documents have up to five phrases; the limits on depth and count lie inside them.

### Fairness

`PbStream!FairSpec` is the only specification with fairness: bytes that were written
arrive (`Transmit`) and the caller goes on calling `Decode`; nothing is assumed of the
writer or of the source's failure. That `Next`'s loop ends is stated without fairness,
as a measure every step of it lowers (`Advances`), and that the parsers end as a bound
on their steps (`ParseEnds`).

### What the passing runs leave out

Inputs of which a property does not hold are kept apart, so that the runs say what
holds without them. Each is a fact about the code:

- Files of two descriptor pools: see Findings.
- SOFH bodies of 4 GiB and more are framed with the low 32 bits of their length
  (`sbe/stream.cc:44`), which breaks `ChannelSpec`. A body of 4 GiB - 6 bytes to 4 GiB
  gets a length below the header's own, which every reader refuses.
- Dataset rows: a `\U` escape cut after four to seven digits is taken as a final error
  (`pxf/dataset_reader.cc:525`), which breaks `RowsAsParsed`; a closed string of eight
  bytes and more with a `/` behind it at the end of what is buffered waits for another
  quote (`pxf/dataset_reader.cc:540`), which breaks `NotHeldBack`.
- List edits: an element moved away and back leaves the earlier move staged
  (`pxf/rewriter.cc:1454`, `MayReturn`), and a closing bracket on the last element's
  line of a list of several lines is hidden by a line comment that moves there
  (`pxf/rewriter.cc:1468`); both break `ElementsAsAsked`. A block comment between an
  element and its comma is deleted by a move (`pxf/rewriter.cc:1614`), which breaks
  `CommentsKept`.
- `x = [a {}]`, a list element that could be a key before a block without a comma
  (`KeyLikeElement`), is accepted by `Parse` and reported by `ParseTolerant`, against
  `include/protowire/pxf/parser.h` ("A valid input gives the AST Parse gives and no errors.").
- `@dir p`, `@type T`, `a {}` (`DirectiveMeetsBlock`): the formatter writes `@type`
  first, and the block becomes the directive's, against `pxf/format.cc:343-345`
  ("moving it changes nothing").
- A `@proto` source is written back raw between triple quotes (`pxf/format.cc:327-331`),
  and the lexer ends it at the first three quotes and dedents it. One that ends in a quote
  is not read back, and one that starts with a newline or has a last line of blanks is
  read back without them (`SourceNeedsEscapes`), against what
  `test/pxf_format_directives_test.cc:60-61` checks of others ("the output parses to the
  same directives and is a fixed point of formatting"). A source with three quotes in a
  row, which only an escaped string can hold, is in no document of the run.
- A comment between `@name` and its `{` is lost (`BeforeDirectiveBlock`).
- Comments that trail a key assignment which `CanonicalizeKeyed` drops go with it
  (`CHANGELOG.md:124` says so); the grammars have comments on lines of their own.
- The decoder is looser than the parser on the body of a named directive, which it
  brace-matches, and on a string after `@type` (`Looser`).
- pb records in another wire type than their field's are read by the field's natural
  encoding; `DecodesRecords` states no meaning for them.

Other facts are inside the runs, stated by a property as what happens:

- `pb::Marshal` can refuse for depth a value that `Unmarshal` took at the same limit: it
  counts members held in place that were never read (`ReencodesSame`).
- The bytes of a `std::unordered_map` come in the container's order, so two `Marshal`s of
  one value need not agree byte for byte; for `std::map` they do (`ReencodesSame`).
- A BigFloat literal exactly at the bound may be refused for big.Float.Parse's exponent
  (`LiteralNearest`; `CHANGELOG.md:83`, `test/pxf_bignum_test.cc:387-390`).
- A BigFloat stored one below the least exponent, whose rounding carries it up onto it, is
  written as a message and refused as text: `CheckBigFloatLimits` asks the stored
  exponent first (`pxf/bigfloat.cc:798`, `LiteralSurvives`).
- A nested message without fields gets an empty composite, which
  `sbe/template.h:35` says only a scalar has, and `Marshal` ends the program on it; a
  group of entries with an empty block is written and refused on reading; a oneof binds
  in a group (`test/sbe_oneof_test.cc:4-7`) and keeps its last member (`RoundTrips`).
- `Unmarshal` adds group entries behind those a reused message has (`StructureFirst`).
- `CanonicalizeKeyed` drops both of two agreeing key assignments (`pxf/keyed.cc:36-38`).
- Two appends behind a last element with a comment and no comma stage two commas, and
  `Bytes` refuses the text (`pxf/rewriter.cc:1699`); an insertion at the start of a
  removed span is accepted when staged first and a conflict when staged second
  (`pxf/rewriter.cc:787`).

## Findings

| run | source | what the code does |
|---|---|---|
| `sbe_registry_two_pools` | `sbe/codec.cc:77` | a name registered again with other ids leaves a dangling pointer in `by_id_` |

## What is proved

For every value of the constants, by TLAPS.

**PbStreamProofs**: `TypeCorrect`, `DeliveredInOrder`, `StandsAtBoundary`,
`ErrorsStick`, `StreamImplementsChannel`, from assumptions on the constants only
(lengths are naturals, limits integers, the base at least 2). `InOrder` is not
inductive: that the next body is the next frame's depends on where the decoder
stands inside it. `IInv` adds that the frames lie one behind another (`Contiguous`)
and end where the writer is (`Written`), that inside a call the decoder is `nread`
bytes past the last body (`Boundary`), and that the prefix it reads is the next
frame's (`InNextFrame`). The lemmas go action by action; `NextFrame` and
`SomethingLeft` say which frame the decoder is in. `ChannelSpec` asks for the steps of
FrameChannel until something is garbled; from then on a stream promises only
`AtFrameBoundary` and `StickyError`.

`StreamEndsForCause` follows from the same invariant: EOF and every framing error have
the cause the code names.

**SofhStreamProofs**: `EOFIsTheEnd` and `SofhImplementsChannel`, for any bodies shorter
than the modulus of the length field (`ShortBodies`). The field may still wrap, since
the header counts too: it then states less than a header, which every reader refuses
(`sbe/stream.cc:81`, `TotalOfShort`), so that what a reader takes for the length of a
body is the length of the frame's. The rest of `IInv` is PbStream's, with a header of
fixed length.

**SbeTemplateProofs**: `LayoutsTile`, for any schema, nesting and field sizes: the
fields of every block lie end to end within 16 bits, and a composite takes what its
own fields take. `BlocksTiled` speaks of the finished blocks and of the lists of the
calls in progress. `IInv` adds that each call but the innermost still stands at the
field the next was made for (`Nested`) and that the composites of an unfinished list
are finished blocks (`Owned`).

**SbeRegistryProofs**: `FoundInOnePool` and `RefusalsHaveCause`, for any files under
the assumption that they are of one descriptor pool (`OnePool`), which the finding
shows to be needed. `IInv` says that the two tables agree entry by entry, that every
template is of a message of the files with ids of 16 bits, so that keys that are equal
have equal ids (`KeysDiffer`), and that every message passed is registered.

**SbeViewProofs**: `TypeCorrect`, `AccessorsStayInBuffer`, `ViewsHoldTheirFields`,
`ViewAgreesWithUnmarshal`, `EveryEntryThere`, `EveryGroupFound`, from the assumption
that a layout is what `BuildTemplate` returns (`LayoutsTile`). `IInv` says that the
headers `ValidateGroups` accepted form a chain inside the buffer (`Chain`) and that both
walks stand at a link of it (`Progress`, `Decoded`); that is why a guard of
`View::Group` that leaves the message header out of account is never the one that
decides.

**PxfLexerProofs**: `LexerAdvances`, for every text and offset: the lexer passes spaces
only, returns the end of the text at the end and nowhere else, and takes one byte or
more for any other token and none behind the end. The provers have no induction over
data, so the module derives it in the form it uses: a nonempty set of naturals has a
least element (`LeastNat`), hence a set that holds an offset whenever it holds all
later ones holds them all (`DownInduction`), and a recursive function over the offsets
of a text exists and equals its unfolding (`FixedPoint`), since each call looks only
further on. The other lemmas go through `Lexer::Next` branch by branch.

**DatasetReaderProofs**: `ResultsStick`, which needs only that a reader that has ended is
between calls; and `ReaderAdvances`, for every text, split into reads, limit and failure
of the source. The inductive invariant is `Buffered`: what is buffered is the stream from
`base_` to what has been read, and the scan stands inside it. A row consumed is not
empty because `ParseRow` ends behind the offset it starts at (`RowAtFacts`, from
`CellsBounds` and `AheadBounds` by the induction above), and a turn of the scan gets on
because the lexer does.

## What is only model-checked

Liveness (`AllDelivered`). What the parser, the decoder, the encoders, the arithmetic and
the splice of `Bytes` compute: their functions are recursive over data, and are declared
as RECURSIVE operators, which the provers cannot use; hence all properties of
`list_edits`, `pxf_parse`, `pxf_decode`, `pb_codec`, `big_numbers`, and those of
`sbe_codec` but `BlocksTiled`. Of `dataset_reader`: `RowsAsParsed`, `TailResumes` and
`NotHeldBack`, which need that the lexer's result does not change with the bytes that
arrive behind a complete token.

## What is not modelled

- XML schemas, timestamps and durations, string escapes, the formatter's indentation
  and other text helpers: functions from text to text with no state, over data TLC
  cannot enumerate to any purpose; the repository sweeps them against Go's.
- `ValidateFile`: one pass over descriptors, one condition per rule.
- The dataset writer but for its column paths: cells written one by one.
- The envelope and the check seam: plain data and one call. The tools: argument parsing
  and I/O.
- Rewriter: the block form of the keyed editors, `Set`, `Remove`, `AppendEntry`,
  `SetSpan` and collections bound in several places. Stage and `Bytes`, which they
  share, are modelled.
- DatasetReader: the scan of the header, `Scan` with `checked_type_`, rows with lists
  and blocks.
- BuildCompositeFields on a message type that contains itself recurses without end; the
  schemas are acyclic.
- Within modelled parts: the text of a number or a string, non-ASCII identifiers, line
  and column of a position outside the dataset reader, the ranges of the decoder's
  scalars, field presence in SBE, the validator that runs after a decode.
- `MarshalOptions::emit_defaults` is in PxfEncoder but set by no run.
