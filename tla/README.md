# A TLA+ model of the DLMS/COSEM client library

This directory holds TLA+ modules that model the C library in `src/`, TLC configurations
that check them on small instances, and TLAPS proofs of their most important properties.
The source is the reference: a definition carries the name of the function or field it
models, and `PROJECT.json` ("map") gives the lines it stands for.

## 1. The system

| Part | Source | State | Operations |
|---|---|---|---|
| DLMS client | `src/dlms_client.c` | `dlms_client_t`: state, N(S), N(R), negotiated window and PDU size, HDLC parameters, callbacks | init, set_io, connect, disconnect, associate, hls_authenticate, read, write, action, send_apdu |
| HDLC frames | `src/dlms_hdlc.c` 1-475, 542-615 | none (parameter lists are values) | CRC, stuffing, addresses, control field, parameter lists, frame encode/decode, builders |
| HDLC streaming parser | `src/dlms_hdlc.c` 478-538 | `dlms_hdlc_parser_t`: state, buffer | create, reset, parse (calls a callback for each frame) |
| ASN.1 association APDUs | `src/dlms_asn1.c` | none | BER lengths, AARQ and AARE encode/decode, initiate request and response |
| A-XDR | `src/dlms_axdr.c` | none | encode/decode of `dlms_value_t`, compact arrays |
| Security | `src/dlms_security.c` | none: keys and invocation counters are the application's | SM4 with ECB, CBC, CTR; GCM and GMAC with SM4 and AES; security control byte; `dlms_security_encrypt`, `_decrypt`, `_gmac`; key derivation |
| COSEM classes | `src/dlms_cosem.c` | one struct per class, in storage of the application; the object list | create, get_attr, set_attr, action; list init, add, find |
| Core | `src/dlms_core.c` | none | OBIS codes, value setters, dates, buffers, byte order |

Interactions: the application calls the client; each call builds one frame with
`dlms_hdlc_build_*`, gives it to the callback `send_fn`, and, if it wants an answer, blocks in
the callback `recv_fn` once or (when an RR frame came first) twice, and decodes what it
returned with `dlms_hdlc_frame_decode` and, for an association, `dlms_aare_decode`. The
library holds no thread and no timer: the concurrency is that between the client, the line
and the meter. The streaming parser is an alternative to `frame_decode` that no other part
of the library calls. A-XDR, security and the COSEM classes are independent libraries that
the client does not call.

What is hard here, and what makes each part correct:

* **Client.** Calls return on a timeout with frames still on their way; a later call meets
  them. Neither N(S), N(R) nor the kind of association is checked on reception. A meter may
  or may not send an RR before its answer. Numbers are three bits wide. Callbacks may be
  NULL. Correct means: the two ends agree on sequence numbers once a link is open, whatever
  else goes wrong; answers belong to requests when nothing goes wrong; every call returns.
* **Frames.** Any byte of a checksum, address or payload may be a flag or an escape;
  lengths change with escaping. Correct means: what is built decodes to the same meaning,
  and damage is rejected.
* **Streaming parser.** Damaged flags and escapes merge or split frames, and the buffer has a
  limit. Correct means: an undamaged frame arrives whole and once, and damage is forgotten.
* **Association APDUs.** Nested lengths change form at 128; optional elements; results
  encoded in several ways; initialised and uninitialised output fields. Correct means: what
  one end encodes the other decodes, and an incomplete APDU is not taken for a whole one.
* **A-XDR.** Lengths change form at 128 and 256; arrays nest, and the decoder leaves their
  items to its caller. Correct means: what was encoded is read back value by value, with none left over,
  and what was cut is noticed; a compact array holds what was put in.
* **Security.** The library keeps no counter and no key: what makes two messages safe beside each other
  is the sum of what two applications pass. Lengths of keys depend on the suite in three places. Correct
  means: a text comes back under the same key, in whatever mode and of whatever length; a tag is right for exactly what
  it was made of; ends that derived their keys the same way agree; no counter block is used
  twice as long as the applications repeat no counter.
* **COSEM.** Nothing is copied in depth: a value of octets is a pointer to a buffer of the application, to a key in an object,
  or to a local variable of a function that has returned. Objects may be registered twice, share a name, or be created again where
  they are while registered. Correct means: the list is a directory; what was written is read back; an
  answer denotes what the attribute was, and goes on doing so.

## 2. The modules

```
AareResult --> DlmsWire --> DlmsClient --+
                       \--> Meter -------+--> DlmsSession --> MCSession
                            RpcSession ..(refinement)..^ \--> DlmsSessionProofs
HdlcStream --> MCStream, HdlcStreamProofs
Bytes --> HdlcCodec --> HdlcFrame --> MCFrame
                   \--> HdlcCodecProofs --> HdlcFrameProofs (with HdlcFrame)
     \--> Axdr --> MCAxdr, AxdrProofs
     \--> DlmsAsn1 --\
          HdlcCodec, AareResult --> DlmsAssociation --> MCAssociation
                                                   \--> DlmsAssociationProofs (with HdlcCodecProofs)
CosemClasses --> Cosem --> MCCosem
 CosemDirectory ..(refinement)..^ \--> CosemProofs
Sm4 --> Gcm --> Security --> MCSecurity, SecurityProofs
```

### The session

**`DlmsWire`** is the serial line between `send_fn` and `recv_fn`: two queues of frames. What
the line may do wrong is the constant `Faults` (failing sends, frames lost in either
direction, answers that come after the timeout, chunks that `frame_decode` rejects because
they are damaged, hold half a frame, or two). Frames are records of what either end branches
on.

**`DlmsClient`** is `dlms_client_t` and every call on it but `dlms_client_set_addresses`, which
stores two numbers no call tests. A call is one action up to the point where
it blocks in `recv_fn` and one action for each wait that follows: `dlms_hdlc_connect` and
`dlms_hdlc_connect_ua`; `dlms_associate`, `dlms_associate_aare`, `dlms_associate_aare_rr` (after
an RR); `dlms_send_apdu`, `dlms_send_apdu_resp`, `dlms_send_apdu_resp_rr`. Variables have the
names of the fields. `call` is the program counter of the call in progress, `last` the
outcome of the last one. Return codes are the code's, with two classes folded (`IO`:
whatever the callback returned; `PARSE`: whatever the decoders return). A NULL `recv_fn` is
called by `connect` and `associate`, which ends the process (`aborted`); the
process may then start over with `dlms_client_init`.

Two details are choices rather than values, because the build decides them. The decoded frame points into the dead stack frame of
`dlms_hdlc_frame_decode` (`dlms_hdlc.c:391`), and the initiate response is copied from a local
that a failed decode leaves unset. Compiled with gcc at -O0 to -O3, the UA parameters, the AARE result and the response APDU
survive; the negotiated PDU size is lost at -O0 and applied at -O1 to -O3. `max_pdu_size` therefore takes any value of
`PduSizes` or stays; the survival of the others is an assumption of the model.

**`Meter`** is external: the repository has no HDLC server. It answers SNRM and DISC, answers an
I-frame in sequence (with or without an RR first) and discards one out of sequence.

**`DlmsSession`** puts the three together, with a history variable `link`: `resetting` while a connect
waits and nothing was lost since its SNRM, `agreed` once it has succeeded, `unknown` after a
loss towards the meter, a disconnect, a failed connect or `dlms_client_init`.

**`RpcSession`** is the abstract service: one request outstanding, executed at most once, a call that is
answered returns the answer to its own request, and fails only if the request was not
executed. `DlmsSession` defines the refinement mapping (`Rpc`, `ImplementsRpc`).

### The streaming parser

**`HdlcStream`** runs the loop of `dlms_hdlc_stuff`, between the flags of `frame_encode`, against the loop of
`dlms_hdlc_parse`, a byte a step, with the line damaging, dropping or adding bytes and the application
resetting the parser at any time. `handed` is what the parser gives to `frame_decode`. `ForeignByte` is a byte that no sender
put there: noise, or a byte of another line, since `dlms_hdlc_parser_create` returns one static parser
(`dlms_hdlc.c:479`) and a second line would share it.

### Bytes

**`HdlcCodec`** translates `dlms_hdlc.c` function by function (CRC table and its bit reversal, stuffing,
addresses, format and control fields, parameter lists, frames). The loops over bytes (`crc16_compute`, stuffing and
unstuffing) are `Run` of `Bytes`: the state after a sequence of bytes when each takes it a step further. It splits the
sequence in halves, for the depth of TLC's recursion; that it is the way byte by byte is a lemma (`Running`). `Xor` adds up the
bits in which two bytes differ. **`HdlcFrame`** is the machine:
collect parameters, build a frame with one of the builders, flip a bit, decode. **`DlmsAsn1`**
translates `dlms_asn1.c`, with its quirks (one-byte offsets, elements skipped by tag, results
that are looked for in one place and default to accepted). The loop over user information is a recursive function:
`NextField` is one round, `UserFields` the state after as many rounds as there can be, each of which takes two bytes at
least. Fields that the code reads into a struct are collected as the last initiate request or response, which is decoded
afterwards. `Bytes` holds the byte arithmetic the codecs use. **`DlmsAssociation`** sends an AARQ of `dlms_associate` through frames to a meter that uses the
same library, and an AARE, whole or its first segment, back. `AareResult` is what the session model keeps of
the AARE decoder; `AbstractionAgrees` checks it against the bytes.

**`Axdr`** encodes a list of values and decodes it again. `axdr_encode` recurs over arrays; the model takes
one node (tag, length, bytes) a step and keeps the recursion as the number of nodes still to come, `todo`.
The decoder does not recur: `dlms_axdr_decode` returns the header of an array, and its
caller goes on with the items, counted by `due`. The second pair of actions does the same for
`dlms_axdr_encode_compact_array` and `dlms_axdr_decode_compact_array`.

### COSEM objects

**`CosemClasses`** is a table: the number of each of the sixteen classes, the attributes its `get_attr` knows with the
values its create function leaves, which of them are plain integers, keys or copied through a local array, and which
`set_attr` takes. The sixteen triples of functions differ in nothing else, apart from `profile_generic`, whose `get_attr`
leaves the caller's value alone when the buffer was never set.

**`Cosem`** is a server's objects and list with their owner. `Slots` are storage for structs, `kind` says of
which class each is; `objects` is `list->objects` up to `list->count`. An action is a call of the library
(`create`, `dlms_cosem_list_add`, the two look-ups, `get_attr`, `set_attr`, `action`, `dlms_cosem_list_init`) or what the
application does to memory that the library points into: `write_field`, `reuse_buffer`. Octets are a reference
to an application buffer, to an object's own key, or `Dead`, the stack of a `get_attr` that returned; what a reference
`Denotes` is a set, which for `Dead` is everything. `held` is the `dlms_value_t` the caller passes to every `get_attr`.
Two history variables follow a value past the call that moved it: `watched` is one write through the list that should
still be seen, `kept` what the value read last should still denote, with the memory (`Source`) whose change ends that.

**`CosemDirectory`** is the abstract service: a set of registered objects with a capacity, in which a look-up finds
*some* object with the class and name asked for. `ImplementsDirectory` is the refinement; that the object found is
always the same is `LookupStable`.

### Security

**`Sm4`** is the cipher by its structure: words are sets of bits, so that XOR is symmetric difference; S-boxes,
rotations and tables are parameters (`T`, `TPrime`, `FK`, `CK`), since it is the shape of the rounds that lets a block be
decrypted, whatever they hold. The modes are translated with their partial last blocks and with decryption in place.
**`Gcm`** adds GCM and GMAC for both ciphers. As in the code, AES-GCM encrypts with the SM4
rounds over the AES key schedule (`dlms_aes128_gcm_encrypt` hands its context to `sm4_gctr`). A tag is ideal: equal tags were
computed from equal inputs.

**`Security`** is two ends that send each other messages protected by the library's calls. Keys, invocation counters and the
fields of a message are the applications'. A message may have any counter, one that was used before too, as `test_security.c`
and the example do. A derived key of 16 bytes leaves what is behind it in its array;
what was there at first may differ between the ends. What was sent may arrive never, again or late, and a GMAC with
another counter or other data. Damaged cipher texts are left out, and inputs shorter than a tag, which `dlms_security_decrypt`
refuses. `result` is the last call's with what it was called with, so that
the properties relate it to the message it is about; a call starts when the application has seen the result of the one before.

`MCFrame`, `MCAssociation` and `MCAxdr` each hold an assumption `Vectors`: byte sequences produced by the compiled
library, which TLC compares with the operators. `MCFrame` and
`MCAssociation` also assume that their constants are `Expressible`, the hypothesis of some of the theorems (section 4).

## 3. The runs

| Run | Asks | Bounds |
|---|---|---|
| `reliable` | On a perfect line, with an application that waits for every answer: types, `LinkAgreement`, `AnswerMatches`, `QuietBetweenCalls` (nothing is left for a later call), that the session implements `RpcSession`, and that a request on an agreed link is answered (`AgreedLinkAnswers`). | Two requests, so that answers can be confused; three frames in flight; meter with and without RR, accepting and refusing, with its result in each of the three forms, with and without an initiate response; two sets of UA parameters. |
| `faulty_up` | `LinkAgreement`, `ResetInFlight` and `DiscardsOnlyOldFrames` with failing sends, frames lost on the way up, late answers, every combination of NULL callbacks, and an application that connects, disconnects, restarts and writes when it likes. | Two frames in flight in each direction: enough for an old I-frame or SNRM and a new one. Numbers run through all eight values. |
| `faulty_down` | `LinkAgreement` with answers lost, late, garbled, split, coalesced or not read; every call returns (`CallsReturn`). | As above; the meter always sends an RR, so both waits occur, and writes the result of an association under its context tag. |
| `stream` | `Reassembled`, `Resynchronised`, `InStep`, and that the buffer keeps to its capacity. | Three real frames (with an escaped FCS byte, with no escape, with 7E 7D 5E as information), one longer than the buffer of 12 bytes; two damaged bytes in a behaviour, anywhere, dropped, added or turned into a flag, an escape, an escaped flag or a plain byte; resets anywhere. Frames repeat, so damage meets every neighbour. |
| `frame` | `RoundTrip`, `ParamsSurvive`, `CrcIncremental`, `BitErrorsRejected`. | Every builder, all sequence numbers, three server addresses (one and two bytes, one escaped, with a physical part), three information fields, up to three parameter settings of two types (narrow and wide); each bit of each frame flipped. |
| `association` | `AarqUnderstood`, `AareUnderstood`, `SegmentRejected`, `AbstractionAgrees`. | Password lengths on both sides of every limit (short BER form, frame size, request buffer), of plain, escape and flag bytes; AAREs with every combination of form, result, diagnostics, AE, user information, authentication value, title and PDU size; twelve segment lengths. Every answer is tried on one request: the decoder does not see the request. |
| `axdr` | `ReadBack`, `CutNoticed`, and that nothing is written beyond the buffer. | Lists of up to three values, and of three nodes with nested arrays: a type of every width, strings of 127, 128, 255 and 256 bytes in a buffer of 300, so that a long string fits alone or with a neighbour only; bytes that look like tags and lengths; up to 262 bytes cut off. |
| `compact_array` | Finding: compact arrays are not read back. | One compact array or one value. |
| `stream_delivery` | Finding: the parser never delivers a frame. | No damage, a buffer that holds every frame. |
| `cosem` | `ImplementsDirectory`, `LookupStable`, `ReadsKept`, `ReadYourWrites`, types. | An object of each of the sixteen classes beside one of class data, two names (symmetric: they are only compared), a list of two entries, so that it fills with a duplicate or with both; one buffer, two contents; two changes of values beside a `security_setup`, whose values refer to its own memory and the neighbour's to a buffer, none for eight classes that are like `demand` but for the number of their attributes, one for the others. |
| `security` | `TextRecovered`, `TagBinds`, `EndsAgree`, `ContentsReachReceiver`, `FreshKeystream`, types. | Words of two bits and four rounds, with tables that mix them; two messages with one of two counters each, the same twice too, and two key derivations in any order; suites 0, 2, 3, 5 and 18, one for each way the key lengths and the control byte treat a suite; texts of no, whole and broken blocks; equal installed keys with equal or different memory behind them. |
| `gcm_decrypt` | Finding: `dlms_security_decrypt` refuses genuine messages. | As `security`. |

`frame`, `association` and the two A-XDR runs stop when the exchange is over, and are run without the deadlock check.
All session, stream, COSEM and security runs check for deadlock: no reachable state is without a step, since an idle application may
always call.

Bounds that stand in guards are `MaxWire` (frames in flight; a send or an answer waits for room),
`MaxDamage`, `MaxSettings`, `MaxNodes`, `Answered`, `MaxWrites`, `MaxSent` and `MaxDerived`. `MaxWire` removes behaviours with longer queues from the
runs; the theorems below hold for every `MaxWire`.

Each property of a passing run is paired with a mutant: a defect operator beside the
definition it would replace (`NumberReused`, `RrEndsCall`, `StoreOffByOne`, `FirstKey`, `SameOrder`, ...), with
which TLC finds the property violated.

### Fairness

`FairSpec` is used for the two liveness properties. It assumes weak fairness of three things: that the client continues from
a wait (`ConnectReturns`; the waiting part of `Exchange`), because `recv_fn` takes a timeout and
returns when it expires; and that the meter answers what has arrived. Nothing is assumed about
the application or about losses. `CallsReturn` holds with all receiving faults;
`AgreedLinkAnswers` needs the perfect line, and fails with losses, as it should.

## 4. What is proved

TLAPS checks these for every value of the constants that satisfies the named assumptions
(`WireAssumption`, `MeterAssumption`, `ClientAssumption`; `StreamAssumption`; `CosemAssumption`; `Sm4Assumption`,
`GcmAssumption`, `SecurityAssumption`; `AxdrAssumption`; `FrameAssumption`; `AssociationAssumption`, `AareAssumption`). They say that
the constants have the types of the code's fields and that no set something is chosen from is empty. For A-XDR
`dlms_value_t` says which nodes the C struct can hold: the width of the type, lengths and counts of 16 bits. For frames
`Addresses` has 14 bits for each half of an address, which is what its encoding has room for. The AAREs of a meter have
titles of at most eight bytes, the size of `server_system_title`, and at most 65535 bytes as a whole (`AareAssumption`): two
bytes of BER length, far more than a frame holds. Texts have short last blocks only, and fewer blocks than a word has values, so
that a counter does not wrap within one text.

The prover has no induction over data, but the library's theorem about well-founded relations can be cited with a set for
the property. `HdlcCodecProofs` draws from it, and `AxdrProofs` and `SecurityProofs` as far as they need it, what inductions over numbers use: a set of numbers that has 0 and with each number the next has
them all (`AllNumbers`), and a step function has a way from any state (`Recursion`). With these, a recursive function of the model
(`Run`, the CRC table, `FlattenSeq`, the loop of the parameter decoder) is shown to be the function its equation describes.

In `DlmsSessionProofs`, for every subset of faults and calls, and any queue length:

* `TypeCorrect`: `TypeOK`. Inductive by itself; lemmas type what `send_fn`, `recv_fn` and a reply
  do to the queues.
* `LinkAgreed`: `LinkAgreement`. The inductive invariant is `LinkInv`, which adds `ResetInFlight`:
  when the UA arrives, that the numbers agree follows only if what is in flight is known, and
  the SNRM may still be there, with the UA of an earlier one having been received in its place. The predicate `Aligned` says which
  numbers the meter will expect; its lemmas say what appending an I-frame, an SNRM, and
  removing the head do to it, modulo eight.
* `ResetPending`: `ResetInFlight`, from the same invariant.
* `OldFramesDiscarded`: the action property `DiscardsOnlyOldFrames`.

In the same module, under the hypothesis `PerfectLine`, which each theorem states: no faults, an
application that does not disconnect or send requests it does not wait for, and callbacks that can receive if they can send.
Requests, UA parameters, the meter's choices (RR or not, accept or refuse, the form of its AARE, user information), the length
of the queues and the other calls are as free as before.

* `PerfectQuiet`, `PerfectAnswers`: `QuietBetweenCalls` and `AnswerMatches` of the `reliable` run. Neither
  is inductive. The invariant `PerfectInv` adds `Flight`: for each place where a call waits, all that the two queues
  may hold. It has few cases because the application waits: nothing, the one request, or its answer, with or
  without an RR before it. A request the meter discards as out of sequence leaves nothing, and the call times out.
* `PerfectSession`: the session implements `RpcSession`. Each step of the client or the meter is mapped to
  one step of the service: a call that sends is `Issue`, the meter's answer `Execute`, the frame that ends a call
  `Complete`, a timeout `Fail`, a call without the line `Local`; an RR and a discarded frame are stuttering. `Flight` is
  what shows that a call that times out was not executed.

In `HdlcStreamProofs`, for every set of frames, every buffer capacity and any amount of
damage:

* `StreamTypeCorrect`, `StreamInStep`, `StreamReassembles`, `StreamResynchronises`: the four
  properties of the run. The inductive invariant `StreamInv` conjoins them with what is true of the sender at each phase: without
  `InStep`, that the frame is handed over whole cannot be carried through its bytes, and without
  `Resynchronised` the first flag of the next frame finds the parser anywhere.

In `CosemProofs`, for every number of slots, names, buffers and entries of the list:

* `CosemTypeCorrect`: `TypeOK`, inductive with the lemma that the defaults of every class are values of its attributes.
* `CosemLookupStable` and `CosemImplementsDirectory`: what a look-up finds is the first entry that matches, and
  an object that is added comes last, so that a look-up that found something finds the same. Both rest on the existence of a first matching entry,
  for lists of any length.
* `CosemReadsKept`: `ReadsKept`. The invariant `Keeping` says where the value in `held` lies: nowhere outside itself, in the
  application's buffer or in a key of an object, which is what `kept` remembers; then no step that leaves this memory alone
  changes what it denotes. The attributes of a local array are excepted, as in the property.
* `CosemReadYourWrites`: with the invariant `Watching`, which says that the watched write is still in the attribute or is no
  longer watched; the hard case is a value that refers to a buffer or another object's key which is changed later.

In `SecurityProofs`, for every S-box, table, word size, number of rounds, suite, text and key:

* `Sm4Inverts`: decrypting undoes encrypting. Rounds are an induction over their number, from the
  well-foundedness of the order of the natural numbers.
* `SecurityTypeCorrect`: `TypeOK`; the case to look at is a derived key, which must fit its array.
* `SecurityTextRecovered`, `SecurityContentsReach`: lemmas for the modes (ECB, CBC with its chain, CTR and the GCM
  counter with partial blocks) say that each takes back what it did; an invariant connects `result` with the message and the keys of the call.
* `SecurityFreshKeystream`: the counter blocks of one message all differ, and two messages have one in common only if both their titles and
  their counters are equal. Two blocks that are equal have the same sender, whose title is in the block, the same counter and the same
  place in the text, since a text has fewer blocks than a word has values: counters stay below 2^Width, where words with equal bits
  are equal. It does not say that applications use different counters; those of the repository do not.
* `SecurityTagBinds`: a GMAC is found right exactly when keys, counter and data are those it was made from. What GHASH is given is laid out word
  by word: equal inputs have equal additional data. That GHASH of different inputs differs is the ideal tag of `Gcm`.
* `SecurityEndsAgree`: what two ends derived for one title and suite is equal in the words that each use of the key reads; suite 3 is
  where it reads more.

In `AxdrProofs`, for every set of values, lists of any length and nesting, any buffer and any number of bytes cut off:

* `NodeDecoded`: a node is read back from bytes that begin with its own, whatever follows them, and is refused when a byte of
  it is missing. By cases on the type, from lemmas for the three forms of a length (`LengthDecoded`), strings, and the datetime,
  whose day of the week is written and skipped.
* `ListsReadBack` (`ReadBack`) and `CutsNoticed` (`CutNoticed`). The properties relate what is read to what was written; that they hold through a
  step needs to know where each node begins. The invariant `IInv` says that there are functions `at`, the byte a node ends with, and
  `left`, the nodes still to come after it, with the bytes of node `i` at `at[i - 1]` as far as the buffer has them
  (`Layout`), and that the decoder's `pos` and `due` are `at` and `left` at the number of nodes read (`Progress`). No count is zero before the last
  node, so that the decoder ends where the encoder did; and a cut list lacks at least the last byte of its last node.

* `AxdrTypeCorrect`: `TypeOK`, for whatever the decoder is given. `AxdrInv` adds that a call which has not ended has nodes to come. The bytes of a
  compact array, which are flattened, are typed by induction.

In `HdlcFrameProofs`, for every set of addresses, information fields and parameters, and every buffer, from the lemmas about
`HdlcCodec` in `HdlcCodecProofs`:

* `ChecksumsContinue` (`CrcIncremental`): from `CrcPiecewise`, for all byte sequences. `RunJoined` says that a run over two pieces is
  the one over both; `Finalized`, that reversing and inverting the bits of both bytes undoes itself. Reversal is reduced to bits (`BitsExist`,
  `BitsRead`) instead of being tried on each of the 256 bytes.
* `FramesUnderstood` (`RoundTrip`), under `Expressible`. The source address is compared too, with what the decoder makes of it
  (`ServerRead`: the seven-bit groups of each half exchanged). `Unstuffed` says that unstuffing undoes stuffing, for all bytes: the state after a stuffed byte is the one before with the byte
  appended, and no escape is pending. `RawLaidOut` says where each part of a frame stands, for each combination of address length and
  header check; `FrameDecoded` follows the decoder through them.
* `ParametersAgree` (`ParamsSurvive`), under `Expressible`: a list in which each type occurs once is encoded entry by entry (`Flattened`,
  `FlatWithin`), each round of the decoder takes up one (`ReadNext`), and `dlms_hdlc_param_list_set` keeps the types distinct (`SetKeeps`). It is stated as
  `BitErrorsRejected => ParamsSurvive`: parameters from a damaged frame that was taken for a good one may be anything.

The invariant `FrameInv` says that what is sent was made by a builder from the current parameters, that undamaged it is on the line as it was
encoded, and that what was received was decoded from that.

`Expressible` is needed because the code has limits that its encoder does not test. Of an address whose half has bit 6 set, 64 to 127 among them, the first byte is odd, and the
decoder ends the address there. A frame of 257 or 258 bytes before stuffing is built (its FCS is not counted) and is refused on
reception; it takes an information field of more than 244 bytes and a buffer of at least 516.

In `DlmsAssociationProofs`, for every set of requests, answers and segment lengths:

* `RequestsUnderstood` (`AarqUnderstood`). `AarqRoundTrip` says that `dlms_aarq_decode` undoes `dlms_aarq_encode`, for every request that
  encodes into the frame buffer; `Delivered`, that a frame that `dlms_hdlc_build_info` has built carries its information
  to the other end (from `FrameDecoded` of `HdlcCodecProofs`). The password may have any bytes; that no length but those the buffers
  hold occurs is shown from the return codes, not assumed.
* `AnswersUnderstood` (`AareUnderstood`) and `ClientAbstracts` (`AbstractionAgrees`), from `AareRoundTrip`: what `dlms_aare_decode` makes of a whole
  AARE in each form of its result. In the form the decoder expects, it reaches the user information behind whatever
  optional elements there are; in the two others the byte it stops at is none it looks for, and the fields stay zero.
* `SegmentsRejected` (`SegmentRejected`): in `SegmentRefused`, of a segment either the header is cut off or the length in it is
  that of the whole.

The lemmas name what the proofs need to know of a sequence and hide the rest: `Sized` (bytes, and how many), `Glued` (put together from
two, and where each part is found again), `Element` (a BER element and what stands behind it), `Left` (what a reader has not read
yet). `TagRead` is the one lemma about a BER length, for a sequence that may end inside it. The rounds of `UserFields` are
followed by `LastRound`: a state that a round leaves as it is, reached in time, is the result. The invariant `IInv` says that until
the meter has it the frame in flight carries the AARQ of `request`, that `seen` is what this AARQ is decoded to, and that then the frame
carries the first bytes of an answer, and `aare` and `returned` are what these are decoded to. That `dlms_associate` does not
take an AARE twice needs the decoder to fail on segments: `returned` is then no longer `"none"`.

`AnswersUnderstood` and `ClientAbstracts` have the hypothesis `Expressible`: authentication values of at most 127 bytes. The decoder takes
one byte for their length (`dlms_asn1.c:407`), where BER has two above that; with more, it would take the 81 of the long form for the
length. A challenge has at most 64 bytes in this library (`dlms_client.h:76`). `RequestsUnderstood` needs no such limit, since
the encoder of this library writes the one byte that its decoder reads.

Only model-checked:

* the liveness properties, which are out of the prover's reach;
* `BitErrorsRejected`. It is not an invariant of every instance. A bit flipped in an escape changes the length of what is unstuffed, and the
  length field may be what was changed: where its byte 126 is sent as 7D 5E and the 7D becomes 7F, the field reads 127, the frame has gained a byte, and
  only the checksum stands against it. What a checksum of 16 bits misses then is a question of values, not of the structure of the code.

## 5. Findings

1. **The streaming parser** (`stream_delivery`, `dlms_hdlc.c:512`) hands `frame_decode` a buffer without
   flags and a length two bytes too long. No frame is ever delivered.
2. **Compact arrays** (`compact_array`, `dlms_axdr.c:536`). The encoder writes no total length, the decoder reads one.
3. **Decryption with GCM** (`gcm_decrypt`, `dlms_security.c:333`). To verify the tag, `dlms_sm4_gcm_decrypt` encrypts the
   cipher text and compares the tag of what comes out. A genuine tag is never found right for a text that is not empty, and
   the call returns `DLMS_ERROR`; the plain text is in the caller's buffer all the same (`ContentsReachReceiver`). The AES
   variant does the same. `test_security.c:208` makes the call and does not look at the result.

Met while modelling and not the subject of a run:

*The result of an AARE.* The decoder stores the byte after tag 02 (`dlms_asn1.c:373`), which in a BER integer is the length. The only
AARE of the repository (`test_asn1.c:114`: `02 01 00`, "result: accepted") is decoded to the result 1, for which `dlms_associate`
returns `DLMS_ERROR` (`dlms_client.c:167`): an association that the meter has opened is reported as refused. A result under its
context tag (A2) is not found and passes for accepted, refused or not. `AareResult` has the three forms, and the session runs let the
meter use them; no property says that an association is what the meter decided, because for two of the three it is not.

*Server addresses.* The encoder writes the low seven bits of each half last (`dlms_hdlc.c:121`), the decoder reads them as the high
ones (`dlms_hdlc.c:151`): address 1 comes back as 128. `test_hdlc.c:89` decodes the bytes of address 1 and does not look at the
address. `RoundTrip` says what does come back. Addresses 64 to 127 have an odd first byte, at which the decoder ends them.

*Logical names.* Every `get_attr` returns the logical name, and clock its third attribute, as a pointer to a local array of its own
(`dlms_cosem.c:17`), so that the caller reads whatever the stack holds by then. `test_cosem.c:14` looks at type and length only.

*Client and frames.* `dlms_read` (`dlms_client.c:206`) has no response buffer, receives nothing, never writes `*result` and returns
`DLMS_OK`; the answer stays for the next call. After a timeout, the next call receives the late answer as its own;
`recv_seq` counts an RR and the answer behind it, and does not count an AARE;
`dlms_associate` leaves the client in ASSOCIATING after every failure; `dlms_hdlc_connect` leaves it in
HDLC_CONNECTING when it succeeds; `dlms_hls_authenticate` makes it READY without an exchange;
an AARQ with a password of 109 bytes or more does not fit a frame and is refused with the state already changed;
the information limit of `frame_encode` ignores the two FCS bytes (`dlms_hdlc.c:457`); `MAX_INFO_LEN` is
not enforced; the parser's instance is static, so that a second parser is the first one;
a compact array value without contents is written as its tag alone and cannot be read back; BCD values
are decoded and not encoded.

*Security.* The example encrypts and authenticates with the same invocation counter (`meter_simulation.c:136`, `146`), and so
does `test_security.c:205-221`: nothing in the library or its documents asks for another, and `FreshKeystream` promises nothing for
such messages. Suite 3 authenticates with 32 bytes of key where 16
are derived (`dlms_security.c:554`). Suites of 16 and more are another suite in the control byte than in the tests on `suite`. CBC
decryption in place loses every block but the first (`dlms_security.c:170`). The GHASH input is collected in 1024
bytes without a check (`dlms_security.c:285`). AES-GCM masks with SM4 rounds, so that it is not AES-GCM to another
implementation, though both ends of this library agree.

*COSEM.* An object that is created again while it is registered stays in the list under its new name, without its attributes; the
directory allows it. A value that was read changes with the key or the buffer it refers to. `profile_generic` without a buffer
answers `DLMS_OK` and leaves the caller's value as it was. The classes without `set_attr` and
`action` have NULL there, which a caller must test. `dlms_obis_from_string` leaves the parts it has read when
it fails.

## 6. Not modelled

* `dlms_axdr_encode_tag` and `dlms_axdr_decode_tag`: a table look-up that no other part calls.
* `dlms_client_set_addresses`, keys and challenges of `dlms_client_t`: no call tests them.
* What the S-boxes, the AES rounds and the multiplication in GF(2^128) compute: pure functions of large words, which the
  tests check with vectors. They are parameters or ideal in `Sm4` and `Gcm`. Likewise the bytes a word is made of.
* `dlms_aes_key_wrap` and `dlms_aes_key_unwrap`, which only return `DLMS_ERROR_NOT_SUPPORTED`.
* Security contexts inside the client: `dlms_client_t` has the fields, and no call uses them.
* `dlms_core.c` but for what other parts use (bit reversal, OBIS comparison, value setters): byte buffers, variable-length integers, dates and OBIS
  strings have no callers in the library.
* Contents of data APDUs in the session: opaque to the client.
* Tests and `examples/meter_simulation.c`: read for what they say of the code; they keep no state of the system.
* Two threads calling one client: the library has no locks and promises nothing.

## 7. Plan

Done: session, streaming parser, frames, association APDUs, A-XDR, COSEM classes and list, security; the invariants and the
refinements of session, parser, COSEM and security, the round trips of A-XDR, the frames and the association, proved. Next, in order
of weight:

1. A lemma on the checksum: two sequences of one length that differ in one byte have different checksums, which is `BitErrorsRejected` for bits
   outside flags and escapes.
2. `Core`: OBIS parse and format, variable-length integers.
