# TLA+ verification of open-opticon ("Honest Ear")

open-opticon is a microphone that proves what it does with sound. A detector in
an OP-TEE trusted application signs a small predicate; verifiers check it; the
keys of devices are endorsed in a transparency log; independent witnesses cosign
the log's checkpoints and warn each other when the operator shows different
histories to different people; a watcher on the enclosure erases the key when it
is opened. This directory holds TLA+ models of the parts of the program where
order, failure and concurrency matter, the TLC runs that check them, and TLAPS
proofs of the main safety properties.

`PROJECT.json` maps every definition to the lines it models and lists the runs,
the mutants that show each property can fail, the hazards and the theorems.

## 1. Inventory

| Component | State it keeps | Operations | What is hard | What makes it correct |
|---|---|---|---|---|
| Merkle log (`transparency.go`) | leaves | Add, inclusion and consistency proofs, two verification loops | powers of two, empty trees, malformed proofs | exactly the true inclusions and extensions can be proved |
| Log operator (`he-log`, `he-logd`) | the log file | add; GET /checkpoint, /consistency; prove, verify, cosign-verify | the file changes between two requests; adds that overlap or die in a write | an entry a witness holds is lost only if adds overlapped |
| Witness (`he-witness check`, `serve`) | state file, view in memory, latest cosignature | poll, accept, save, publish | two-request polls, torn writes, failing writes and signers, restarts, a command beside the daemon | one history per witness; saved before published; catches up |
| Witness mesh (`he-witness serve --peer`) | alarm, one flooded proof, forensic set | checkPeers, push, intake, pull, /health | snapshots used after the lock is released, lost pushes, cycles, restarts | proofs verify and convict, the alarm latches and spreads, floods end |
| One-shot readers (`he-witness compare`, `verify-equivocation`, `fetch-proof`; `he-consent verify-disclosure`) | none | compare two roots, check a proof | what they are handed is older than the log | what is shown was logged and stays; a fork never passes |
| `CheckpointAnchor.sol` | latest size and root | anchor | arbitrary callers and roots | the anchored history does not fork |
| `he-challenge` | sessions with nonce, counter, verdict, proof | challenge, attest, simulate, status, gc | verification outside the lock, collection in the middle of it, a full map | no counter passes twice; status is consistent; floods subside |
| Payload and envelope (`he_payload.c`, `bound.go`, `cose*.go`), gates 0 to 4 | none | encode, decode, verify | longer forms, repeated keys, skipped headers | one encoding per predicate; the envelope binds it; the chain reads what Go reads |
| Quorum and co-attestation (`quorum.go`) | none | count votes in a set of files | repeated names, keys and files, any order | k votes are k keys; the order does not matter |
| Receipts (`receipt.go`, `he-receipt`) | the last digest, per user | emit, verify | overlapping emits, any digest as `--prev`, lost and reordered receipts | a session continued as it is meant to be has no gap; a fork is signed |
| Threshold reveal (`threshold.go`, `he-consent`) | sealed.json and share files | seal, reveal, disclose | several files written one by one | any k shares open, fewer tell nothing |
| `HonestEarVerifier.sol`, `HonestEarQuorum.sol` | last counter | recordVerdict | a payload parser of their own, late bundles | the counter only grows, and a fresh bundle passes |
| Trusted application, PTA, host (`he_audio_ta.c`) | persistent counter, tamper marker | ATTEST_AUDIO, TRIP_TAMPER | overlapping calls, power cuts, failing storage, short buffers | a counter is signed once; tripped means silent |
| Tamper watcher (`he_tamper.c`) | key file, flag file, queued edges | watch, erase, flag, hook | signals, restarts, power cuts and file errors in the middle of a response; what was not synced | a breach is answered as a whole or reported, as far as what the code notices and syncs goes |
| Detector, simulator, GUI, zk | none | pure functions | - | tests and fuzzing of the repository |

Interactions: a witness polls `he-logd` over HTTP with two requests; `he-logd`
reads the file that `he-log add` rewrites; daemons poll each other's
`/cosignature` and `/equivocation-proof` and POST to `/equivocation-intake`; each
daemon serialises its own state by one mutex which `once()` holds for a whole
poll and `checkPeers` only to read the view and to write the results; a `check`
may share a daemon's state file; the challenge server has one mutex that it
releases while a bundle is verified; the watcher trips the trusted application
through a command it runs; bundles of the trusted application reach the contract
at any time and in any order.

## 2. Modules

| Module | Models | Built on |
|---|---|---|
| `TreeHeads` | tree heads as the leaves they commit to; what a consistency proof of one tree says about two others | |
| `Witness` | one or more logs, witnesses, their files and processes | `TreeHeads` |
| `AppendOnlyCosigner` | the promise of a witness (abstract) | `TreeHeads` |
| `LogFile` | the file of an honest log under concurrent `he-log add`, and a `check` beside a daemon, composed with `Witness` | `Witness` |
| `WitnessMesh` | the daemons' cross-checks, alarm and gossip, composed with `Witness` | `Witness` |
| `ProofFlood` | how a proof travels (abstract) | |
| `MerkleTree`, `MerkleLog` | the algorithms of `transparency.go`, and logs that grow | `TreeHeads` |
| `RelyingParty` | prove and verify, disclosure, compare | `MerkleLog` |
| `CheckpointAnchor` | the contract | `MerkleTree` |
| `Challenge` | `he-challenge` | |
| `BundleReader` | the encoder and the three readers of a bundle | |
| `ProverQuorum` | the gates on a bundle, k of n provers, k modalities, witness cosignatures | |
| `Consent` | Shamir sharing and the files of `seal` and `reveal` | |
| `ReceiptChain` | `he-receipt emit` and `verify` | |
| `Attester` | the trusted application, its secure storage, the contract's counter | |
| `TamperWatch` | the watcher, composed with `Attester` | `Attester` |
| `Witness_proofs`, `WitnessMesh_proofs`, `LogFile_proofs`, `ProofFlood_proofs`, `Challenge_proofs`, `TamperWatch_proofs`, `MerkleTree_proofs` | theorems | the module of that name |
| `Offline_proofs` | theorems about the log's readers, the anchor, the quorum, the threshold reveal, the readers of bundles and the receipts | `RelyingParty`, `CheckpointAnchor`, `ProverQuorum`, `Consent`, `BundleReader`, `ReceiptChain`, `MerkleTree_proofs` |
| `MC*` | instances for TLC | |

**TreeHeads.** A checkpoint (size, root) is the sequence of leaves it commits to.
Hashes are collision free, so a root is that sequence; equal size and root mean
equal sequences. `ProofVerifies(old, new, served)` says when the proof computed
from the tree `served` passes `VerifyConsistency` for `old` and `new`. This is
not simply "new extends old": the log may have changed after it signed `new`. The
exact condition is checked against the real loops (`ProofVerifiesIsTheCheck`), and
proved to be theirs for trees of every size (`CheckIsExact`).

**Witness.** `pc` is the position in a poll: `tick` (about to GET /checkpoint),
`proof` (waiting for /consistency), `save` (cosigned, writing the file),
`polled`, `down`. The switch of `poll` is one action per case (`PollFirstSight`,
`PollUnchanged`, `PollRefused`, `PollAhead`, `PollExtension`,
`PollInconsistent`); everything that ends a poll with an error, or with a
checkpoint that does not verify, is `PollError`. `Accept` is `advance` and
`accept`; `CosignError` keeps the advanced view, as the code does. `Save` writes
the file and then publishes; `SaveError` fails before or after the truncation:
`runCheck` dies without printing, `once()` serves the cosignature. `Crash` during
a save leaves the old, a torn or the new file; a torn file keeps `Start` from
starting. `OneShot`, `Stateless`, `FlakyDisk` and `FlakySigner` choose the kind of
each witness. `View` and `ViewOf` let the operator show different files to
different witnesses, `Tampering` lets him rewind them. Signatures are
unforgeable; a cosignature exists from the moment it can be fetched or read.

**LogFile.** `he-log add` reads the whole file (`AddLoad`), truncates it
(`AddTruncate`) and writes its copy (`AddWrite`), and may die between
(`AddCrash`). A file that was truncated, or that holds the end of a longer text,
does not parse (`torn`; `log` is the last content that did); `he-logd` answers 500
for it and for a file that is not there (`Served`), `add` stops at one that does not
parse. A copy written over a longer one that was written meanwhile leaves the end of
that one. `Check*` is `he-witness check` run with the key and the state file of a
running daemon: `loadState` once, then both requests, then `saveState` over whatever
is there. `overlapped` remembers that two adds were under way at once. Entries are
taken to be of equal length.

**WitnessMesh.** After a poll a daemon snapshots its view (`SnapshotView`), asks
each peer (`PeerUnreachable`, `JudgePeer`, `PeerAhead` followed by
`JudgeExtension` or `ExtensionUnknown`) and commits (`CommitCheck`): only the first
and the last step hold the mutex, the intake may run in between. A peer answers
when its server is up and it is not in the middle of a poll. `PullPeerProofs` and
`Deliver` share `Adopt` (tryAdopt). `PushLost` loses any push, `PostedByAnyone` is
a third party who holds genuine cosignatures. Peers are asked in any order; the
code uses the order of the flags. A crash forgets everything but the file.

**Challenge.** A request goes `found` (session looked up, body read), `verify`
(counter read under the lock), and then records and answers. `handleChallenge`
collects old sessions and mints one unless the map is full. The history variable
`passes` counts the answers PASS per session and counter.

**MerkleTree, MerkleLog, RelyingParty, CheckpointAnchor.** The recursive
functions (`mth`, `path`, `subproof`) are recursive functions on lists of leaves, with
SHA-256 as a free constructor. The two verification loops are one: `Strip` is the inner
loop on the bits of the two numbers, `Up` one turn of the outer one, `Climb` where it is
after i hashes; `VerifyInclusion` starts it at the leaf, `VerifyConsistency` (`Ascend`) at
the old root or the first hash. A loop that meets a hash too many has sn = -1 for good.
`Proofs` is every sequence of hashes a prover could use, one longer than any good proof. A
reader is a pure function of what it was handed; what the properties quantify
over is what a log can have handed out, at any earlier length, and the trees it
has when it is asked.

**BundleReader.** A message is a sequence of CBOR items (major type, argument, the
bytes its head gives the argument, and the contents of a string). `Byte`, `Short` and
`Word` are 2^8, 2^16 and 2^32; `Width` is the form the encoder chooses, `Least` what
`readHead` asks of each form. The writers produce a message, `Edited` changes it as a faulty encoder or a damaged file would, and the
three readers follow their code item by item: a reader is a position and what it has
read so far, `readPair` and `readDeviceField` are one turn of the two loops over the map,
`pairs` and `fields` those loops after n turns. `skipValue` gives for each position the one
after the item there, level by level of nesting. A signature stands for what it was
made over.

**ProverQuorum.** A bundle is what the gates look at. `passed` is what the
loop of `quorumCore` has after i files, `modalities` the same for `coAttestCore`, with a pinned key or without; the command, which stops on a file that does
not parse, and the library, which skips it, are both there.

**Consent.** `ThresholdSeal` computes everything, `WriteFile` writes `sealed.json`
and then each share, `CrashSeal` stops anywhere, also after a truncation, other
seals may work in the same directory. `Reveal` reads what is there. The history
variables `disturbed` and `whole` say when a directory is the work of one
undisturbed seal. The field is Z modulo a small prime; shares are computed by the
Horner loop of the code (`Polynomial`) and combined by `Lagrange` and `SumUp`.

**ReceiptChain.** A digest is the sequence of the receipt's fields, the digest of
the one before among them. As in the code `--session`, `--batch` and `--prev` are
the caller's: `StartEmit` takes any digest that was ever printed, those of other sessions
included, or the genesis one, and `FinishEmit` signs with any batch number. `tip` is the
digest printed last in a session, and `lapses` records the sessions that were not continued
as they are meant to be: emits overlapped, or `--prev` was not `tip`.

**Attester.** A call goes through `enter` (the one look at the tamper marker, the
detector), `open`, `write`, `sign`, `emit`. The counter object is opened without
share flags: a second call fails in `GiveUp`. `GiveUp` is every error return, the
short output buffer included, which leaves a consumed counter. `AttesterOff` is a
power cut. `RecordVerdict` is the contract, to which any bundle ever emitted may
come at any time. Secure storage is external: atomic and without rollback.

**TamperWatch.** `events` is the kernel's queue of edges; the watcher starts with
the flag (`HonourFlag`), then the level (`ReadLevel`), then waits for edges
(`ReadEvent`). A breach goes through `Overwrite`, `Unlink`, `WriteFlag` with signals
blocked (`Masked`), then `Hook`, which may trip the trusted application or never return. Errors of
each file operation are branches, the ones the code does not see too: `content` is what
is on disk, the key still ("missed") if the overwrite failed unnoticed. `secure_erase` syncs
the bytes it writes and nothing else; `volatile` says which of the unlink and the flag file
are not on disk yet, and `PowerCut` undoes any of them. In the model what was not synced stays
so until the next power cut, which may undo it or not: however late the system writes back.

## 3. Runs

| Run | Bounds | Checks |
|---|---|---|
| `witness` | a daemon and a command, one log that is appended to, rewound and forked up to size 2, two leaves, two crashes, both signers and the command's disk may fail | `CosignaturesConsistent`, `PublishedIsSaved`, `ImplementsCosigner` |
| `log_file` | two adds at a time on one file, one crash of a daemon whose disk may fail; a log up to size 4 without a check, up to size 2 with one beside the daemon | `LossMeansOverlap`, `DaemonCatchesUp` |
| `mesh` | two daemons, two views, size 1, one crash | `EvidenceVerifies`, `EvidenceConvicts`, `ForensicSet`, `AlarmLatches`, `ImplementsFlood` |
| `mesh_split` | two daemons, two logs that stay apart, one crash | `SplitDetected` |
| `challenge_flood` | the challenge server: two requests, two session ids, a map of one, two counters; the flood: four nodes with a cycle and one that does not pin all the others, two proofs, one restart | `LiveSessionNeverReplays`, `StatusConsistent`, `ServerSubsides`; `OnlyPinnedWitnessesConvince`, `FloodEnds`, `AlarmSpreads` |
| `device` | two calls that may overlap beside a watcher that only simulates breaches; or one call at a time, without a key file, or no call, beside a watcher that does all it can; counter up to 2, two power cuts that undo any part of what was not synced | `CounterSignedOnce`, `FreshAfterRecord`, `TrippedNeverSigns`, `BreachIsAtomic`, `BreachIsAnswered`, and no deadlock |
| `offline` | see below | the properties of the parts that work on files alone |

`challenge_flood` is one instance of two modules that share nothing, of which one or the other
moves (`MCChallenge`); a bundle that is not authentic is rejected whatever it says, so the
instance has one of them per session. `offline` is one instance of six parts that share
nothing: a behaviour is a behaviour of one of them while the others stand still (`MCOffline`), so parts may
use the same model values.

| Part | Bounds | Checks |
|---|---|---|
| log and its readers | two logs and any old tree, up to 5 leaves over two values (3 for what is claimed and disclosed), every proof | `InclusionExact`, `ConsistencyExact`, `ProofVerifiesIsTheCheck`, `DisclosedIsLogged`, `ShownStays`, `ForkNeverPasses` |
| anchor | sizes and trees up to 4, the root of any tree for any size | `LedgerIsAppendOnly` |
| reader | any two edits of a payload or of an envelope; the forms of a head begin at 24, 66, 68 and 70 | `OneEncoding`, `ChainReadsTheSame`, `EnvelopeBinds`, `SkipsOneItem` |
| quorum | up to 3 enrolments over two names and three keys, up to 3 bundles, good or with one flaw, in any order | `QuorumIsDistinctKeys`, `QuorumOrderFree`, `CoAttestIsDistinctInputs` |
| consent | the field Z/5, every polynomial, up to 3 shares, two seals that overlap, follow each other and crash | `AnyKReveal`, `FewerTellNothing` |
| receipt | two sessions, two batch numbers, two emits at a time, two followers, three receipts | `ChainIsOneSession`, `ForkIsSigned` |

Why the bounds are enough to meet the hard cases. `witness`: size 2 over two
leaves has an extension, a same-size fork, a rewind and a fork ahead; two crashes
allow one in the middle of a save and one after the restart. `log_file`: only
lengths matter to the order of adds and polls, so one leaf value is enough there
(the proof has any); size 4 lets the log move on between the two requests of a
poll more than once, an older copy overwrite a longer file and a longer one
overwrite a shorter. Five leaves include complete and incomplete subtrees at three
levels. `challenge_flood`: two ids and a map of one make collection, reuse and a full map
happen with a request in the air. `device`: two values of the counter suffice for
two calls to meet on one, and a power cut may fall between any two steps; with two of them
one undoes the unlink and the next one meets the response to the restart. Two
edits can repeat a key and fix the count of the map. The forms of a head are compared
only with each other and with the lengths 16, 32 and 64, so their bounds may lie close
together: an edit puts an argument at each edge, one below it, and a short one into
each longer form (the theorems have 2^8, 2^16 and 2^32, and any others). Three bundles over three
keys allow a doubly enrolled key, a contradiction and a third voter. With three
receipts a session has a fork and a receipt behind one of its branches, or a receipt
that joins it to another session.

Deadlock is checked in `device`. In the other runs it is not: logs, counters and
receipts reach their bounds, and a witness with a corrupt file stays down by design.

**Symmetry** is used for leaves, log objects, keys, session ids and requests, in
runs without liveness only, and none of them is named in a specification.

**Fairness.** `LogFile`: the daemon's ticker, poll and restart by a supervisor are
weakly fair; requests that `he-logd` can answer and writes that are tried again and
again do not fail every time (strong fairness of `GetCheckpoint`, `PollExtension`,
`Save`); an add that has started goes on or dies. Nothing makes anyone add entries
or run a check. `WitnessMesh`: the same loops, and a peer that is asked for ever is
not found in the middle of its own poll or unreachable every time. Pushes are
never assumed to arrive. `ProofFlood`: a POST ends (the HTTP client has a timeout
of 10 s), a node without a proof asks on every tick. `Challenge`: time passes,
handlers return, clients go on asking; nothing is assumed about attestations.
`TamperWatch`: a watcher that runs goes on, and comes to a falling edge that stays queued
(the queue is in order, the model's is a set, hence a condition of its own). Nothing is
assumed about the hook, which may hang in `system()`, and nobody is assumed to start the
watcher again after a signal or a power cut: `BreachIsAnswered` ends at the hook, or where the
watcher is stopped. It speaks of every edge that the armed watcher has queued, the second one
under `--loop` as well as the first.

Every property of a passing run has a mutant in `PROJECT.json`, a change to the
code's logic (kept next to the definition it replaces) under which the run fails.

## 4. Where the code and its documents disagree

Five runs expect a violation; each states what a comment or document says.

* `mesh_honest` (`AlarmMeansFork`): a peer ahead of us is judged with a proof to the
  log's current size, so an honest log that grows at the wrong moment latches the
  permanent alarm. `he-witness compare --log-url` asks and judges in the same way and exits 1
  ("the log equivocated") for the same log. `ForkNeverPasses` claims of `compare` only what is
  left: what it passes is an extension, what it calls equivocation at its own size is a fork, and
  ahead of it that word means no more than that the log served no proof that leads to the peer's
  checkpoint.
* `mesh_retain` (`EveryForkRetained`): a second fork that `checkPeers` finds is not
  retained, since it records only while no proof is held.
* `witness_flaky` (`EveryStatefulWitnessConsistent`): a daemon that cannot write its
  file still serves the cosignature and may cosign a fork of it after a restart.
* `challenge_gc` (`NeverReplays`): for a session collected during verification the
  counter is not compared again, and one counter passes twice.
* `device_erase` (`DeadMeansDestroyed`): `he_tamper.c:50-53` promises -1 on any failure, "so the
  caller never reports a destroyed key it did not actually destroy"; but the results of `fputc`,
  `fflush`, `fsync` and `fclose` are not looked at, so a file whose overwrite failed is
  unlinked and the device is called dead with the key still on the disk.

Other differences met while modelling, which the models follow the code in:

* `HonestEarQuorum.sol:154` says that ascending keys leave "exactly one canonical
  encoding, matching the Go reader". `_readDevice` also takes integers in longer
  forms, maps without the keys it skips (6, 8, 10) and any bytes after the eighth
  field. The property is therefore one-sided: what Go accepts the chain reads the same.
* `he_audio_ta.c:246` leaves `prev_digest` at zero, as its comment says, while
  `README.md:153` describes a hash chain of the device's stream. The counter is all
  that orders the payloads of the model's device.
* `he_tamper.c` syncs the bytes it writes over the key and nothing else. A power cut may bring the
  unlinked name back and take the flag file away, which the comments call persistent
  (`he_tamper.c:10`, `:196`); a watcher started after that arms without a word when the loop is closed.
  `PowerCut` undoes both, and no property claims that the flag survives. The scope note at
  `he_tamper.c:17` limits the erasure to what an overwrite in place can do; the model's disk
  does what it is told.
* A level that cannot be read at the start is passed over, and the trusted application is tripped
  by the hook alone, whose failure is not tried again. `BreachIsAtomic` claims what the code does
  keep: a flag or a warning unless power is cut, a response to every flag that is there at a
  start, and "dead" only for a key file that was unlinked after an overwrite which, failed
  or not, was carried out.
* A quorum counts a key enrolled under two names once, `cosign-verify` once per name;
  `QuorumIsDistinctKeys` asks there for one name per key.
* An operator who tampers, or an entry lost by overlapping adds, can make two
  processes on one state file cosign two histories; `LogFile` states what holds for an
  honest operator.
* `he-consent seal` into a directory in use, and `he-receipt emit` with an old digest, one of another
  session or a batch number given before, are not refused; the properties speak of undisturbed
  seals and of lapses.

Some preconditions in the properties come from the code as well. `EvidenceVerifies`
leaves out a signer that fails: `poll` moves the view before it signs, and a proof
assembled after a failure could pair checkpoints of different sizes. `AlarmSpreads`
speaks of nodes that pin both witnesses of a proof: others reject it and do not
pass it on, so in a sparse mesh a proof need not reach every connected node. `ChainReadsTheSame`
speaks of fields below the word size: the contract cuts longer ones off, the device has none.
`LedgerIsAppendOnly` anchors roots of trees, at any claimed size: other 32 bytes can be anchored
too, but nothing is proved to extend them.

## 5. Proofs

Every theorem holds for every value of the constants, from the assumptions named in
the modules (special values are no ordinary values; subsets are subsets; bounds are
numbers), which TLC evaluates on each run.

**`Witness_proofs`.** `TypeCorrect` proves the type invariant `TypeOK` together with what the position in a
poll says about the fetched checkpoint and the cosignature (`PollInv`).
`CosignaturesConsistent` (`OneHistory`) is not inductive. The argument is a chain:
everything published is below the state file (`PublishedIsSaved`,
`SavedBeforePublished`), the file is below the view in memory (`MemoryAhead`), a poll
moves the view only to an extension (`ProofVerifies` implies `Extends`), and a witness
with a corrupt file does not run (`CorruptIsDown`). Two heads below a common one are
comparable (`CommonExtension`). `SavedViewMovesForward` is an action property by the
same invariant. `WitnessImplementsCosigner` is the refinement: `FilesChange` lists the
only ways a file changes; each is `Remember`, `Give` or `Lose`, all other steps stutter.

**`LogFile_proofs`.** `OnlyOverlapLoses` proves `LossMeansOverlap` for any number of
adds, witnesses and checks. Beside the types (those of `Witness` and their proof are reused),
the invariant says of a file that no two adds have worked on at once that the add at
work is alone, that its copy extends the log, and that it writes over an empty file
(`AddAlone`); and that the log extends every head the processes of a witness hold, the
check beside it included (`LogAhead`). Then truncating and crashing leave the log (the last
content that parsed) alone and writing extends it, and whatever a poll or a check takes up comes
from the log or from a state file that was below it.

**`WitnessMesh_proofs`.** `MeshInv` joins the types of the mesh (`MeshTypes`), what a
daemon holds outside a save (`HeldInv`: its cosignature is out and, unless its signer fails,
is the one of its view), what a check under way has found (`CheckInvs`: the snapshot is
still the view, and the divergent half kept for the commit is a cosignature that is out,
of the snapshot's size and another tree), and that every proof held, retained or in
flight is one `VerifyEquivocation` accepts (`EvidenceSound`). `EveryProofVerifies` is part
of it. For `ProofsConvict`, `ReadInv` adds that while nobody tampers a view extends every head
its witnesses have seen, so two heads of one size with different leaves need two views that
diverged. `ForensicSetHolds` needs that the set is empty while no proof is held
(`ForensicInv`), so that the first proof always fits. `AlarmIsForGood` follows the alarm
through each step (`AlarmMoves`). `MeshImplementsFlood` maps `CommitCheck` to a daemon that
obtains a proof or becomes suspicious, `PullPeerProofs` and `Deliver` to a pull and a reception, a
crash to a restart, and everything else to a stutter (`FloodStep`). `MeshTypeCorrect` is
the type invariant, which no run repeats.

**`ProofFlood_proofs`.** `NobodyIsFooled`: the property is inductive with the type of `holds`.

**`Challenge_proofs`.** `NoReplayInLiveSessions` and `StatusIsConsistent` for any number
of sessions, requests and counters: with the types and the fact that a request past
its lookup holds a real session, the two properties are inductive together, because
the recheck under the lock makes the counter of every PASS larger than every counter
that passed in that session.

**`TamperWatch_proofs`.** For the composed device. `NoCounterTwice`, `NextBundleIsFresh` and
`TrippedDeviceIsMute` come from one invariant (`CounterInv`): a call about to write has
the object open and knows its value (`WriterIsAlone`: the exclusive open makes the
read and the write one step), nothing signed, taken or recorded is above the counter
(`NothingAhead`), two calls past the write took different numbers, not signed before
(`NumbersDiffer`), and what a call noted at its start still holds (`NotedHolds`: the
recorded counter only grows and the marker stays). `AttesterTypes` is the type invariant.
`BreachNeverHalfDone` proves `BreachIsAtomic` from `WatchInv`: what the watcher remembers
of a breach under way is what happened to the key file as far as the code can see, only an unlink
that was carried out can be undone, and only after an overwrite that was carried out, and
before the watcher is armed it has looked at the flag. The theorem holds with power cuts that undo
any part of what was not synced. It does not say that the key's bytes are gone: that is
`DeadMeansDestroyed`, which the code does not keep.

**`MerkleTree_proofs`.** The Merkle algorithms for trees of every size. The recursive
definitions come first: from the well-foundedness of the numbers, induction for
membership of a set (`StrongInduction`); each recursive body has a name and looks only at
smaller arguments, so there is a function that solves it (`Recursion`), and each
function unfolds as it is written (`mthDef`, `pathDef`, `subproofDef`, `StripDef`, `ClimbDef`).
The verifiers work on the bits of an index and know nothing of a tree. What relates them
is a simulation (`Sim`, `Peel`): the loop in a tree of n leaves moves as the loop in the half
that holds the index does (in the left half the index is the same, in the right one
both numbers are larger by a power of two), until that one is at its top, and takes one hash
more. So verification in the whole is verification in a half and one hash (`InclLeft`,
`InclRight`, `JoinsLeft`, `JoinsRight`), as in the definitions of `path` and `subproof`, and
inductions over the size give

* `InclusionComplete` and `ConsistencyComplete`: the proofs a log computes verify;
* `InclusionSound`: a root shows one hash at an index (`ShowsUnique`), whatever the proof is
  made of, and so only the leaf that is there;
* `ConsistencySound`: a proof between two roots, whatever it is made of, keeps everything
  that the old root shows (`ShownKept`), so the new tree extends the old one;
* `RootIsTree`: two trees with one root are one;
* `CheckIsExact`: with a proof computed from a third tree, which `he-logd` may serve by
  then, the check succeeds exactly under the condition `ProofVerifies` of the witness models.
  The hashes of a proof fix the size of the tree they lead to (`SameWeight`); from a complete old
  tree they cover every later leaf (`SameTail`), otherwise the first hash is part
  of the old tree and the root decides.

**`Offline_proofs`: the log.** `LogInclusionExact`, `LogConsistencyExact`, `LogProofVerifies`,
`LogDisclosedIsLogged`, `LogShownStays` and `LogForkNeverPasses` are the properties of the
run `offline` for any number of logs, leaves and claimed sizes. They follow from the
theorems above; beyond them, a leaf shown under a root with a size that is not its
own is still a leaf of that tree (`ShownIsLeaf`). `AnchorLedger` needs an invariant of the
contract (`AnchorInv`): the head shows every leaf that any anchored checkpoint shows. It
speaks of hashes and not of trees, because a root in between need not be a tree of the size
claimed for it; when both ends are, showing the same leaves makes them one history (`OneTree`).

**`Offline_proofs`: the quorum.** The loops over the files are recursive functions, which
unfold as they are written (`passedDef`, `modalitiesDef`, by `Recursion` of
`MerkleTree_proofs`). The invariant `QuorumInv` is only the types; the work is in the loops.
After i files the votes are those of the set of the first i (`IsVote`): the names that some file
in it votes for, each with one of its votes, whatever the order. A key is matched to the first
root that has it, so one key votes for one name (`OneKeyOneName`) and the names behind an
event are as many as the keys that signed for it (`KeysOfVotes`): `QuorumKeys`. Where no root
speaks for two events, the choice among the votes of a name makes no difference
(`DecideSame`): `QuorumOrder`. `CoAttestInputs` is the same for modalities, with inputs in place of
names (`IsSeen`), with a pinned key or with none.

**`Offline_proofs`: the threshold reveal.** `ConsentInv`: a seal that nobody disturbed is alone in
its directory and the files it has got to are its own (`AloneInDirectory`), so one that
finished left `sealed.json` and all its shares (`WholeIsWritten`); a crash, a torn file or a
second seal takes it out of the claim. `AnyKOpen` and `FewerLearnNothing` follow from two facts
about the field, which are their hypotheses: `ShamirOpens`, k shares of a polynomial of degree
k - 1 determine its value at 0, and `ShamirHides`, k - 1 shares do not. These are Lagrange
interpolation; they hold in every field of prime order with coefficients from all of it, and
are false of other constants. TLC evaluates both on the instance of the run `offline`
(`ShamirAssumption` in `MCOffline`). What is proved for all constants is what the files add to it.

**`Offline_proofs`: the readers of bundles.** `ReaderInv`: edits rearrange and change items, but
the contents of every string are ones that were there, so the only signature in a message is the
one that was made. `EncodingIsOne`: after n pairs the reader has keys 0 to n - 1 in order, each with a
value of its type, or a key below the last one is missing for good (`PairsInv`); as all eleven
must be there, the payload is in order, and item by item the encoding of what is
returned (`DecodedIsEncoded`). A head that passes `readHead` has the one width its argument needs
(`WidthIs`), wherever the forms begin, as long as they are in order. `ChainAgrees`: on such a payload the contract's loop has, after n turns, the
first n fields (`FieldsInv`), and stops at the tenth with all that it keeps; each is what Go returned
(`KeptIsSame`), if it is below the word size. `EnvelopeIsSigned`: of the contents that a message may
have only one is a signature structure (`OnlySignature`), so its header and body are those that were
signed, wherever the parser found them; decoding them gives the signer's predicate
(`RoundTrip`). It holds wherever the parser believes the unprotected header to end; that `skipValue`
finds the place is `SkipsOneItem`, which is only model-checked.

**`Offline_proofs`: the receipts.** `tip` is the digest of the last receipt of a session (`Stored`). In
a session without lapses each receipt names the one signed before it, the emit under way
will name the last one, and so no receipt is signed twice (`Regular`). A follower's receipts were
signed, each names the one before it and none is there twice (`Linked`); that an accepted receipt is a
new one needs the whole chain, as a digest determines its receipt (`DigestInjective`). In a
session without lapses the follower has all receipts up to the one it took last (`Complete`): the
next one it can accept is the one signed next (`OneMore`), and this is the only session it has
been in, as the first of the session named nothing. Two followers that began in one session have the same
receipt at a place, or an earlier pair that differs names the same one (`Agreed`), and two
different receipts that name the same one mean a lapse (`ForkIsLapse`). `AcceptedIsOneSession` and
`ForksAreSigned` follow.

**Only model-checked.** Liveness (`DaemonCatchesUp`, `FloodEnds`, `AlarmSpreads`,
`SplitDetected`, `ServerSubsides`, `BreachIsAnswered`), which is out of the prover's
reach. Lagrange interpolation itself (`ShamirOpens`, `ShamirHides`), on the instance. `SkipsOneItem`,
whose count of nested items is a sum over a sequence. Every other safety invariant and action
property that a passing run checks, and both refinements, are stated by a theorem. Proved only, and not part of a run:
the types of the witnesses, of the mesh and of the trusted application, and
`SavedViewOnlyExtends`.

## 6. Not modelled

* Cryptography: hashes, signatures and AES-GCM are ideal. The proof systems and P-256
  precompiles that `HonestEarVerifier` and `HonestEarQuorum` call are external;
  `HonestEarVerifier` has no state of its own. The upper end of 64-bit counters is out
  of reach of the device and is left out with the bound the contract puts on it.
* Gate 4 (`he-verify --expect-prev`): the device does not produce a chain (section 4); the
  check is the comparison that `ReceiptChain` models for receipts.
* `eat.go` and `he-attest-verify`: equality tests on claims that are read by the readers
  modelled in `BundleReader`; of claims given twice the last one counts.
* The detector (fixed-point arithmetic in one pass over a window), the C twin of the
  COSE encoder, the host simulator, `he-gui`, `he-dump`, `he-verify-wasm`: pure
  functions and pages without state between calls, which the repository's golden
  tests and fuzzers cover.
* The scrubbing of the audio buffer by the trusted application, the pages and QR codes of
  `he-challenge`, the wording of `/health`.
* Secure storage that rolls back (without RPMB) would repeat counters; the model assumes
  it does not.
* The zero-knowledge prototype: a circuit and its scripts.
* Two hazards listed without a property: an operator who never answers `/consistency`
  keeps a cross-check inconclusive, by design; and a session older than its ttl stays
  usable until the next challenge, which no document denies.
